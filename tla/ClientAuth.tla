----------------------------- MODULE ClientAuth -----------------------------
(***************************************************************************)
(* How a client gets in: pairing with a PIN or without (pairing.c and the  *)
(* pair-* handlers of raop_handlers.h), the digest of a password that the  *)
(* first SETUP asks for, and the register of clients that have paired.     *)
(*                                                                         *)
(* The PIN, the nonce, the random password and its count belong to the     *)
(* receiver; the pairing session and `authenticated' belong to a           *)
(* connection.  There is one RAOP connection at a time (Server has how     *)
(* they replace each other); clients come, leave half-way and come back.   *)
(*                                                                         *)
(* Clients keep to the protocol within an exchange: its second step is     *)
(* sent after its first was answered, and its first again at any time.     *)
(* Which exchange comes when, and whether any does before SETUP, is theirs *)
(* to choose: no handler looks at it.  Users type the PIN that was         *)
(* displayed last, four zeros, or something else.  PINs, passwords and     *)
(* nonces are numbered as they are made.                                   *)
(***************************************************************************)
EXTENDS Integers, FiniteSets

CONSTANTS Clients, Nobody,
          MaxAttempts,  \* MAX_PW_ATTEMPTS
          Byte,         \* 256: what auth_fail_count counts to before it wraps
          MaxPins, MaxNonces  \* bounds

ASSUME NobodyAssumption == Nobody \notin Clients
ASSUME AuthBounds == /\ Byte \in Nat /\ MaxAttempts \in 1 .. Byte - 1
                     /\ MaxPins \in Nat \ {0} /\ MaxNonces \in Nat \ {0}

VARIABLES pin_pw,     \* "none", "pin", "password" or "random": the option
          fixed,      \* was the PIN given as an option?
          listed,     \* registration_list: is a register kept?
          checked,    \* is this a build in which assertions are evaluated?
          pin,        \* raop.pin
          made,       \* PINs and random passwords made so far
          displayed,  \* the one on the display
          nonce, issued, \* raop.nonce, and the number of nonces made
          random_pw,  \* what it is and whom it was made for
          auth_fail_count,
          who, conn,  \* the connected client, its connection
          known,      \* the nonce each client was given last
          registered, \* registered_keys
          saved,      \* the file of pairing_register
          paired,     \* history: clients that have completed a pairing
          shows,      \* history: how often random_pw was displayed
          used,       \* history: nonces and PINs that have let someone in
          alive       \* FALSE when the process has crashed

options == <<pin_pw, fixed, listed, checked>>
pins == <<pin, made, displayed>>
nonces == <<nonce, issued, known>>
passwords == <<random_pw, auth_fail_count, shows>>
register == <<registered, saved, paired>>
authVars == <<options, pins, nonces, passwords, who, conn, register, used, alive>>

NoNumber == 0
Zeros == 0            \* what raop.pin is when it has been used: "0000"
NoSrp == -1          \* session->srp is NULL
Mistyped == -2
NoPw == [pw |-> NoNumber, for |-> Nobody]

Statuses == {"initial", "setup", "handshake", "finished"}
\* What the client has had answered, and may go on from.
Stages == {"new", "salted", "proved", "verifying"}

NewConn == [status |-> "initial", srp |-> NoSrp, stage |-> "new",
            pair_setup |-> FALSE, authenticated |-> FALSE]

Use(n) == [kind |-> "nonce", number |-> n]
UsePin(n) == [kind |-> "pin", number |-> n]

AuthTypeOK ==
    /\ pin_pw \in {"none", "pin", "password", "random"}
    /\ fixed \in BOOLEAN /\ listed \in BOOLEAN /\ checked \in BOOLEAN /\ alive \in BOOLEAN
    /\ made \in 0 .. MaxPins /\ pin \in 0 .. made /\ displayed \in 0 .. made
    /\ issued \in 0 .. MaxNonces /\ nonce \in 0 .. issued
    /\ known \in [Clients -> 0 .. issued]
    /\ random_pw \in [pw : 0 .. made, for : Clients \cup {Nobody}]
    /\ auth_fail_count \in 0 .. Byte - 1
    /\ who \in Clients \cup {Nobody}
    /\ conn \in [status : Statuses, srp : -1 .. made, stage : Stages,
                 pair_setup : BOOLEAN, authenticated : BOOLEAN]
    /\ registered \subseteq Clients /\ saved \subseteq Clients /\ paired \subseteq Clients

\* A fixed PIN is PIN number 1, made before the first client comes.
AuthInit ==
    /\ pin_pw \in {"none", "pin", "password", "random"}
    /\ fixed \in BOOLEAN /\ (fixed => pin_pw = "pin")
    /\ listed \in BOOLEAN /\ (listed => pin_pw = "pin")
    /\ checked \in BOOLEAN
    /\ made = (IF fixed THEN 1 ELSE 0) /\ pin = made /\ displayed = 0
    /\ nonce = NoNumber /\ issued = 0 /\ known = [c \in Clients |-> NoNumber]
    /\ random_pw = NoPw /\ auth_fail_count = 0 /\ shows = 0
    /\ who = Nobody /\ conn = NewConn
    /\ registered = {} /\ saved = {} /\ paired = {} /\ used = {}
    /\ alive = TRUE

Connected == alive /\ who # Nobody

-----------------------------------------------------------------------------
Connect(c) ==
    /\ alive /\ who = Nobody
    /\ who' = c /\ conn' = NewConn
    /\ UNCHANGED <<options, pins, nonces, passwords, register, used, alive>>

Disconnect ==
    /\ Connected
    /\ who' = Nobody /\ conn' = NewConn
    /\ UNCHANGED <<options, pins, nonces, passwords, register, used, alive>>

\* The program is started again: what is in memory is gone, the register is
\* read from its file.
Restart ==
    /\ alive
    /\ who' = Nobody /\ conn' = NewConn
    /\ pin' = (IF fixed THEN 1 ELSE 0)
    /\ nonce' = NoNumber /\ random_pw' = NoPw /\ auth_fail_count' = 0 /\ shows' = 0
    /\ registered' = saved
    /\ UNCHANGED <<options, made, displayed, issued, known, saved, paired, used, alive>>

DisplayPin(p) == displayed' = p

\* raop_handler_pairpinstart: a PIN is made for each request, unless it is fixed,
\* and whatever the option says.
PairPinStart ==
    /\ Connected
    /\ \/ /\ fixed
          /\ DisplayPin(pin) /\ UNCHANGED <<pin, made>>
       \/ /\ ~fixed /\ made < MaxPins
          /\ made' = made + 1 /\ pin' = made' /\ DisplayPin(made')
    /\ UNCHANGED <<options, nonces, passwords, who, conn, register, used, alive>>

\* A PIN is taken once.  What is taken next is four zeros.
TakePin == IF fixed THEN pin ELSE Zeros

\* pair-setup-pin, first request: srp_new_user with the PIN of the moment.  One
\* in 128 fails, when the salt or the verifier begins with a zero byte.
PairSetupPin1 ==
    /\ Connected
    /\ pin' = TakePin
    /\ \E ok \in BOOLEAN :
         conn' = [conn EXCEPT !.srp = IF ok THEN pin ELSE NoSrp,
                              !.stage = IF ok THEN "salted" ELSE "new"]
    /\ UNCHANGED <<options, made, displayed, nonces, passwords, who, register, used, alive>>

\* srp_verifier_is_authenticated: the client has used the PIN of the verifier.
ProofIsValid(typed) == typed = conn.srp

\* Second request: a proof that is wrong ends the exchange.
PairSetupPin2 ==
    /\ Connected /\ conn.stage = "salted"
    /\ \E typed \in {displayed, Zeros, Mistyped} :
         conn' = IF ProofIsValid(typed)
                 THEN [conn EXCEPT !.stage = "proved"]
                 ELSE [conn EXCEPT !.stage = "new", !.srp = NoSrp]
    /\ UNCHANGED <<options, pins, nonces, passwords, who, register, used, alive>>

\* srp_confirm_pair_setup: the client's key comes sealed with the session key,
\* and is kept; nothing of the exchange is needed any more.
ConfirmPairSetup(c) == [c EXCEPT !.srp = NoSrp, !.pair_setup = TRUE]

\* Third request.
PairSetupPin3 ==
    /\ Connected /\ conn.stage = "proved"
    /\ conn' = [ConfirmPairSetup(conn) EXCEPT !.status = "setup", !.stage = "new"]
    /\ paired' = paired \cup {who}
    /\ used' = used \cup {UsePin(conn.srp)}
    /\ UNCHANGED <<options, pins, nonces, passwords, who, registered, saved, alive>>

\* pair-setup: the keys are exchanged, with nothing asked.
PairSetup ==
    /\ Connected
    /\ conn' = [conn EXCEPT !.status = "setup"]
    /\ UNCHANGED <<options, pins, nonces, passwords, who, register, used, alive>>

\* pairing_session_check_handshake_status
InSetup(status) == status \in {"setup", "handshake"}

\* check_register
IsRegistered(c) == listed => c \in registered

\* pair-verify, first request.  Without a PIN it needs a pair-setup before it.
\* With one, a client that is new to this connection is looked up; the handshake
\* itself is under way by then, and a request that is repeated is not looked up.
PairVerify1 ==
    /\ Connected
    /\ \/ /\ InSetup(conn.status)
          /\ conn' = [conn EXCEPT !.status = "handshake", !.stage = "verifying"]
       \/ /\ ~InSetup(conn.status) /\ pin_pw = "pin"
          /\ conn' = [conn EXCEPT !.status = "handshake",
                                  !.stage = IF IsRegistered(who) THEN "verifying" ELSE "new"]
       \/ /\ ~InSetup(conn.status) /\ pin_pw # "pin"
          /\ UNCHANGED conn
    /\ UNCHANGED <<options, pins, nonces, passwords, who, register, used, alive>>

\* Second request: the signature, which a client can always make.
PairVerify2 ==
    /\ Connected /\ conn.stage = "verifying" /\ conn.status = "handshake"
    /\ conn' = [conn EXCEPT !.status = "finished", !.stage = "new"]
    /\ UNCHANGED <<options, pins, nonces, passwords, who, register, used, alive>>

-----------------------------------------------------------------------------
\* Into the register, and into its file if that can be written.
RegisterClient(c) ==
    /\ registered' = registered \cup {c}
    /\ saved' \in {saved, saved \cup {c}}
    /\ UNCHANGED paired

\* Mutant: whoever is admitted goes into the register.
AdmitAll ==
    \/ UNCHANGED register
    \/ listed /\ RegisterClient(who)

\* The first SETUP, once the password is settled: a client that is admitted and
\* has paired on this connection goes into the register.
Admit ==
    \/ UNCHANGED register
    \/ conn.pair_setup /\ listed /\ RegisterClient(who)

\* passwd: is there a password to ask for, its own or a random one?
HasPassword == pin_pw \in {"password", "random"}

NeedsPassword == HasPassword /\ ~conn.authenticated

SetupAdmitted ==
    /\ Connected /\ ~NeedsPassword
    /\ Admit
    /\ UNCHANGED <<options, pins, nonces, passwords, who, conn, used, alive>>

\* A client that does not answer a challenge unsets the password of another.
KeptFor(c) == IF random_pw.for = c THEN random_pw ELSE NoPw

\* After MAX_PW_ATTEMPTS a new random password is made.
StillGood(p) == IF auth_fail_count >= MaxAttempts THEN NoPw ELSE p

\* Takes p as the password, or makes one when there is none.
Password(p) ==
    IF pin_pw = "password" \/ p # NoPw
    THEN random_pw' = p /\ UNCHANGED <<pin, made>>
    ELSE /\ made < MaxPins
         /\ made' = made + 1 /\ UNCHANGED pin
         /\ random_pw' = [pw |-> made', for |-> who]

\* pairing_session_make_nonce: a hash of the time and of the client.
MakeNonce == issued < MaxNonces /\ issued' = issued + 1

\* A 401 with a nonce.  The call that makes it is the argument of an assertion:
\* where assertions are compiled out every nonce is the same sixteen zero bytes.
Challenge == /\ IF checked THEN MakeNonce ELSE issued' = 1
             /\ nonce' = issued'
             /\ known' = [known EXCEPT ![who] = issued']

\* A SETUP without an answer displays the random password, and counts it.
SetupAsks ==
    /\ Connected /\ NeedsPassword
    /\ Password(StillGood(KeptFor(who)))
    /\ Challenge
    /\ IF pin_pw = "random"
       THEN /\ DisplayPin(random_pw'.pw)
            /\ auth_fail_count' = (IF random_pw' = random_pw THEN auth_fail_count ELSE 0) + 1
            /\ shows' = (IF random_pw' = random_pw THEN shows ELSE 0) + 1
       ELSE UNCHANGED <<displayed, auth_fail_count, shows>>
    /\ UNCHANGED <<options, who, conn, register, used, alive>>

\* Mutant: the nonce of the answer is not compared.
NonceIsAny(c) == TRUE

NonceIsFresh(c) == known[c] = nonce

\* A SETUP with an answer to the last challenge this client was given, on this
\* connection or one before it.  A right answer when there is no nonce any more
\* compares it with NULL.
SetupAnswers(right) ==
    /\ Connected /\ NeedsPassword /\ known[who] # NoNumber
    /\ pin_pw = "random" /\ right => displayed # NoNumber
    /\ LET p == StillGood(random_pw)
           verified == IF pin_pw = "password" THEN right
                       ELSE right /\ p # NoPw /\ p.pw = displayed
           fails == IF pin_pw = "random" /\ p = NoPw THEN 0 ELSE auth_fail_count
       IN  IF verified /\ nonce = NoNumber
           THEN alive' = FALSE /\ UNCHANGED <<pins, nonces, passwords, conn, register, used>>
           ELSE IF verified /\ NonceIsFresh(who)
           THEN /\ conn' = [conn EXCEPT !.authenticated = TRUE]
                /\ nonce' = NoNumber /\ random_pw' = NoPw
                /\ used' = used \cup {Use(known[who])}
                /\ Admit
                /\ UNCHANGED <<pins, issued, known, auth_fail_count, shows, alive>>
           ELSE /\ Password(p) /\ Challenge
                /\ auth_fail_count' = (IF verified \/ pin_pw = "random" THEN fails
                                       ELSE (fails + 1) % Byte)
                /\ shows' = (IF random_pw' = random_pw THEN shows ELSE 0)
                /\ UNCHANGED <<displayed, conn, register, used, alive>>
    /\ UNCHANGED <<options, who>>

AuthNext ==
    \/ \E c \in Clients : Connect(c)
    \/ Disconnect \/ Restart
    \/ PairPinStart \/ PairSetupPin1 \/ PairSetupPin2 \/ PairSetupPin3
    \/ PairSetup \/ PairVerify1 \/ PairVerify2
    \/ SetupAdmitted \/ SetupAsks
    \/ \E right \in BOOLEAN : SetupAnswers(right)

AuthSpec == AuthInit /\ [][AuthNext]_authVars

-----------------------------------------------------------------------------
\* The receiver's and the connection's halves of the state fit: a nonce or a
\* password is held only where one is asked for, and the register on disk is
\* never ahead of the one in memory.
Consistent ==
    /\ AuthTypeOK
    /\ nonce # NoNumber \/ random_pw # NoPw => HasPassword
    /\ random_pw # NoPw => pin_pw = "random"
    /\ saved \subseteq registered
    /\ conn.stage = "proved" => conn.srp # NoSrp
    /\ who = Nobody => conn = NewConn

\* Whoever is in the register has paired with a PIN, on this connection or before
\* a reconnection or a restart that went over the register's file.
RegisteredHavePaired == registered \subseteq paired

\* A random password is displayed at most MAX_PW_ATTEMPTS times, by whichever
\* clients ask: the count starts anew with each password that is made, also one
\* that is made to check an answer and is never displayed.
DisplaysAreCounted ==
    random_pw # NoPw => auth_fail_count = shows /\ shows <= MaxAttempts

\* The receiver keeps one register and one count for all clients, and both are
\* true of every client whichever requests the clients send in between.
AccountsAreTrue == Consistent /\ RegisteredHavePaired /\ DisplaysAreCounted

\* A PIN that was made for one display pairs one client, once, although the
\* receiver keeps one PIN for all and a display is not taken back.  The zeros
\* that stand in its place afterwards, and before any is made, are not a PIN that
\* was made: a verifier of theirs pairs as often as it is asked for.
PinPairsOnce ==
    [][\A c \in Clients : c \in paired' /\ conn'.pair_setup /\ ~conn.pair_setup
        => fixed \/ conn.srp = Zeros \/ UsePin(conn.srp) \notin used]_authVars

\* An answer lets in the client whose challenge it answers and, where nonces
\* are made at all, lets it in once, although the receiver keeps one nonce for
\* all and clients repeat their answers.
NonceAdmitsOnce ==
    [][conn'.authenticated /\ ~conn.authenticated
        => /\ known[who] = nonce
           /\ checked => Use(nonce) \notin used]_authVars

\* What lets a client in lets it in once.
CredentialsWorkOnce == PinPairsOnce /\ NonceAdmitsOnce

\* "Create a nonce" (raop_handlers.h:724), for RFC 2617: a number used once.
NoncesAreUsedOnce ==
    [][conn'.authenticated /\ ~conn.authenticated => Use(nonce) \notin used]_authVars

=============================================================================
