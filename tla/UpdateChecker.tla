--------------------------- MODULE UpdateChecker ---------------------------
(***************************************************************************)
(* The update checker of the settings window (src/updatechecker.cpp) and   *)
(* the part of the window that drives it (src/mainwindow.cpp): a check of  *)
(* GitHub's latest release, the download of its installer into a part      *)
(* file, its verification, and the launch.  Everything runs on one event   *)
(* loop; what interleaves are the answers of the network, the clicks of    *)
(* the user, the daily check and the temp folder, which others write to at *)
(* any time: also between the last look at the installer and its start.    *)
(*                                                                         *)
(* A release is its version, whether this copy can install it (an MSI copy *)
(* and an installer with a digest: `verifiable`), and whether GitHub states *)
(* its size.  The installed version is 0.  What a file holds is the release *)
(* its bytes hash to, or Garbage.                                          *)
(***************************************************************************)
EXTENDS Integers

CONSTANTS MaxVersion,   \* the newest version GitHub may ever publish
          Size          \* how many chunks an installer is

ASSUME UpdateAssumption == MaxVersion \in Nat \ {0} /\ Size \in Nat \ {0}

Release    == [version : 0..MaxVersion, verifiable : BOOLEAN, sized : BOOLEAN]
NoRelease  == [version |-> -1, verifiable |-> FALSE, sized |-> FALSE]
Garbage    == [version |-> -2, verifiable |-> FALSE, sized |-> FALSE]
Content    == Release \union {NoRelease, Garbage}   \* NoRelease: no such file

VARIABLES
  update,      \* m_state
  offer,       \* m_release
  reply,       \* m_reply: what the request in flight asks for
  part,        \* the part file: [chunks, good], chunks = -1 when there is none
  installer,   \* what the file at m_installerPath holds
  cancelled,   \* m_cancelled
  writeFailed, \* m_writeFailed
  skippedVersion, \* the setting "update_skipped_version"
  notified,    \* the setting "update_notified_version"
  launch,      \* launchInstaller: not in it, has looked at the file, msiexec runs
  changed      \* history: the file has changed since it was looked at

launchVars == <<launch, changed>>
updateVars == <<update, offer, reply, part, installer, cancelled, writeFailed,
                skippedVersion, notified, launchVars>>

NoPart == [chunks |-> -1, good |-> TRUE]
Newer(release) == release.version > 0

UpdateTypeOK ==
  /\ update \in {"Idle", "Checking", "UpToDate", "Available", "Downloading", "Ready", "Failed"}
  /\ offer \in Release \union {NoRelease}
  /\ reply \in {"none", "check", "download"}
  /\ part \in [chunks : -1..Size, good : BOOLEAN]
  /\ installer \in Content
  /\ launch \in {"no", "checked", "started"} /\ changed \in BOOLEAN
  /\ cancelled \in BOOLEAN /\ writeFailed \in BOOLEAN
  /\ {skippedVersion, notified} \subseteq -1..MaxVersion

UpdateInit ==
  /\ update = "Idle" /\ offer = NoRelease /\ reply = "none"
  /\ part = NoPart /\ installer = NoRelease
  /\ cancelled = FALSE /\ writeFailed = FALSE
  /\ skippedVersion = -1 /\ notified = -1 /\ launch = "no" /\ changed = FALSE

-----------------------------------------------------------------------------
(* updateUpdateUi: the card is shown with an offer, unless it was skipped,  *)
(* and the tray tells of each version once.                                *)
IsOffered(state, release) ==
  /\ release # NoRelease /\ state \in {"Available", "Downloading", "Ready", "Failed"}
  /\ state = "Available" => skippedVersion # release.version
SkipIsShown(state) == state \in {"Available", "Failed"}
UpdateUi(state, release) ==
  notified' = IF state = "Available" /\ IsOffered(state, release) THEN release.version ELSE notified

(* setState and what listens to it.                                        *)
SetState(state, release) ==
  /\ update' = state /\ offer' = release
  /\ UpdateUi(state, release)

(* The timer at start-up, the daily timer, or "Check now", which also      *)
(* forgets a skipped version; the button is dead while a check cannot be.  *)
Check(asked) ==
  /\ update \notin {"Checking", "Downloading", "Ready"}
  /\ skippedVersion' = IF asked THEN -1 ELSE skippedVersion
  /\ reply' = "check"
  /\ update' = "Checking"
  /\ UNCHANGED <<offer, notified, part, installer, cancelled, writeFailed, launchVars>>

(* applyRelease: what of GitHub's JSON is kept.  A release with no         *)
(* installer to verify can only be opened in the browser.                  *)
Applied(release) == IF Newer(release) THEN "Available" ELSE "UpToDate"

(* finishCheck: 404 is nothing newer; an error, an unreadable answer or a  *)
(* tag that is no version leaves nothing on offer.                         *)
FinishCheck ==
  /\ reply = "check" /\ reply' = "none"
  /\ \/ SetState("UpToDate", NoRelease)
     \/ SetState("Failed", NoRelease)
     \/ \E release \in Release : SetState(Applied(release), release)
  /\ UNCHANGED <<part, installer, cancelled, writeFailed, skippedVersion, launchVars>>

(* Only an MSI copy, offered an installer with a digest, updates itself.   *)
CanInstallInPlace == offer.verifiable

(* download: the primary button where the copy can update itself.          *)
Download ==
  /\ update \in {"Available", "Failed"}
  /\ CanInstallInPlace
  /\ installer' = NoRelease
  /\ \/ (* the part file cannot be opened *)
        /\ SetState("Failed", offer)
        /\ UNCHANGED <<reply, part, cancelled, writeFailed>>
     \/ /\ part' = [chunks |-> 0, good |-> TRUE]
        /\ cancelled' = FALSE /\ writeFailed' = FALSE
        /\ reply' = "download"
        /\ SetState("Downloading", offer)
  /\ UNCHANGED <<skippedVersion, launchVars>>

(* readyRead: a chunk is written and hashed; a chunk that cannot be        *)
(* written aborts the reply.                                               *)
Receive ==
  /\ reply = "download" /\ ~cancelled /\ ~writeFailed
  /\ \/ /\ part.chunks < Size
        /\ \E good \in BOOLEAN :
             part' = [chunks |-> part.chunks + 1, good |-> part.good /\ good]
        /\ UNCHANGED writeFailed
     \/ writeFailed' = TRUE /\ UNCHANGED part
  /\ UNCHANGED <<update, offer, reply, installer, cancelled, skippedVersion, notified, launchVars>>

(* cancelDownload: the click may find the last byte already received, the  *)
(* reply's finish on its way.                                              *)
CancelDownload ==
  /\ update = "Downloading" /\ reply = "download"
  /\ cancelled' = TRUE
  /\ UNCHANGED <<update, offer, reply, part, installer, writeFailed, skippedVersion, notified, launchVars>>

(* The two tests of finishDownload: the size, when GitHub states one, and  *)
(* the digest, which only the whole installer has.                         *)
Verifies ==
  /\ offer.sized => part.chunks = Size
  /\ part.good /\ part.chunks = Size

(* Mutant: a cancel that comes after the last byte is too late.            *)
CancelsUnlessComplete == cancelled /\ part.chunks < Size
Cancels == cancelled

(* finishDownload.  `error` is the error of the reply: an abort, a refusal *)
(* or the transfer timeout.                                                *)
FinishDownload(error) ==
  /\ reply = "download" /\ reply' = "none"
  /\ writeFailed => error
  /\ part' = NoPart
  /\ \/ /\ Cancels
        /\ SetState("Available", offer)
        /\ UNCHANGED installer
     \/ /\ ~Cancels /\ (error \/ ~Verifies)
        /\ SetState("Failed", offer)
        /\ UNCHANGED installer
     \/ /\ ~Cancels /\ ~error /\ Verifies
        /\ \/ /\ installer' = offer
              /\ SetState("Ready", offer)
           \/ (* the part file cannot be renamed *)
              /\ installer' = NoRelease
              /\ SetState("Failed", offer)
  /\ UNCHANGED <<cancelled, writeFailed, skippedVersion, launchVars>>

(* fileMatchesSha256, and its mutant: the file is only looked for.         *)
FileExists == installer # NoRelease
FileMatches == installer = offer

(* launchInstaller looks at the file before it starts msiexec.             *)
CheckInstaller ==
  /\ update = "Ready" /\ launch = "no"
  /\ changed' = FALSE
  /\ \/ /\ FileMatches
        /\ launch' = "checked"
        /\ UNCHANGED <<update, offer, notified, installer>>
     \/ /\ ~FileMatches
        /\ installer' = NoRelease
        /\ SetState("Failed", offer)
        /\ UNCHANGED launch
  /\ UNCHANGED <<reply, part, cancelled, writeFailed, skippedVersion>>

(* msiexec is started with the file's name, then quit().  It opens the     *)
(* file when it comes to it; a change until then is one before its start.  *)
StartInstaller ==
  /\ launch = "checked"
  /\ \/ launch' = "started" /\ UNCHANGED <<update, offer, notified>>
     \/ launch' = "no" /\ SetState("Failed", offer)
  /\ UNCHANGED <<reply, part, installer, cancelled, writeFailed, skippedVersion, changed>>

(* The card's primary button, and "Skip this version" beside it.           *)
OnUpdatePrimaryAction ==
  /\ IsOffered(update, offer)
  /\ Download \/ CancelDownload \/ CheckInstaller

SkipVersion ==
  /\ SkipIsShown(update) /\ IsOffered(update, offer)
  /\ skippedVersion' = offer.version
  /\ UNCHANGED <<update, offer, reply, part, installer, cancelled, writeFailed, notified, launchVars>>

(* The temp folder is the user's: the file may be cleaned away or written. *)
TempFolderChanges ==
  /\ installer # NoRelease /\ launch # "started"
  /\ installer' \in {NoRelease, Garbage}
  /\ changed' = (launch = "checked")
  /\ UNCHANGED <<update, offer, reply, part, cancelled, writeFailed, skippedVersion, notified, launch>>

UpdateNext ==
  \/ \E asked \in BOOLEAN : Check(asked)
  \/ FinishCheck
  \/ OnUpdatePrimaryAction \/ StartInstaller \/ Receive
  \/ \E error \in BOOLEAN : FinishDownload(error)
  \/ SkipVersion \/ TempFolderChanges

UpdateSpec == UpdateInit /\ [][UpdateNext]_updateVars

-----------------------------------------------------------------------------
(* What the checker's pieces of state say of each other.  A request is in  *)
(* flight exactly in the two busy states, a part file exactly in           *)
(* Downloading (no failure leaves one behind); only a newer release is     *)
(* ever offered, and only one with a digest is fetched; and msiexec is     *)
(* started with the release on offer, bit for bit, whatever the network    *)
(* sent and whatever happened to the folder after the download: unless it  *)
(* happens between the last look at the file and the use of it, which      *)
(* nothing prevents (updatechecker.cpp:301-376).                           *)
OnlyTheOfferIsInstalled ==
  /\ UpdateTypeOK
  /\ (reply = "check") <=> (update = "Checking")
  /\ (reply = "download") <=> (update = "Downloading")
  /\ (part # NoPart) <=> (update = "Downloading")
  /\ update \in {"Available", "Downloading", "Ready"} => Newer(offer)
  /\ update = "Failed" => offer = NoRelease \/ Newer(offer)
  /\ update \in {"Downloading", "Ready"} => offer.verifiable
  /\ launch # "no" => update = "Ready" /\ (~changed => installer = offer)

(* A cancelled download ends as an offer, however late the cancel came and *)
(* whatever the reply says (updatechecker.cpp:295-319).                    *)
CancelIsHonoured ==
  [][update = "Downloading" /\ cancelled => update' \in {"Downloading", "Available"}]_updateVars
=============================================================================
