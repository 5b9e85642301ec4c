------------------------- MODULE HlsPlaylistsProofs -------------------------
(***************************************************************************)
(* That the playlist slots are a library of videos that is never full, and *)
(* that what the player is started with is there, for any number of slots  *)
(* and of play requests.                                                   *)
(*                                                                         *)
(* An answer is filed at the place the download has reached, so what has   *)
(* to be shown is that there is one question at a time for each download   *)
(* (AsksPart) and that it is about that place (Expected).  Then every      *)
(* entry before the place is Done and every one behind it still Fresh.     *)
(* Nothing of this is claimed of a video that was given an answer to       *)
(* another download: its from is 0.                                        *)
(***************************************************************************)
EXTENDS HlsPlaylists, Modular, FiniteSetTheorems, SequenceTheorems, TLAPS

Texts == Uris \union {None}
Entries == [num : Nat, text : Texts]
Videos == [uuid : Uuids \union {None}, session : Sessions \union {None}, from : Nat, located : BOOLEAN,
           uris : Seq(Uris), next : Nat, media : Seq(Entries)]

FirstOf(v, n) == \A j \in 1 .. n - 1 : v.uris[j] # v.uris[n]
Fresh(v, n) == v.media[n].num = n /\ v.media[n].text = None
Done(v, n) == \E m \in 1 .. n :
  /\ v.media[n].num = m /\ v.uris[m] = v.uris[n] /\ FirstOf(v, m)
  /\ v.media[m].text = v.uris[n]

(* A table whose playlists have come up to the place it has reached.       *)
Sound(v) == v.from # 0 => \A n \in 1 .. Len(v.uris) :
  /\ n < v.next => Done(v, n)
  /\ n > v.next => Fresh(v, n)
  /\ Fresh(v, n) \/ Done(v, n)
  /\ v.media[n].text \in {None, v.uris[n]}

VideoOK(v) ==
  /\ v \in Videos /\ v.uris \in Tables \union {<<>>}
  /\ Len(v.media) = Len(v.uris) /\ v.next <= Len(v.uris)
  /\ v.uuid = None => v = Free
  /\ v.uuid # None => v.session \in Sessions
  /\ Sound(v)

-----------------------------------------------------------------------------
(* One table.                                                              *)
LEMMA FreeIsSound == VideoOK(Free) /\ Free.uuid = None /\ Free.from = 0
<1>1. Free \in Videos
  BY EmptySeq DEF Free, Videos
<1>2. Len(Free.uris) = 0 /\ Len(Free.media) = 0
  BY DEF Free
<1> QED BY <1>1, <1>2 DEF VideoOK, Sound, Free

NewVideo(u, t, s, b) == [Free EXCEPT !.uuid = u, !.session = t, !.from = s, !.located = b]

LEMMA NewIsSound ==
  ASSUME NEW u \in Uuids, NEW t \in Sessions, NEW s \in Nat, NEW b \in BOOLEAN,
         NEW v, v = NewVideo(u, t, s, b)
  PROVE  VideoOK(v) /\ v.uuid = u /\ v.from = s /\ v.session = t
<1>1. Free \in Videos /\ Len(Free.uris) = 0 /\ Len(Free.media) = 0 /\ Free.next = 0
  BY FreeIsSound DEF VideoOK, Free
<1>2. v \in Videos
  BY <1>1 DEF Videos, NewVideo
<1>3. /\ v.uris = Free.uris /\ v.media = Free.media /\ v.next = Free.next
      /\ v.uuid = u /\ v.from = s /\ v.session = t
  BY <1>1 DEF Videos, NewVideo
<1>4. v.uris = <<>>
  BY <1>3 DEF Free
<1> QED BY <1>1, <1>2, <1>3, <1>4, NoneAssumption DEF VideoOK, Sound

LEMMA TabledIsSound ==
  ASSUME NEW v, VideoOK(v), v.uuid # None, NEW uris \in Tables
  PROVE  /\ VideoOK(Tabled(v, uris)) /\ Tabled(v, uris).next = 0
         /\ Tabled(v, uris).uris = uris /\ Len(uris) > 0
         /\ Tabled(v, uris).uuid = v.uuid /\ Tabled(v, uris).from = v.from
         /\ Tabled(v, uris).session = v.session
<1> DEFINE media == [n \in 1 .. Len(uris) |-> [num |-> n, text |-> None]]
           w == Tabled(v, uris)
<1>1. uris \in Seq(Uris) /\ uris # <<>> /\ Len(uris) \in Nat /\ Len(uris) > 0
  BY TableAssumption, LenProperties, EmptySeq
<1>2. media \in Seq(Entries) /\ Len(media) = Len(uris)
  BY <1>1 DEF Entries, Texts
<1>3. /\ w = [v EXCEPT !.uris = uris, !.next = 0, !.media = media]
      /\ v \in Videos
  BY DEF Tabled, VideoOK
<1> HIDE DEF media, w
<1>4. /\ w.uris = uris /\ w.next = 0 /\ w.media = media /\ w.uuid = v.uuid
      /\ w.from = v.from /\ w.session = v.session /\ w \in Videos
  <2>1. /\ w.uris = uris /\ w.next = 0 /\ w.media = media /\ w.uuid = v.uuid
        /\ w.from = v.from /\ w.session = v.session
    BY <1>3 DEF Videos
  <2> QED BY <1>1, <1>2, <1>3 DEF Videos
<1>5. \A n \in 1 .. Len(w.uris) : Fresh(w, n)
  BY <1>4 DEF Fresh, media
<1>6. Sound(w)
  BY <1>1, <1>4, <1>5 DEF Sound, Fresh
<1> QED BY <1>1, <1>2, <1>4, <1>6 DEF VideoOK, w

(* Asking for the next playlist.                                           *)
LEMMA AdvanceIsSound ==
  ASSUME NEW v, VideoOK(v), HasMore(v), v.next > 0 /\ v.from # 0 => Done(v, v.next),
         NEW w, w = [v EXCEPT !.next = @ + 1]
  PROVE  /\ VideoOK(w) /\ w.next = v.next + 1 /\ w.uris = v.uris
         /\ w.uuid = v.uuid /\ w.from = v.from /\ w.session = v.session
<1>1. /\ v \in Videos /\ Len(v.uris) \in Nat /\ v.next \in Nat /\ v.next < Len(v.uris)
      /\ Len(v.media) = Len(v.uris) /\ v.uris \in Tables \union {<<>>}
  BY LenProperties DEF VideoOK, Videos, HasMore
<1>2. /\ w.next = v.next + 1 /\ w.uris = v.uris /\ w.uuid = v.uuid /\ w.from = v.from
      /\ w.media = v.media /\ w.session = v.session
  BY <1>1 DEF Videos
<1>3. w \in Videos
  BY <1>1 DEF Videos
<1>4. \A n \in 1 .. Len(v.uris) : /\ Done(w, n) <=> Done(v, n)
                                  /\ Fresh(w, n) <=> Fresh(v, n)
  BY <1>2 DEF Done, Fresh, FirstOf
<1>5. Sound(w)
  <2> SUFFICES ASSUME NEW n \in 1 .. Len(v.uris), v.from # 0
               PROVE  /\ n < w.next => Done(w, n)
                      /\ n > w.next => Fresh(w, n)
                      /\ Fresh(w, n) \/ Done(w, n)
                      /\ w.media[n].text \in {None, w.uris[n]}
    BY <1>2 DEF Sound
  <2>1. n < w.next => n < v.next \/ n = v.next
    BY <1>1, <1>2
  <2>2. n > w.next => n > v.next
    BY <1>1, <1>2
  <2> QED BY <1>1, <1>2, <1>4, <2>1, <2>2 DEF VideoOK, Sound
<1>6. v.uuid # None
  BY <1>1 DEF VideoOK, Free
<1> QED BY <1>1, <1>2, <1>3, <1>5, <1>6 DEF VideoOK

LEMMA EntryChanges ==
  ASSUME NEW v, VideoOK(v), NEW k \in 1 .. Len(v.uris), NEW m \in Entries,
         NEW x, x = [v EXCEPT !.media[k] = m]
  PROVE  /\ x \in Videos /\ x.next = v.next /\ x.uris = v.uris /\ x.uuid = v.uuid
         /\ x.from = v.from /\ x.session = v.session /\ Len(x.media) = Len(v.media)
         /\ x.media[k] = m /\ \A n \in 1 .. Len(v.uris) : n # k => x.media[n] = v.media[n]
<1> DEFINE media == [v.media EXCEPT ![k] = m]
<1>1. v \in Videos /\ v.media \in Seq(Entries) /\ Len(v.media) = Len(v.uris)
  BY DEF VideoOK, Videos
<1>2. /\ media \in Seq(Entries) /\ Len(media) = Len(v.media) /\ media[k] = m
      /\ \A n \in 1 .. Len(v.uris) : n # k => media[n] = v.media[n]
  BY <1>1, ExceptSeq
<1>3. x = [v EXCEPT !.media = media]
  BY <1>1 DEF Videos
<1> HIDE DEF media
<1>4. /\ x.next = v.next /\ x.uris = v.uris /\ x.uuid = v.uuid /\ x.from = v.from
      /\ x.session = v.session /\ x.media = media
  BY <1>1, <1>3 DEF Videos
<1>5. x \in Videos
  BY <1>1, <1>2, <1>3 DEF Videos
<1> QED BY <1>2, <1>4, <1>5

(* Filing any answer at all in a video of which nothing is claimed.        *)
LEMMA StoredIsTyped ==
  ASSUME NEW v, VideoOK(v), v.uuid # None, v.from = 0, NEW text \in Uris,
         NEW w, w = Stored(v, text)
  PROVE  VideoOK(w) /\ w.from = 0 /\ w.uuid = v.uuid /\ w.session = v.session
<1> DEFINE k == v.next
           same == {i \in 1 .. k - 1 : v.uris[i] = v.uris[k]}
           first == CHOOSE i \in same : \A j \in same : i <= j
<1>1. CASE w = v
  BY <1>1
<1>2. ASSUME NEW m \in Entries, k \in 1 .. Len(v.uris), w = [v EXCEPT !.media[k] = m]
      PROVE  VideoOK(w) /\ w.from = 0 /\ w.uuid = v.uuid /\ w.session = v.session
  <2>1. /\ w \in Videos /\ w.next = v.next /\ w.uris = v.uris /\ w.uuid = v.uuid
        /\ w.from = v.from /\ w.session = v.session /\ Len(w.media) = Len(v.media)
    BY <1>2, EntryChanges
  <2> QED BY <2>1 DEF VideoOK, Sound
<1>3. CASE k # 0 /\ w # v
  <2>1. k \in 1 .. Len(v.uris) /\ v.media[k] \in Entries /\ v \in Videos
    BY <1>3, LenProperties, ElementOfSeq DEF VideoOK, Videos
  <2>2. CASE same = {}
    <3> DEFINE m == [v.media[k] EXCEPT !.text = text]
    <3>1. m \in Entries
      BY <2>1 DEF Entries, Texts
    <3>2. w = [v EXCEPT !.media[k] = m]
      BY <1>3, <2>1, <2>2 DEF Stored, Videos
    <3> HIDE DEF m
    <3> QED BY <1>2, <2>1, <3>1, <3>2
  <2>3. CASE same # {}
    <3> DEFINE m == [v.media[k] EXCEPT !.num = first]
    <3>1. first \in Nat
      <4>1. same \in SUBSET Nat
        BY <2>1
      <4>2. \E i \in same : \A j \in same : i <= j
        BY <2>3, <4>1, LeastNumber
      <4> HIDE DEF same
      <4> QED BY <4>1, <4>2
    <3>2. w = [v EXCEPT !.media[k] = m]
      BY <1>3, <2>1, <2>3 DEF Stored, Videos
    <3> HIDE DEF first
    <3>3. m \in Entries
      BY <2>1, <3>1 DEF Entries, Texts
    <3> HIDE DEF m
    <3> QED BY <1>2, <2>1, <3>2, <3>3
  <2> QED BY <2>2, <2>3
<1> QED BY <1>1, <1>3 DEF Stored

(* A video that is given an answer to something else.                      *)
LEMMA FiledInIsSound ==
  ASSUME NEW v, VideoOK(v), v.uuid # None, NEW w, w = FiledIn(v)
  PROVE  /\ VideoOK(w) /\ w.uuid = v.uuid /\ w.session = v.session /\ w.from \in {0, v.from}
         /\ w.from # 0 => w = v /\ w.from = handling.from
<1>1. CASE w = v /\ handling.from = v.from
  BY <1>1
<1>2. CASE w = [v EXCEPT !.from = 0]
  <2>1. /\ v \in Videos /\ w \in Videos /\ w.from = 0 /\ w.uuid = v.uuid
        /\ w.session = v.session /\ w.uris = v.uris /\ w.next = v.next /\ w.media = v.media
    BY <1>2 DEF VideoOK, Videos
  <2> QED BY <2>1 DEF VideoOK, Sound
<1> QED BY <1>1, <1>2 DEF FiledIn

(* Filing the answer that was asked for at the place reached.              *)
LEMMA StoredIsSound ==
  ASSUME NEW v, VideoOK(v), v.next > 0, v.from # 0, NEW w, w = Stored(v, v.uris[v.next])
  PROVE  /\ VideoOK(w) /\ Done(w, w.next) /\ w.next = v.next /\ w.uris = v.uris
         /\ w.uuid = v.uuid /\ w.from = v.from /\ w.session = v.session
<1> DEFINE k == v.next
           same == {i \in 1 .. k - 1 : v.uris[i] = v.uris[k]}
           With(m) == [v EXCEPT !.media[k] = m]
<1>1. /\ v \in Videos /\ Len(v.uris) \in Nat /\ k \in 1 .. Len(v.uris) /\ k \in Nat
      /\ Len(v.media) = Len(v.uris) /\ v.uris \in Tables \union {<<>>} /\ Sound(v)
      /\ \A n \in 1 .. Len(v.uris) : v.uris[n] \in Uris
      /\ \A n \in 1 .. Len(v.uris) : v.media[n] \in Entries
      /\ \A n \in 1 .. Len(v.uris) : v.uris[n] # None
  BY LenProperties, ElementOfSeq, NoneAssumption DEF VideoOK, Videos
<1>2. v.uuid # None
  BY <1>1 DEF VideoOK, Free
<1>3. CASE v.media[k].text # None
  <2>1. w = v
    BY <1>1, <1>3 DEF Stored
  <2>2. ~Fresh(v, k)
    BY <1>3 DEF Fresh
  <2> QED BY <1>1, <2>1, <2>2 DEF Sound
<1>4. ASSUME NEW m \in Entries, NEW x, x = With(m)
      PROVE  /\ x \in Videos /\ x.next = v.next /\ x.uris = v.uris /\ x.uuid = v.uuid
             /\ x.from = v.from /\ x.session = v.session /\ Len(x.media) = Len(v.media)
             /\ x.media[k] = m /\ \A n \in 1 .. Len(v.uris) : n # k => x.media[n] = v.media[n]
  BY <1>1, <1>4, EntryChanges
<1> HIDE DEF With
<1>5. CASE v.media[k].text = None /\ same = {}
  <2> DEFINE m == [v.media[k] EXCEPT !.text = v.uris[k]]
  <2>1. w = With(m)
    BY <1>1, <1>5 DEF Stored, With
  <2>2. m \in Entries /\ m.text = v.uris[k] /\ m.num = v.media[k].num
    BY <1>1 DEF Entries, Texts
  <2> HIDE DEF m
  <2>3. /\ w \in Videos /\ w.next = v.next /\ w.uris = v.uris /\ w.uuid = v.uuid
        /\ w.from = v.from /\ w.session = v.session /\ Len(w.media) = Len(v.media)
        /\ w.media[k] = m /\ \A n \in 1 .. Len(v.uris) : n # k => w.media[n] = v.media[n]
    BY <1>4, <2>1, <2>2
  <2>4. w.next = k
    BY <2>3
  <2>5. m.num = k /\ FirstOf(v, k)
    <3>1. ~Done(v, k)
      <4>1. \A i \in 1 .. k : v.uris[i] = v.uris[k] => i = k
        BY <1>1, <1>5
      <4> QED BY <1>1, <1>5, <4>1 DEF Done
    <3>2. \A i \in 1 .. k - 1 : v.uris[i] # v.uris[k]
      BY <1>5
    <3> QED BY <1>1, <2>2, <3>1, <3>2 DEF Sound, Fresh, FirstOf
  <2>6. Done(w, k)
    BY <1>1, <2>2, <2>3, <2>4, <2>5 DEF Done, FirstOf
  <2>7. ASSUME NEW n \in 1 .. Len(v.uris), n # k
        PROVE  /\ Done(v, n) => Done(w, n)
               /\ Fresh(v, n) => Fresh(w, n)
    <3>1. Fresh(v, n) => Fresh(w, n)
      BY <2>3, <2>4, <2>7 DEF Fresh
    <3>2. ASSUME Done(v, n)
          PROVE  Done(w, n)
      <4>1. PICK j \in 1 .. n : /\ v.media[n].num = j /\ v.uris[j] = v.uris[n] /\ FirstOf(v, j)
                                /\ v.media[j].text = v.uris[n]
        BY <3>2 DEF Done
      <4>2. j # k /\ j \in 1 .. Len(v.uris)
        BY <1>1, <1>5, <4>1
      <4>3. w.media[n].num = j /\ w.media[j].text = w.uris[n] /\ FirstOf(w, j)
        BY <2>3, <2>4, <2>7, <4>1, <4>2 DEF FirstOf
      <4> QED BY <2>3, <2>4, <4>1, <4>3 DEF Done
    <3> QED BY <3>1, <3>2
  <2>8. Sound(w)
    BY <1>1, <2>2, <2>3, <2>4, <2>6, <2>7 DEF Sound
  <2> QED BY <1>1, <1>2, <2>3, <2>4, <2>6, <2>8 DEF VideoOK
<1>6. CASE v.media[k].text = None /\ same # {}
  <2> DEFINE first == CHOOSE i \in same : \A j \in same : i <= j
             m == [v.media[k] EXCEPT !.num = first]
  <2>1. first \in same /\ \A j \in same : first <= j
    <3>1. same \in SUBSET Nat
      BY <1>1
    <3>2. \E i \in same : \A j \in same : i <= j
      BY <1>6, <3>1, LeastNumber
    <3> HIDE DEF same
    <3> QED BY <3>2
  <2>2. w = With(m)
    BY <1>1, <1>6 DEF Stored, With
  <2> HIDE DEF first
  <2>3. first \in 1 .. k - 1 /\ v.uris[first] = v.uris[k] /\ FirstOf(v, first)
    BY <1>1, <2>1 DEF FirstOf
  <2>4. m \in Entries /\ m.text = None /\ m.num = first
    BY SMTT(30), <1>1, <1>6, <2>3 DEF Entries, Texts
  <2> HIDE DEF m
  <2>5. /\ w \in Videos /\ w.next = v.next /\ w.uris = v.uris /\ w.uuid = v.uuid
        /\ w.from = v.from /\ w.session = v.session /\ Len(w.media) = Len(v.media)
        /\ w.media[k] = m /\ \A n \in 1 .. Len(v.uris) : n # k => w.media[n] = v.media[n]
    BY <1>4, <2>2, <2>4
  <2>6. w.next = k
    BY <2>5
  <2>7. v.media[first].text = v.uris[k]
    <3>1. Done(v, first)
      BY <1>1, <2>3 DEF Sound
    <3>2. PICK j \in 1 .. first : /\ v.uris[j] = v.uris[first]
                                  /\ v.media[j].text = v.uris[first]
      BY <3>1 DEF Done
    <3>3. j = first
      BY <1>1, <2>3, <3>2 DEF FirstOf
    <3> QED BY <2>3, <3>2, <3>3
  <2>8. Done(w, k)
    <3>1. w.media[first].text = w.uris[k] /\ first \in 1 .. k /\ FirstOf(w, first)
      BY <1>1, <2>3, <2>5, <2>6, <2>7 DEF FirstOf
    <3> QED BY <2>3, <2>4, <2>5, <2>6, <3>1 DEF Done
  <2>9. ASSUME NEW n \in 1 .. Len(v.uris), n # k
        PROVE  /\ Done(v, n) => Done(w, n)
               /\ Fresh(v, n) => Fresh(w, n)
    <3>1. Fresh(v, n) => Fresh(w, n)
      BY <2>5, <2>6, <2>9 DEF Fresh
    <3>2. ASSUME Done(v, n)
          PROVE  Done(w, n)
      <4>1. PICK j \in 1 .. n : /\ v.media[n].num = j /\ v.uris[j] = v.uris[n] /\ FirstOf(v, j)
                                /\ v.media[j].text = v.uris[n]
        BY <3>2 DEF Done
      <4>2. j # k /\ j \in 1 .. Len(v.uris)
        BY <1>1, <1>6, <4>1
      <4>3. w.media[n].num = j /\ w.media[j].text = w.uris[n] /\ FirstOf(w, j)
        BY <2>5, <2>6, <2>9, <4>1, <4>2 DEF FirstOf
      <4> QED BY <2>5, <2>6, <4>1, <4>3 DEF Done
    <3> QED BY <3>1, <3>2
  <2>10. Sound(w)
    BY <1>1, <2>4, <2>5, <2>6, <2>8, <2>9 DEF Sound
  <2> QED BY <1>1, <1>2, <2>5, <2>6, <2>8, <2>10 DEF VideoOK
<1> QED BY <1>3, <1>5, <1>6

(* With the last answer filed, every uri of the table leads to its text.   *)
LEMMA EndIsWhole ==
  ASSUME NEW v, VideoOK(v), v.from # 0, v.next > 0, ~HasMore(v), Done(v, v.next)
  PROVE  Downloaded(v) /\ \A n \in 1 .. Len(v.uris) : Served(v, v.uris[n]) = v.uris[n]
<1>1. /\ Len(v.uris) \in Nat /\ v.next \in Nat /\ v.next = Len(v.uris) /\ v.uris # <<>>
  BY LenProperties, EmptySeq DEF VideoOK, Videos, HasMore
<1>2. \A n \in 1 .. Len(v.uris) : Done(v, n)
  BY <1>1 DEF VideoOK, Sound
<1>3. \A n \in 1 .. Len(v.uris) : v.media[v.media[n].num].text = v.uris[n]
  BY <1>2 DEF Done
<1>4. ASSUME NEW n \in 1 .. Len(v.uris)
      PROVE  Served(v, v.uris[n]) = v.uris[n]
  <2> DEFINE Is(i) == v.uris[i] = v.uris[n] /\ \A j \in 1 .. i - 1 : v.uris[j] # v.uris[n]
             first == CHOOSE i \in 1 .. Len(v.uris) : Is(i)
  <2>1. PICK m \in 1 .. n : v.uris[m] = v.uris[n] /\ FirstOf(v, m)
    BY <1>2 DEF Done
  <2>2. m \in 1 .. Len(v.uris) /\ Is(m)
    BY <1>1, <2>1 DEF FirstOf
  <2>3. \E i \in 1 .. Len(v.uris) : Is(i)
    BY <2>2
  <2>4. first \in 1 .. Len(v.uris) /\ v.uris[first] = v.uris[n]
    BY <2>3
  <2>5. Served(v, v.uris[n]) = v.media[v.media[first].num].text
    BY DEF Served
  <2> HIDE DEF first
  <2> QED BY <1>3, <2>4, <2>5
<1> QED BY <1>1, <1>3, <1>4 DEF Downloaded

-----------------------------------------------------------------------------
(* The slots, the questions and the rest of the state.                     *)
Kinds == {"none", "refused", "remove", "answer"}

SlotTypes ==
  /\ slots \in [Slots -> Videos] /\ plays \in 0 .. MaxPlays
  /\ current \in Slots \union {NoVideo}
SlotsPart ==
  /\ SlotTypes
  /\ \A i \in Slots : VideoOK(slots[i]) /\ slots[i].from <= plays
  /\ \A i, j \in Slots : slots[i].from = slots[j].from /\ slots[i].from # 0 => i = j
  /\ \A i, j \in Slots : slots[i].uuid = slots[j].uuid /\ slots[i].uuid # None => i = j
  /\ current # NoVideo => slots[current].uuid # None
  /\ \E i \in Slots : slots[i].uuid = None

(* The answer to a download's question about a media playlist belongs at   *)
(* the place its video has reached, if that video is still there and was   *)
(* given the answers to this download alone.                               *)
Expected(from, of) == from # 0 /\ of # Master =>
  \A i \in Slots : slots[i].from = from =>
    slots[i].next > 0 /\ of = slots[i].uris[slots[i].next]
Question(from, of) ==
  from \in 0 .. plays /\ of \in Uris \union {Master} /\ Expected(from, of)

Questions == [session : Sessions, from : Nat, of : Uris \union {Master}]

AsksPart ==
  /\ asked \subseteq Questions
  /\ \A a \in asked : Question(a.from, a.of)
  /\ \A a, b \in asked : a.from = b.from /\ a.from # 0 => a = b
  /\ handling.kind \in Kinds /\ handling.at \in Slots \union {NoVideo}
  /\ handling.kind # "none" => handling.at \in Slots
  /\ handling.kind = "answer" => /\ Question(handling.from, handling.of)
                                 /\ \A a \in asked : a.from = handling.from => a.from = 0

RestPart ==
  /\ wanted \in Uuids \union {None} /\ loaded \in BOOLEAN
  /\ ptth \in BOOLEAN /\ eos \in BOOLEAN /\ alive \in BOOLEAN

HInv == SlotsPart /\ AsksPart /\ RestPart

LEMMA SlotNumbers == NoVideo \notin Slots /\ Slots \subseteq Nat /\ 0 \in Slots
BY MaxAssumption DEF NoVideo, Slots

LEMMA SlotFacts ==
  ASSUME HInv, NEW i \in Slots
  PROVE  /\ slots[i] \in Videos /\ VideoOK(slots[i])
         /\ slots[i].from \in 0 .. plays /\ plays \in Nat
         /\ slots[i] # Free <=> slots[i].uuid # None
<1>1. slots[i] \in Videos /\ VideoOK(slots[i]) /\ slots[i].from <= plays /\ plays \in Nat
  BY MaxAssumption DEF HInv, SlotsPart, SlotTypes
<1>2. slots[i].from \in Nat
  BY <1>1 DEF Videos
<1>3. slots[i] # Free <=> slots[i].uuid # None
  BY <1>1, FreeIsSound DEF VideoOK
<1> QED BY <1>1, <1>2, <1>3

LEMMA HInvInit == Init => HInv
<1> SUFFICES ASSUME Init
             PROVE  HInv
  OBVIOUS
<1>1. /\ slots = [i \in Slots |-> Free] /\ current = NoVideo /\ plays = 0 /\ asked = {}
      /\ handling = Idle
  BY DEF Init
<1>2. Free \in Videos /\ VideoOK(Free) /\ Free.from = 0 /\ Free.uuid = None
  BY FreeIsSound DEF VideoOK
<1>3. SlotsPart
  BY <1>1, <1>2, SlotNumbers, MaxAssumption DEF SlotsPart, SlotTypes
<1>4. AsksPart
  BY <1>1 DEF AsksPart, Idle, Kinds
<1>5. RestPart
  BY DEF Init, RestPart
<1> QED BY <1>3, <1>4, <1>5 DEF HInv

-----------------------------------------------------------------------------
(* Steps that leave the videos alone, or throw some away.                  *)
LEMMA SlotsStay ==
  ASSUME HInv, UNCHANGED slots, current' \in {current, NoVideo},
         plays' \in 0 .. MaxPlays, plays' >= plays
  PROVE  SlotsPart'
<1>1. \A i \in Slots : VideoOK(slots'[i]) /\ slots'[i].from <= plays'
  <2> SUFFICES ASSUME NEW i \in Slots
               PROVE  VideoOK(slots'[i]) /\ slots'[i].from <= plays'
    OBVIOUS
  <2> QED BY SlotFacts
<1> QED BY <1>1 DEF HInv, SlotsPart, SlotTypes, VideoOK, Sound

LEMMA PlaysStay ==
  ASSUME HInv, plays' = plays
  PROVE  plays' \in 0 .. MaxPlays /\ plays' \in Nat /\ plays' >= plays
BY MaxAssumption DEF HInv, SlotsPart, SlotTypes

LEMMA SlotsGo ==
  ASSUME HInv, NEW gone \in SUBSET Slots, slots' = Destroyed(gone), plays' = plays,
         current' = NoVideo
  PROVE  /\ SlotsPart'
         /\ \A i \in Slots : slots'[i] = slots[i] \/ slots'[i].from = 0
<1>1. /\ slots' = [i \in Slots |-> IF i \in gone THEN Free ELSE slots[i]]
      /\ Free \in Videos /\ VideoOK(Free) /\ Free.from = 0 /\ Free.uuid = None
  BY FreeIsSound DEF Destroyed, VideoOK
<1>2. \A i \in Slots : slots'[i] = Free \/ slots'[i] = slots[i]
  BY <1>1
<1>3. slots' \in [Slots -> Videos]
  BY <1>1, SlotFacts
<1>4. \E i \in Slots : slots'[i].uuid = None
  BY <1>1, <1>2 DEF HInv, SlotsPart
<1>5. SlotTypes'
  BY <1>3 DEF HInv, SlotsPart, SlotTypes
<1>6. \A i \in Slots : VideoOK(slots'[i]) /\ slots'[i].from <= plays'
  BY <1>1, <1>2, SlotFacts
<1>7. \A i, j \in Slots : slots'[i].from = slots'[j].from /\ slots'[i].from # 0 => i = j
  BY <1>1, <1>2 DEF HInv, SlotsPart
<1>8. \A i, j \in Slots : slots'[i].uuid = slots'[j].uuid /\ slots'[i].uuid # None => i = j
  BY <1>1, <1>2 DEF HInv, SlotsPart
<1>9. SlotsPart'
  BY <1>4, <1>5, <1>6, <1>7, <1>8 DEF SlotsPart, VideoOK, Sound
<1> QED BY <1>1, <1>2, <1>9

(* Questions stay good as long as the videos they are about stay put.      *)
Unturned(i) ==
  /\ slots'[i].from = slots[i].from /\ slots'[i].next = slots[i].next
  /\ slots'[i].uris = slots[i].uris

LEMMA QuestionsStay ==
  ASSUME HInv, plays' \in Nat, plays' >= plays, NEW from, NEW of,
         Question(from, of),
         \A i \in Slots : slots'[i] = slots[i] \/ Unturned(i) \/ slots'[i].from \notin 1 .. plays
  PROVE  Question(from, of)'
<1>1. from \in 0 .. plays /\ from \in 0 .. plays'
  BY MaxAssumption DEF HInv, SlotsPart, SlotTypes, Question
<1> QED BY <1>1 DEF Question, Expected, Unturned

LEMMA AsksStay ==
  ASSUME HInv, plays' \in Nat, plays' >= plays, asked' \subseteq asked,
         \A i \in Slots : slots'[i] = slots[i] \/ Unturned(i) \/ slots'[i].from \notin 1 .. plays,
         handling' = handling \/ handling' = Idle
  PROVE  AsksPart'
<1>1. \A a \in asked' : Question(a.from, a.of)'
  BY QuestionsStay DEF HInv, AsksPart
<1>2. CASE handling' = handling
  <2>1. ASSUME handling.kind = "answer"
        PROVE  Question(handling.from, handling.of)'
    <3>1. PICK s, o : s = handling.from /\ o = handling.of
      OBVIOUS
    <3>2. Question(s, o)
      BY <2>1, <3>1 DEF HInv, AsksPart
    <3>3. Question(s, o)'
      BY <3>2, QuestionsStay
    <3>4. s = handling'.from /\ o = handling'.of
      BY <1>2, <3>1
    <3> QED BY <3>3, <3>4 DEF Question, Expected
  <2> QED BY <1>1, <1>2, <2>1 DEF HInv, AsksPart
<1>3. CASE handling' = Idle
  BY <1>1, <1>3 DEF HInv, AsksPart, Idle, Kinds
<1> QED BY <1>2, <1>3

-----------------------------------------------------------------------------
(* The steps but for playing and answering.                                *)
LEMMA CrashKeeps ==
  ASSUME HInv, Crash
  PROVE  HInv'
<1>1. SlotsPart'
  BY PlaysStay, SlotsStay DEF Crash, client
<1>2. plays' \in Nat /\ plays' >= plays
  BY PlaysStay DEF Crash, client
<1>3. AsksPart'
  BY <1>2, AsksStay DEF Crash, client
<1> QED BY <1>1, <1>3 DEF HInv, RestPart, Crash, client, player

LEMMA BeginKeeps ==
  ASSUME HInv, NEW kind \in {"refused", "remove", "answer"}, NEW session, NEW from, NEW of,
         kind = "answer" => [session |-> session, from |-> from, of |-> of] \in asked,
         Begin(kind, session, from, of)
  PROVE  HInv'
<1>1. CASE current = NoVideo
  BY <1>1, CrashKeeps DEF Begin
<1>2. CASE current # NoVideo
  <2>1. /\ handling' = [kind |-> kind, at |-> current, session |-> session, from |-> from,
                       of |-> of]
        /\ UNCHANGED <<slots, current, plays, ptth, player, alive>>
        /\ asked' = asked \ {[session |-> session, from |-> from, of |-> of]}
    BY <1>2 DEF Begin
  <2>2. SlotsPart'
    BY <2>1, PlaysStay, SlotsStay
  <2>3. RestPart'
    BY <2>1 DEF HInv, RestPart, player
  <2>4. current \in Slots
    BY <1>2 DEF HInv, SlotsPart, SlotTypes
  <2>5. \A s, o : Question(s, o) => Question(s, o)'
    BY <2>1 DEF Question, Expected
  <2>6. \A a \in asked' : Question(a.from, a.of)'
    BY <2>1, <2>5 DEF HInv, AsksPart
  <2>7. handling'.kind = kind /\ handling'.at = current /\ handling'.from = from
        /\ handling'.of = of
    BY <2>1
  <2>8. ASSUME kind = "answer"
        PROVE  /\ Question(from, of)'
               /\ \A a \in asked' : a.from = from => a.from = 0
    <3> DEFINE q == [session |-> session, from |-> from, of |-> of]
    <3>1. q \in asked /\ q.from = from /\ q.of = of
      BY <2>8
    <3>2. Question(from, of)
      BY <3>1 DEF HInv, AsksPart
    <3>3. ASSUME NEW a \in asked', a.from = from, a.from # 0
          PROVE  FALSE
      <4>1. a \in asked /\ a # q
        BY <2>1
      <4> HIDE DEF q
      <4> QED BY <3>1, <3>3, <4>1 DEF HInv, AsksPart
    <3> QED BY <2>5, <3>2, <3>3
  <2>9. AsksPart'
    BY <2>1, <2>4, <2>6, <2>7, <2>8 DEF HInv, AsksPart, Kinds, Question, Expected
  <2> QED BY <2>2, <2>3, <2>9 DEF HInv
<1> QED BY <1>1, <1>2

LEMMA BeginsKeep ==
  ASSUME HInv, BeginRefused \/ BeginRemove \/ BeginAnswer
  PROVE  HInv'
<1>1. CASE BeginRefused \/ BeginRemove
  BY <1>1, BeginKeeps DEF BeginRefused, BeginRemove
<1>2. ASSUME NEW a \in asked, Begin("answer", a.session, a.from, a.of)
      PROVE  HInv'
  <2>1. a = [session |-> a.session, from |-> a.from, of |-> a.of]
    BY DEF HInv, AsksPart, Questions
  <2> QED BY <1>2, <2>1, BeginKeeps
<1> QED BY <1>1, <1>2 DEF BeginAnswer

(* A request that does nothing, or puts the current video aside.           *)
LEMMA FinishKeeps ==
  ASSUME HInv, FinishRefused \/ FinishRemove
  PROVE  HInv'
<1>1. CASE Crash
  BY <1>1, CrashKeeps
<1>2. CASE ~Crash
  <2>1. /\ UNCHANGED <<slots, plays, asked, ptth, loaded, eos, wanted, alive>>
        /\ handling' = Idle /\ current' \in {current, NoVideo}
    BY <1>2 DEF FinishRefused, FinishRemove, Finish
  <2>2. SlotsPart'
    BY <2>1, PlaysStay, SlotsStay
  <2>3. plays' \in Nat /\ plays' >= plays
    BY <2>1, PlaysStay
  <2>4. AsksPart'
    BY <2>1, <2>3, AsksStay
  <2> QED BY <2>1, <2>2, <2>4 DEF HInv, RestPart
<1> QED BY <1>1, <1>2

(* Connections, properties and the player.                                 *)
LEMMA OthersKeep ==
  ASSUME HInv,
         \/ Reverse \/ ConnectionsLost \/ Load \/ EndOfStream \/ UNCHANGED vars
         \/ \E on \in BOOLEAN : SetProperty(on)
  PROVE  HInv'
<1>1. UNCHANGED <<slots, current, plays, handling>> /\ asked' \subseteq asked
  BY DEF Reverse, ConnectionsLost, Load, EndOfStream, SetProperty, vars, client
<1>2. RestPart'
  BY DEF Reverse, ConnectionsLost, Load, EndOfStream, SetProperty, vars, client, player, HInv,
         RestPart
<1>3. plays' \in Nat /\ plays' >= plays
  BY <1>1, PlaysStay
<1>4. AsksPart'
  BY <1>1, <1>3, AsksStay
<1> QED BY <1>1, <1>2, <1>4, PlaysStay, SlotsStay DEF HInv

LEMMA DestroysKeep ==
  ASSUME HInv, EosWatch \/ \E reset \in BOOLEAN : DestroyAll(reset)
  PROVE  HInv'
<1>1. UNCHANGED <<plays, asked, handling, ptth>> /\ RestPart'
  BY DEF EosWatch, DestroyAll, client, HInv, RestPart
<1>2. plays' \in Nat /\ plays' >= plays
  BY <1>1, PlaysStay
<1>3. CASE UNCHANGED <<slots, current>>
  BY <1>1, <1>2, <1>3, PlaysStay, SlotsStay, AsksStay DEF HInv
<1>4. ASSUME NEW gone \in SUBSET Slots, slots' = Destroyed(gone), current' = NoVideo
      PROVE  HInv'
  <2>1. /\ SlotsPart'
        /\ \A i \in Slots : slots'[i] = slots[i] \/ slots'[i].from = 0
    BY <1>1, <1>4, SlotsGo
  <2>2. AsksPart'
    BY <1>1, <1>2, <2>1, AsksStay
  <2> QED BY <1>1, <2>1, <2>2 DEF HInv
<1>5. CASE EosWatch
  <2>1. current = NoVideo \/ {current} \in SUBSET Slots
    BY DEF HInv, SlotsPart, SlotTypes
  <2> QED BY <1>3, <1>4, <1>5, <2>1 DEF EosWatch
<1>6. CASE \E reset \in BOOLEAN : DestroyAll(reset)
  <2>1. slots' = Destroyed(Slots) /\ current' = NoVideo
    BY <1>6 DEF DestroyAll, CurrentWithout, HInv, SlotsPart, SlotTypes
  <2> QED BY <1>4, <2>1
<1> QED BY <1>5, <1>6

-----------------------------------------------------------------------------
(* A video is asked for again, or an answer changes it where it is.        *)
LEMMA SlotChanges ==
  ASSUME HInv, NEW i \in Slots, slots[i].uuid # None,
         NEW w, VideoOK(w), w.uuid = slots[i].uuid,
         slots' = [slots EXCEPT ![i] = w],
         plays' \in 0 .. MaxPlays, plays' >= plays,
         w.from \in {0, slots[i].from},
         current' \in {current, i}
  PROVE  SlotsPart'
<1>1. /\ slots \in [Slots -> Videos] /\ w \in Videos /\ plays \in Nat /\ plays' \in Nat
      /\ slots' \in [Slots -> Videos] /\ slots'[i] = w
      /\ \A j \in Slots : j # i => slots'[j] = slots[j]
  BY MaxAssumption DEF HInv, SlotsPart, SlotTypes, VideoOK
<1>2. SlotTypes'
  BY <1>1 DEF HInv, SlotsPart, SlotTypes
<1>3. \A j \in Slots : VideoOK(slots'[j]) /\ slots'[j].from <= plays'
  <2> SUFFICES ASSUME NEW j \in Slots
               PROVE  VideoOK(slots'[j]) /\ slots'[j].from <= plays'
    OBVIOUS
  <2>1. VideoOK(slots[j]) /\ slots[j].from \in 0 .. plays
    BY SlotFacts
  <2>2. slots[i].from \in 0 .. plays
    BY SlotFacts
  <2> QED BY <1>1, <2>1, <2>2
<1>4. \A j, k \in Slots : slots'[j].from = slots'[k].from /\ slots'[j].from # 0 => j = k
  <2>1. \A j \in Slots : slots[j].from \in 0 .. plays
    BY SlotFacts
  <2>2. \A j \in Slots : j # i /\ slots[j].from = w.from => w.from = 0
    BY <1>1, <2>1 DEF HInv, SlotsPart
  <2> QED BY <1>1, <2>1, <2>2 DEF HInv, SlotsPart
<1>5. \A j, k \in Slots : slots'[j].uuid = slots'[k].uuid /\ slots'[j].uuid # None => j = k
  BY <1>1 DEF HInv, SlotsPart
<1>6. current' # NoVideo => slots'[current'].uuid # None
  BY <1>1 DEF HInv, SlotsPart, SlotTypes
<1>7. \E j \in Slots : slots'[j].uuid = None
  BY <1>1 DEF HInv, SlotsPart
<1>8. (\A j \in Slots : VideoOK(slots[j]) /\ slots[j].from <= plays)'
  BY <1>3 DEF VideoOK, Sound
<1> QED BY <1>2, <1>4, <1>5, <1>6, <1>7, <1>8 DEF SlotsPart

LEMMA NewSessionIsSound ==
  ASSUME NEW v, VideoOK(v), v.uuid # None, NEW session \in Sessions, NEW w,
         w = [v EXCEPT !.session = session]
  PROVE  /\ VideoOK(w) /\ w.uuid = v.uuid /\ w.from = v.from /\ w.next = v.next
         /\ w.uris = v.uris
<1>1. v \in Videos /\ w \in Videos
  BY DEF VideoOK, Videos
<1>2. /\ w.uuid = v.uuid /\ w.session = session /\ w.from = v.from /\ w.uris = v.uris
      /\ w.next = v.next /\ w.media = v.media
  BY <1>1 DEF Videos
<1>3. Sound(w)
  BY <1>2 DEF VideoOK, Sound, Done, Fresh, FirstOf
<1> QED BY <1>1, <1>2, <1>3 DEF VideoOK

LEMMA PlayStoredKeeps ==
  ASSUME HInv, NEW i \in Slots, NEW session \in Sessions, PlayStored(i, session)
  PROVE  HInv'
<1>w. PICK w : w = [slots[i] EXCEPT !.session = session]
  OBVIOUS
<1>1. /\ slots[i].uuid # None /\ current' = i
      /\ UNCHANGED <<plays, ptth, asked, handling, loaded, eos>>
      /\ slots' = [slots EXCEPT ![i].session = session]
  BY DEF PlayStored, client
<1>2. plays' \in 0 .. MaxPlays /\ plays' \in Nat /\ plays' >= plays
  BY <1>1, PlaysStay
<1>3. slots \in [Slots -> Videos] /\ slots' = [slots EXCEPT ![i] = w]
  BY <1>1, <1>w DEF HInv, SlotsPart, SlotTypes
<1>4. /\ VideoOK(w) /\ w.uuid = slots[i].uuid /\ w.from = slots[i].from
      /\ w.next = slots[i].next /\ w.uris = slots[i].uris
  <2>1. PICK v : v = slots[i]
    OBVIOUS
  <2>2. VideoOK(v) /\ v.uuid # None
    BY <1>1, <2>1, SlotFacts
  <2> QED BY <1>w, <2>1, <2>2, NewSessionIsSound
<1>5. SlotsPart'
  BY <1>1, <1>2, <1>3, <1>4, SlotChanges
<1>6. \A j \in Slots : Unturned(j)
  BY <1>3, <1>4 DEF Unturned
<1>7. AsksPart'
  BY <1>1, <1>2, <1>6, AsksStay
<1>8. RestPart'
  <2>1. slots[i].uuid \in Uuids
    BY <1>1, <1>3 DEF Videos
  <2> QED BY <1>1, <2>1 DEF HInv, RestPart, PlayStored, OnVideoPlay
<1> QED BY <1>5, <1>7, <1>8 DEF HInv

-----------------------------------------------------------------------------
(* A new video finds a slot, and leaves one free.                          *)
LEMMA NeighbourIsOther ==
  ASSUME NEW id \in Slots
  PROVE  Evicted(id) \in Slots /\ Evicted(id) # id
<1>1. Max \in Nat \ {0} /\ id \in Nat /\ id + 1 \in Int /\ id + 1 <= Max /\ Max >= 2
  BY MaxAssumption DEF Slots
<1>2. CASE id + 1 < Max
  <2>1. id + 1 \in 0 .. Max - 1
    BY <1>1, <1>2
  <2>2. Evicted(id) = id + 1
    BY <1>1, <2>1, ModSmall DEF Evicted
  <2> QED BY <1>1, <2>1, <2>2 DEF Slots
<1>3. CASE id + 1 = Max
  <2>1. id + 1 = Max * 1 + 0 /\ 0 \in 0 .. Max - 1
    BY <1>1, <1>3
  <2>2. Evicted(id) = 0
    BY <1>1, <2>1, ModUnique DEF Evicted
  <2> QED BY <1>1, <1>3, <2>2 DEF Slots
<1> QED BY <1>1, <1>2, <1>3

LEMMA SlotCount == IsFiniteSet(Slots) /\ Cardinality(Slots) = Max
BY FS_Interval, MaxAssumption DEF Slots

LEMMA PlacedLeavesRoom ==
  ASSUME HInv, ~ \A i \in Slots : IsLong(slots[i]), NEW v, VideoOK(v), NEW p, p = Placed(v)
  PROVE  /\ p.at \in Slots /\ p.slots \in [Slots -> Videos] /\ p.slots[p.at] = v
         /\ \A i \in Slots : i # p.at => p.slots[i] = slots[i] \/ p.slots[i] = Free
         /\ \E i \in Slots : i # p.at /\ p.slots[i] = Free
<1> DEFINE kept == {i \in Slots : IsLong(slots[i])}
           id == CHOOSE i \in Slots \ kept : \A j \in Slots \ kept : i <= j
           evicted == IF IsFull(Cardinality(kept) + 1) THEN {Evicted(id)} ELSE {}
<1>1. /\ p.at = id
      /\ p.slots = [i \in Slots |-> IF i \in evicted THEN Free
                                    ELSE IF i = id THEN v
                                    ELSE IF i \in kept THEN slots[i] ELSE Free]
  BY DEF Placed
<1>2. kept \subseteq Slots /\ Slots \ kept # {}
  OBVIOUS
<1> HIDE DEF kept
<1>3. id \in Slots \ kept
  <2>1. Slots \ kept \in SUBSET Nat
    BY SlotNumbers
  <2>2. \E i \in Slots \ kept : \A j \in Slots \ kept : i <= j
    BY <1>2, <2>1, LeastNumber
  <2> QED BY <2>2
<1> HIDE DEF id
<1>4. Evicted(id) \in Slots /\ Evicted(id) # id
  BY <1>3, NeighbourIsOther
<1>5. Free \in Videos /\ v \in Videos /\ slots \in [Slots -> Videos]
  BY FreeIsSound DEF VideoOK, HInv, SlotsPart, SlotTypes
<1>6. id \notin evicted
  BY <1>4
<1>7. \E i \in Slots : i # id /\ p.slots[i] = Free
  <2>1. CASE IsFull(Cardinality(kept) + 1)
    BY <1>1, <1>4, <2>1
  <2>2. CASE ~IsFull(Cardinality(kept) + 1)
    <3>1. IsFiniteSet(kept) /\ Cardinality(kept \union {id}) = Cardinality(kept) + 1
      BY <1>2, <1>3, SlotCount, FS_Subset, FS_AddElement
    <3>2. kept \union {id} # Slots
      BY <2>2, <3>1, SlotCount DEF IsFull
    <3>3. PICK i \in Slots : i \notin kept /\ i # id
      BY <1>2, <1>3, <3>2
    <3> QED BY <1>1, <3>3
  <2> QED BY <2>1, <2>2
<1> HIDE DEF evicted
<1>8. p.slots \in [Slots -> Videos] /\ p.slots[id] = v
  BY <1>1, <1>3, <1>5, <1>6
<1>9. \A i \in Slots : i # id => p.slots[i] = slots[i] \/ p.slots[i] = Free
  BY <1>1
<1> QED BY <1>1, <1>3, <1>7, <1>8, <1>9

LEMMA PlayNewKeeps ==
  ASSUME HInv, NEW u \in Uuids, NEW session \in Sessions, NEW complete \in BOOLEAN,
         PlayNew(u, session, complete)
  PROVE  HInv'
<1>1. /\ plays < MaxPlays /\ plays' = plays + 1 /\ UNCHANGED <<ptth, handling, player>>
      /\ handling = Idle /\ \A i \in Slots : slots[i].uuid # u
  BY DEF PlayNew
<1>2. plays' \in 0 .. MaxPlays /\ plays' \in Nat /\ plays' > plays /\ plays \in Nat
  BY <1>1, MaxAssumption DEF HInv, SlotsPart, SlotTypes
<1>3. CASE \A i \in Slots : IsLong(slots[i])
  <2>1. UNCHANGED <<slots, current, asked>> /\ alive' = FALSE
    BY <1>3 DEF PlayNew
  <2>2. SlotsPart' /\ AsksPart'
    BY <1>1, <1>2, <2>1, SlotsStay, AsksStay
  <2>3. RestPart'
    BY <1>1, <2>1 DEF HInv, RestPart, player
  <2> QED BY <2>2, <2>3 DEF HInv
<1>4. CASE ~ \A i \in Slots : IsLong(slots[i])
  <2>s. PICK s : s = plays'
    OBVIOUS
  <2>v. PICK v : v = NewVideo(u, session, s, complete)
    OBVIOUS
  <2>p. PICK p : p = Placed(v)
    OBVIOUS
  <2>1. /\ slots' = p.slots /\ current' = p.at /\ UNCHANGED alive
        /\ \/ FcupRequest(v, Master)
           \/ UNCHANGED asked
    BY <1>4, <2>s, <2>p, <2>v DEF PlayNew, NewVideo
  <2>2. VideoOK(v) /\ v.uuid = u /\ v.from = plays' /\ v.session = session
    <3>1. s \in Nat
      BY <1>2, <2>s
    <3>2. VideoOK(v) /\ v.uuid = u /\ v.from = s /\ v.session = session
      BY <2>v, <3>1, NewIsSound
    <3> QED BY <2>s, <3>2
  <2>3. /\ p.at \in Slots /\ p.slots \in [Slots -> Videos] /\ p.slots[p.at] = v
        /\ \A i \in Slots : i # p.at => p.slots[i] = slots[i] \/ p.slots[i] = Free
        /\ \E i \in Slots : i # p.at /\ p.slots[i] = Free
    BY <1>4, <2>2, <2>p, PlacedLeavesRoom
  <2>4. Free.uuid = None /\ Free.from = 0 /\ VideoOK(Free) /\ u # None
    BY FreeIsSound, NoneAssumption
  <2>5. \A i \in Slots : /\ VideoOK(slots[i]) /\ slots[i].from \in 0 .. plays
                         /\ slots[i].uuid # u
    BY <1>1, SlotFacts
  <2>6. SlotsPart'
    <3>1. SlotTypes'
      BY <1>2, <2>1, <2>3 DEF SlotTypes
    <3>2. \A i \in Slots : VideoOK(slots'[i]) /\ slots'[i].from <= plays'
      BY <1>2, <2>1, <2>2, <2>3, <2>4, <2>5
    <3>3. (\A i \in Slots : VideoOK(slots[i]) /\ slots[i].from <= plays)'
      BY <3>2 DEF VideoOK, Sound
    <3>4. \A i, j \in Slots : slots'[i].from = slots'[j].from /\ slots'[i].from # 0
                              => i = j
      BY <1>1, <1>2, <2>1, <2>2, <2>3, <2>4, <2>5 DEF HInv, SlotsPart
    <3>5. \A i, j \in Slots : slots'[i].uuid = slots'[j].uuid /\ slots'[i].uuid # None => i = j
      BY <2>1, <2>2, <2>3, <2>4, <2>5 DEF HInv, SlotsPart
    <3>6. slots'[current'].uuid # None /\ \E i \in Slots : slots'[i].uuid = None
      BY <2>1, <2>2, <2>3, <2>4
    <3> QED BY <3>1, <3>3, <3>4, <3>5, <3>6 DEF SlotsPart
  <2>7. \A i \in Slots : Unturned(i) \/ slots'[i].from \notin 1 .. plays
    BY <1>2, <2>1, <2>2, <2>3, <2>4 DEF Unturned
  <2>8. CASE UNCHANGED asked
    <3>1. AsksPart'
      BY <1>1, <1>2, <2>7, <2>8, AsksStay
    <3> QED BY <1>1, <2>1, <2>6, <3>1 DEF HInv, RestPart, player
  <2>9. CASE asked' = asked \union {[session |-> session, from |-> plays', of |-> Master]}
    <3> DEFINE q == [session |-> session, from |-> s, of |-> Master]
    <3>1. \A a \in asked : Question(a.from, a.of)'
      BY <1>2, <2>7, QuestionsStay DEF HInv, AsksPart
    <3>2. q.from = plays' /\ q.of = Master /\ q \in Questions
      BY <1>2, <2>s DEF Questions
    <3> HIDE DEF q
    <3>3. Question(q.from, q.of)'
      BY <1>2, <3>2 DEF Question, Expected
    <3>4. \A a \in asked : a.from # q.from
      BY <1>2, <3>2 DEF HInv, AsksPart, Question
    <3>5. asked' = asked \union {q}
      BY <2>s, <2>9 DEF q
    <3>6. AsksPart'
      <4>1. asked' \subseteq Questions
        BY <3>2, <3>5 DEF HInv, AsksPart
      <4>2. \A a \in asked' : Question(a.from, a.of)'
        BY <3>1, <3>3, <3>5
      <4>3. \A a, b \in asked' : a.from = b.from /\ a.from # 0 => a = b
        BY <3>4, <3>5 DEF HInv, AsksPart
      <4> QED BY <1>1, <4>1, <4>2, <4>3 DEF HInv, AsksPart, Idle, Kinds
    <3> QED BY <1>1, <2>1, <2>6, <3>6 DEF HInv, RestPart, player
  <2> QED BY <2>1, <2>2, <2>8, <2>9 DEF FcupRequest
<1> QED BY <1>3, <1>4

-----------------------------------------------------------------------------
(* An answer is filed, and the next playlist is asked for or the video is  *)
(* played.                                                                 *)
LEMMA ContinueKeeps ==
  ASSUME HInv, NEW i \in Slots, i = handling.at, handling.kind = "answer",
         slots[i].uuid # None,
         NEW w, VideoOK(w), w.uuid = slots[i].uuid, w.from \in {0, slots[i].from},
         w.from # 0 => w.from = handling.from,
         w.next > 0 /\ w.from # 0 => Done(w, w.next),
         Continue(w), handling' = Idle, UNCHANGED <<plays, ptth, current, loaded, eos>>
  PROVE  HInv'
<1>1. /\ plays' \in 0 .. MaxPlays /\ plays' >= plays /\ plays' \in Nat
      /\ slots \in [Slots -> Videos] /\ w \in Videos /\ w.uuid \in Uuids
  BY PlaysStay DEF HInv, SlotsPart, SlotTypes, VideoOK, Videos
<1>2. CASE HasMore(w)
  <2>1. PICK x : x = [w EXCEPT !.next = @ + 1]
    OBVIOUS
  <2>2. PICK q : q = [session |-> w.session, from |-> w.from, of |-> w.uris[w.next + 1]]
    OBVIOUS
  <2>3. /\ slots' = [slots EXCEPT ![i] = x] /\ UNCHANGED <<wanted, alive>>
        /\ asked' \in {asked, asked \union {q}}
    BY <1>2, <2>1, <2>2 DEF Continue, FcupRequest
  <2>4. /\ VideoOK(x) /\ x.next = w.next + 1 /\ x.uris = w.uris
        /\ x.uuid = w.uuid /\ x.from = w.from
    BY <1>2, <2>1, AdvanceIsSound
  <2>5. SlotsPart'
    BY <1>1, <2>3, <2>4, SlotChanges
  <2>6. /\ q.from = w.from /\ q.of = x.uris[x.next]
        /\ w.next + 1 \in 1 .. Len(w.uris) /\ q.from \in 0 .. plays
        /\ q \in Questions
    <3>1. w.next \in Nat /\ Len(w.uris) \in Nat /\ w.uris \in Seq(Uris)
      BY <1>1, LenProperties DEF Videos
    <3>2. w.next + 1 \in 1 .. Len(w.uris)
      BY <1>2, <3>1 DEF HasMore
    <3>3. w.uris[w.next + 1] \in Uris
      BY <3>1, <3>2, ElementOfSeq
    <3>4. w.from \in 0 .. plays /\ plays \in Nat
      BY SlotFacts
    <3>5. w.session \in Sessions
      BY NoneAssumption DEF VideoOK, HInv, SlotsPart
    <3> QED BY <2>2, <2>4, <3>2, <3>3, <3>4, <3>5 DEF Questions
  <2>7. /\ slots'[i] = x /\ \A j \in Slots : j # i => slots'[j] = slots[j]
    BY <1>1, <2>3
  <2>8. w.from # 0 => \A j \in Slots : j # i => slots[j].from # w.from
    BY DEF HInv, SlotsPart
  <2>9. Question(q.from, q.of)'
    <3>1. q.from # 0 => \A j \in Slots : slots'[j].from = q.from => j = i
      BY <2>6, <2>7, <2>8
    <3>2. x.next > 0
      BY <1>1, <2>4 DEF Videos
    <3>3. q.from \in 0 .. plays' /\ q.of \in Uris \union {Master}
      BY <2>6 DEF Questions
    <3> QED BY <2>6, <2>7, <3>1, <3>2, <3>3 DEF Question, Expected
  <2>10. ASSUME NEW a \in asked
         PROVE  Question(a.from, a.of)' /\ (a.from = q.from => a.from = 0)
    <3>1. Question(a.from, a.of) /\ (a.from = handling.from => a.from = 0)
      BY DEF HInv, AsksPart
    <3>2. a.from # 0 => \A j \in Slots : slots'[j].from = a.from => slots'[j] = slots[j]
      BY <2>4, <2>7, <3>1
    <3> QED BY <2>6, <3>1, <3>2 DEF Question, Expected
  <2>11. AsksPart'
    <3>1. asked' \subseteq asked \union {q}
      BY <2>3
    <3>2. asked' \subseteq Questions
      BY <2>6, <3>1 DEF HInv, AsksPart
    <3>3. \A a \in asked' : Question(a.from, a.of)'
      BY <2>9, <2>10, <3>1
    <3>4. \A a, b \in asked' : a.from = b.from /\ a.from # 0 => a = b
      BY <2>10, <3>1 DEF HInv, AsksPart
    <3> QED BY <3>2, <3>3, <3>4 DEF HInv, AsksPart, Idle, Kinds
  <2> QED BY <2>3, <2>5, <2>11 DEF HInv, RestPart
<1>3. CASE ~HasMore(w)
  <2>1. slots' = [slots EXCEPT ![i] = w] /\ OnVideoPlay(w) /\ UNCHANGED asked
    BY <1>3 DEF Continue
  <2>2. SlotsPart'
    BY <1>1, <2>1, SlotChanges
  <2>3. \A a \in asked : Question(a.from, a.of) /\ (a.from = handling.from => a.from = 0)
    BY DEF HInv, AsksPart
  <2>4. \A j \in Slots : j # i => slots'[j] = slots[j]
    BY <1>1, <2>1
  <2>5. slots'[i].from # 0 => slots'[i].from = handling.from
    BY <1>1, <2>1
  <2>6. \A a \in asked' : Question(a.from, a.of)'
    BY <2>1, <2>3, <2>4, <2>5 DEF Question, Expected
  <2>7. AsksPart'
    BY <2>1, <2>6 DEF HInv, AsksPart, Idle, Kinds
  <2> QED BY <1>1, <2>1, <2>2, <2>7 DEF HInv, RestPart, OnVideoPlay
<1> QED BY <1>2, <1>3

(* What an answer goes on with.                                            *)
Filing(w) ==
  /\ handling.kind = "answer" /\ handling.at \in Slots
  /\ slots[handling.at].uuid # None
  /\ VideoOK(w) /\ w.uuid = slots[handling.at].uuid /\ w.from \in {0, slots[handling.at].from}
  /\ w.from # 0 => /\ w.from = handling.from
                   /\ w.next > 0 => Done(w, w.next)
                   /\ w.next = 0 => HasMore(w)
  /\ Continue(w) /\ handling' = Idle /\ UNCHANGED <<plays, ptth, current, loaded, eos>>

LEMMA AnswerSteps ==
  ASSUME HInv, FinishMaster \/ FinishMedia
  PROVE  \/ Crash
         \/ /\ UNCHANGED <<slots, current, asked, wanted, alive, plays, ptth, loaded, eos>>
            /\ handling' = Idle
         \/ \E w : Filing(w)
<1> DEFINE at == handling.at
<1>1. /\ handling.kind = "answer" /\ at \in Slots
      /\ Question(handling.from, handling.of)
  BY DEF FinishMaster, FinishMedia, Finish, HInv, AsksPart
<1>2. CASE slots[at] = Free
  BY <1>2 DEF FinishMaster, FinishMedia, Finish
<1>3. CASE slots[at] # Free /\ slots[at].session # handling.session
  BY <1>3 DEF FinishMaster, FinishMedia, Finish, IsOfSession
<1>4. CASE slots[at] # Free /\ slots[at].session = handling.session
  <2>1. /\ UNCHANGED <<plays, ptth, current, loaded, eos>> /\ handling' = Idle
        /\ \/ \E uris \in Tables : Continue(Tabled(FiledIn(slots[at]), uris))
           \/ handling.of # Master /\ Continue(Stored(FiledIn(slots[at]), handling.of))
    BY <1>4 DEF FinishMaster, FinishMedia, Finish, IsOfSession
  <2>2. PICK v : v = FiledIn(slots[at])
    OBVIOUS
  <2>3. /\ VideoOK(v) /\ v.uuid = slots[at].uuid /\ v.from \in {0, slots[at].from}
        /\ v.from # 0 => v = slots[at] /\ v.from = handling.from
        /\ v.uuid # None
    <3>1. PICK o : o = slots[at]
      OBVIOUS
    <3>2. VideoOK(o) /\ o.uuid # None
      BY <1>1, <1>4, <3>1, SlotFacts
    <3> QED BY <2>2, <3>1, <3>2, FiledInIsSound
  <2>4. ASSUME NEW uris \in Tables, Continue(Tabled(FiledIn(slots[at]), uris))
        PROVE  \E w : Filing(w)
    <3>1. PICK w : w = Tabled(v, uris)
      OBVIOUS
    <3>2. /\ VideoOK(w) /\ w.next = 0 /\ w.uris = uris /\ Len(uris) > 0
          /\ w.uuid = v.uuid /\ w.from = v.from
      BY <2>3, <3>1, TabledIsSound
    <3>3. Continue(w) /\ HasMore(w)
      BY <2>2, <2>4, <3>1, <3>2 DEF HasMore
    <3>4. Filing(w)
      BY <1>1, <2>1, <2>3, <3>2, <3>3 DEF Filing
    <3> QED BY <3>4
  <2>5. ASSUME handling.of # Master, Continue(Stored(FiledIn(slots[at]), handling.of)),
               v.from = 0
        PROVE  \E w : Filing(w)
    <3>1. PICK w : w = Stored(v, handling.of)
      OBVIOUS
    <3>2. handling.of \in Uris
      BY <1>1, <2>5 DEF Question
    <3>3. VideoOK(w) /\ w.from = 0 /\ w.uuid = v.uuid
      BY <2>3, <2>5, <3>1, <3>2, StoredIsTyped
    <3>4. Continue(w)
      BY <2>2, <2>5, <3>1
    <3>5. Filing(w)
      BY <1>1, <2>1, <2>3, <3>3, <3>4 DEF Filing
    <3> QED BY <3>5
  <2>6. ASSUME handling.of # Master, Continue(Stored(FiledIn(slots[at]), handling.of)),
               v.from # 0
        PROVE  \E w : Filing(w)
    <3>1. v.next > 0 /\ handling.of = v.uris[v.next]
      BY <1>1, <2>3, <2>6 DEF Question, Expected
    <3>2. PICK w : w = Stored(v, v.uris[v.next])
      OBVIOUS
    <3>3. /\ VideoOK(w) /\ Done(w, w.next) /\ w.next = v.next /\ w.uris = v.uris
          /\ w.uuid = v.uuid /\ w.from = v.from
      BY <2>3, <2>6, <3>1, <3>2, StoredIsSound
    <3>4. Continue(w)
      BY <2>2, <2>6, <3>1, <3>2
    <3>5. w.next # 0
      BY <3>1, <3>3
    <3>6. Filing(w)
      BY <1>1, <2>1, <2>3, <3>3, <3>4, <3>5 DEF Filing
    <3> QED BY <3>6
  <2> QED BY <2>1, <2>4, <2>5, <2>6
<1> QED BY <1>2, <1>3, <1>4

LEMMA AnswersKeep ==
  ASSUME HInv, FinishMaster \/ FinishMedia
  PROVE  HInv'
<1>1. CASE Crash
  BY <1>1, CrashKeeps
<1>2. CASE /\ UNCHANGED <<slots, current, asked, wanted, alive, plays, ptth, loaded, eos>>
           /\ handling' = Idle
  <2>1. SlotsPart' /\ AsksPart'
    BY <1>2, PlaysStay, SlotsStay, AsksStay
  <2> QED BY <1>2, <2>1 DEF HInv, RestPart
<1>3. ASSUME NEW w, Filing(w)
      PROVE  HInv'
  <2>1. PICK i \in Slots : i = handling.at
    BY <1>3 DEF Filing
  <2> QED BY <1>3, <2>1, ContinueKeeps DEF Filing
<1> QED BY <1>1, <1>2, <1>3, AnswerSteps

-----------------------------------------------------------------------------
LEMMA HInvNext == HInv /\ [Next]_vars => HInv'
<1> SUFFICES ASSUME HInv, [Next]_vars
             PROVE  HInv'
  OBVIOUS
<1>1. CASE UNCHANGED vars \/ Reverse \/ ConnectionsLost \/ Load \/ EndOfStream
  BY <1>1, OthersKeep
<1>2. CASE \E on \in BOOLEAN : SetProperty(on) \/ DestroyAll(on)
  BY <1>2, OthersKeep, DestroysKeep
<1>3. CASE EosWatch
  BY <1>3, DestroysKeep
<1>4. CASE BeginRefused \/ BeginRemove \/ BeginAnswer
  BY <1>4, BeginsKeep
<1>5. CASE FinishRefused \/ FinishRemove
  BY <1>5, FinishKeeps
<1>6. CASE FinishMaster \/ FinishMedia
  BY <1>6, AnswersKeep
<1>7. CASE \E i \in Slots, s \in Sessions : PlayStored(i, s)
  BY <1>7, PlayStoredKeeps
<1>8. CASE \E u \in Uuids, s \in Sessions, complete \in BOOLEAN : PlayNew(u, s, complete)
  BY <1>8, PlayNewKeeps
<1> QED BY <1>1, <1>2, <1>3, <1>4, <1>5, <1>6, <1>7, <1>8 DEF Next

LEMMA HInvHolds == Spec => []HInv
BY HInvInit, HInvNext, PTL DEF Spec

-----------------------------------------------------------------------------
LEMMA FilledIsLess ==
  ASSUME HInv
  PROVE  /\ Filled(slots) \subseteq Slots /\ IsFiniteSet(Filled(slots))
         /\ Cardinality(Filled(slots)) \in Nat /\ Cardinality(Filled(slots)) < Max
<1>1. Filled(slots) \subseteq Slots /\ Filled(slots) # Slots
  BY DEF HInv, SlotsPart, Filled
<1>2. IsFiniteSet(Filled(slots)) /\ Cardinality(Filled(slots)) # Max
      /\ Cardinality(Filled(slots)) <= Max
  BY <1>1, SlotCount, FS_Subset
<1>3. Cardinality(Filled(slots)) \in Nat
  BY <1>2, FS_CardinalityType
<1> QED BY <1>1, <1>2, <1>3, MaxAssumption

LEMMA HInvIsTrue == HInv => LibraryIsTrue
<1> SUFFICES ASSUME HInv
             PROVE  LibraryIsTrue
  OBVIOUS
<1>1. \A i \in Slots : /\ slots[i].uuid \in Uuids \union {None}
                       /\ slots[i].session \in Sessions \union {None}
                       /\ slots[i].from \in 0 .. plays
                       /\ slots[i].uris \in Tables \union {<<>>}
                       /\ slots[i].next \in 0 .. Len(slots[i].uris)
  <2> SUFFICES ASSUME NEW i \in Slots
               PROVE  /\ slots[i].uuid \in Uuids \union {None}
                      /\ slots[i].session \in Sessions \union {None}
                      /\ slots[i].from \in 0 .. plays
                      /\ slots[i].uris \in Tables \union {<<>>}
                      /\ slots[i].next \in 0 .. Len(slots[i].uris)
    OBVIOUS
  <2>1. slots[i] \in Videos /\ VideoOK(slots[i]) /\ slots[i].from \in 0 .. plays
    BY SlotFacts
  <2>2. /\ slots[i].next \in Nat /\ Len(slots[i].uris) \in Nat /\ slots[i].uuid \in Uuids \union {None}
        /\ slots[i].session \in Sessions \union {None}
    BY <2>1, LenProperties DEF Videos
  <2> QED BY <2>1, <2>2 DEF VideoOK
<1>2. TypeOK
  <2>1. DOMAIN slots = Slots /\ current \in Slots \union {NoVideo} /\ plays \in 0 .. MaxPlays
    BY DEF HInv, SlotsPart, SlotTypes
  <2>2. \A a \in asked : /\ a.session \in Sessions /\ a.from \in 0 .. plays
                        /\ a.of \in Uris \union {Master}
    BY DEF HInv, AsksPart, Question, Questions
  <2>3. handling.kind \in Kinds /\ handling.at \in Slots \union {NoVideo}
    BY DEF HInv, AsksPart
  <2>4. RestPart
    BY DEF HInv
  <2> QED BY <1>1, <2>1, <2>2, <2>3, <2>4 DEF TypeOK, RestPart, Kinds
<1>3. Consistent
  BY <1>2 DEF Consistent, Filled, HInv, SlotsPart
<1>4. MediaUnderItsUri
  <2> SUFFICES ASSUME NEW i \in Slots, slots[i].from # 0, NEW n \in 1 .. Len(slots[i].media)
               PROVE  slots[i].media[n].text \in {None, slots[i].uris[n]}
    BY DEF MediaUnderItsUri
  <2>1. VideoOK(slots[i])
    BY SlotFacts
  <2> QED BY <2>1 DEF VideoOK, Sound
<1> QED BY <1>3, <1>4, FilledIsLess DEF LibraryIsTrue, RoomForOneMore

(* The library is consistent and has room for another video, whatever      *)
(* answers come late, and a video that was given the answers to its own    *)
(* download alone has every media playlist under the uri it was asked for: *)
(* what the assertions of the play requests, get_playlist_by_uuid and      *)
(* get_media_playlist rely on, for any number of slots, videos, playlists, *)
(* sessions and downloads.                                                 *)
THEOREM Kept == Spec => []LibraryIsTrue
BY HInvHolds, HInvIsTrue, PTL

LEMMA PlaysStep ==
  ASSUME HInv, HInv', [Next]_vars, handling.kind = "answer", wanted' \notin {wanted, None},
         slots'[handling.at].from # 0
  PROVE  /\ Downloaded(slots'[handling.at])
         /\ \A n \in 1 .. Len(slots'[handling.at].uris) :
              LET uri == slots'[handling.at].uris[n]
              IN  Served(slots'[handling.at], uri) = uri
<1>1. handling # Idle /\ wanted' # wanted
  BY DEF Idle
<1>2. FinishMaster \/ FinishMedia
  <2>1. ~ \E i \in Slots, s \in Sessions : PlayStored(i, s)
    BY <1>1 DEF PlayStored
  <2>2. ~ \E u \in Uuids, s \in Sessions, complete \in BOOLEAN : PlayNew(u, s, complete)
    BY <1>1 DEF PlayNew
  <2>3. ~ (Reverse \/ ConnectionsLost \/ BeginRefused \/ BeginRemove \/ BeginAnswer)
    BY <1>1 DEF Reverse, ConnectionsLost, BeginRefused, BeginRemove, BeginAnswer, Begin
  <2>4. ~ (FinishRefused \/ FinishRemove)
    BY DEF FinishRefused, FinishRemove, Finish
  <2>5. ~ \E on \in BOOLEAN : SetProperty(on) \/ DestroyAll(on)
    BY <1>1 DEF SetProperty, DestroyAll
  <2>6. ~ (Load \/ EndOfStream \/ EosWatch)
    BY <1>1 DEF Load, EndOfStream, EosWatch
  <2>7. ~ UNCHANGED vars
    BY <1>1 DEF vars, player
  <2> QED BY <2>1, <2>2, <2>3, <2>4, <2>5, <2>6, <2>7 DEF Next
<1>3. PICK w : Filing(w)
  BY <1>1, <1>2, AnswerSteps DEF Crash, player
<1>4. ~HasMore(w) /\ slots' = [slots EXCEPT ![handling.at] = w]
  BY <1>1, <1>3 DEF Filing, Continue
<1>5. slots \in [Slots -> Videos] /\ handling.at \in Slots /\ VideoOK(w) /\ w.next \in Nat
  BY <1>3 DEF HInv, SlotsPart, SlotTypes, Filing, VideoOK, Videos
<1>6. slots'[handling.at] = w
  BY <1>4, <1>5
<1>7. w.next > 0 /\ Done(w, w.next)
  BY <1>3, <1>4, <1>5, <1>6 DEF Filing
<1>8. Downloaded(w) /\ \A n \in 1 .. Len(w.uris) : Served(w, w.uris[n]) = w.uris[n]
  BY <1>4, <1>5, <1>6, <1>7, EndIsWhole
<1> QED BY <1>6, <1>8

(* A download whose answers alone were filed in its video ends in the      *)
(* player being started only when every playlist of the table can be       *)
(* served, those it lists twice too.                                       *)
THEOREM Whole == Spec => PlaysWhatIsThere
<1>1. HInv /\ HInv' /\ [Next]_vars =>
        [(/\ handling.kind = "answer" /\ wanted' \notin {wanted, None}
          /\ slots'[handling.at].from # 0)
           => /\ Downloaded(slots'[handling.at])
              /\ \A n \in 1 .. Len(slots'[handling.at].uris) :
                   LET uri == slots'[handling.at].uris[n]
                   IN  Served(slots'[handling.at], uri) = uri]_vars
  BY PlaysStep
<1>2. Spec => []HInv /\ [][Next]_vars
  BY HInvHolds DEF Spec
<1> QED BY <1>1, <1>2, PTL DEF PlaysWhatIsThere

-----------------------------------------------------------------------------
(* The slots as a library.                                                 *)
LibraryVideos == {slots[i].uuid : i \in Filled(slots)}
LibraryCurrent == IF current = NoVideo THEN None ELSE slots[current].uuid

VideosAre ==
  /\ \A i \in Slots : slots[i].uuid \in Uuids \union {None}
  /\ LibraryVideos = {u \in Uuids : \E i \in Slots : slots[i].uuid = u}
  /\ current # NoVideo => current \in Slots /\ LibraryCurrent \in LibraryVideos
  /\ LibraryCurrent = None <=> current = NoVideo
RoomIs ==
  Cardinality(Filled(slots)) \in 0 .. Max - 1 /\ IsFiniteSet(Filled(slots))

LEMMA LibraryFacts == HInv => VideosAre /\ RoomIs
<1> SUFFICES ASSUME HInv
             PROVE  VideosAre /\ RoomIs
  OBVIOUS
<1>0. RoomIs
  BY FilledIsLess, MaxAssumption DEF RoomIs
<1>1. \A i \in Slots : slots[i].uuid \in Uuids \union {None}
  <2> SUFFICES ASSUME NEW i \in Slots
               PROVE  slots[i].uuid \in Uuids \union {None}
    OBVIOUS
  <2>1. slots[i] \in Videos
    BY SlotFacts
  <2> QED BY <2>1 DEF Videos
<1>2. LibraryVideos = {u \in Uuids : \E i \in Slots : slots[i].uuid = u}
  BY <1>1, NoneAssumption DEF LibraryVideos, Filled
<1>3. current # NoVideo => current \in Slots /\ slots[current].uuid # None
  BY DEF HInv, SlotsPart, SlotTypes
<1> QED BY <1>0, <1>1, <1>2, <1>3 DEF LibraryCurrent, VideosAre

LEMMA LibraryFactsNext == HInv' => VideosAre' /\ RoomIs'
BY LibraryFacts, PTL

(* Nothing is stored or thrown away: at most the current video is another. *)
LEMMA SameVideos ==
  ASSUME HInv, HInv', \A i \in Slots : slots'[i].uuid = slots[i].uuid
  PROVE  [Library!Next]_<<LibraryVideos, LibraryCurrent>>
<1>1. LibraryVideos = {u \in Uuids : \E i \in Slots : slots[i].uuid = u}
  BY LibraryFacts, LibraryFactsNext DEF VideosAre
<1>2. /\ LibraryVideos' = {u \in Uuids : \E i \in Slots : slots'[i].uuid = u}
      /\ current' # NoVideo => LibraryCurrent' \in LibraryVideos'
      /\ LibraryCurrent' = None <=> current' = NoVideo
  BY LibraryFacts, LibraryFactsNext DEF VideosAre
<1>3. LibraryVideos' = LibraryVideos
  BY <1>1, <1>2
<1>4. CASE current' = NoVideo
  <2>1. LibraryCurrent' = None
    BY <1>2, <1>4
  <2>2. LibraryCurrent # None => Library!PutAside
    BY <1>3, <2>1 DEF Library!PutAside, LibraryVideos, LibraryCurrent
  <2> QED BY <1>3, <2>1, <2>2 DEF Library!Next
<1>5. CASE current' # NoVideo
  <2>1. PICK u \in Uuids : u = LibraryCurrent' /\ u \in LibraryVideos
    BY <1>2, <1>3, <1>5
  <2>2. Library!Choose(u)
    BY <1>3, <2>1 DEF Library!Choose, LibraryVideos, LibraryCurrent
  <2> QED BY <2>2 DEF Library!Next
<1> QED BY <1>4, <1>5

LEMMA EmptiesLibrary ==
  ASSUME HInv, HInv', slots' = Destroyed(Slots), current' = NoVideo
  PROVE  Library!Empty
<1>1. \A i \in Slots : slots'[i].uuid = None
  BY FreeIsSound DEF Destroyed
<1>2. /\ LibraryVideos' = {u \in Uuids : \E i \in Slots : slots'[i].uuid = u}
      /\ LibraryCurrent' = None <=> current' = NoVideo
  BY LibraryFacts, LibraryFactsNext DEF VideosAre
<1>3. LibraryVideos' = {} /\ LibraryCurrent' = None
  BY <1>1, <1>2, NoneAssumption
<1> QED BY <1>3 DEF Library!Empty, LibraryVideos, LibraryCurrent

LEMMA ThrowsAway ==
  ASSUME HInv, HInv', current # NoVideo, slots' = Destroyed({current}), current' = NoVideo
  PROVE  Library!ThrowAway
<1>1. /\ LibraryVideos = {u \in Uuids : \E i \in Slots : slots[i].uuid = u}
      /\ current \in Slots /\ LibraryCurrent # None /\ LibraryCurrent = slots[current].uuid
  BY LibraryFacts, LibraryFactsNext DEF LibraryCurrent, VideosAre
<1>2. /\ LibraryVideos' = {u \in Uuids : \E i \in Slots : slots'[i].uuid = u}
      /\ LibraryCurrent' = None
  BY LibraryFacts, LibraryFactsNext DEF VideosAre
<1>3. /\ slots'[current].uuid = None
      /\ \A i \in Slots : i # current => slots'[i] = slots[i]
  BY <1>1, FreeIsSound DEF Destroyed
<1>4. \A i \in Slots : slots[i].uuid = LibraryCurrent => i = current
  BY <1>1 DEF HInv, SlotsPart
<1>5. LibraryVideos' = LibraryVideos \ {LibraryCurrent}
  BY <1>1, <1>2, <1>3, <1>4, NoneAssumption
<1> QED BY <1>1, <1>2, <1>5 DEF Library!ThrowAway, LibraryVideos, LibraryCurrent

LEMMA FetchesVideo ==
  ASSUME HInv, HInv', NEW u \in Uuids, NEW session \in Sessions, NEW complete \in BOOLEAN,
         PlayNew(u, session, complete),
         ~ \A i \in Slots : IsLong(slots[i])
  PROVE  Library!Fetch(u)
<1>s. PICK s : s = plays'
  OBVIOUS
<1>v. PICK v : v = NewVideo(u, session, s, complete)
  OBVIOUS
<1>p. PICK p : p = Placed(v)
  OBVIOUS
<1>1. slots' = p.slots /\ current' = p.at /\ \A i \in Slots : slots[i].uuid # u
  BY <1>s, <1>v, <1>p DEF PlayNew, NewVideo
<1>2. VideoOK(v) /\ v.uuid = u
  <2>1. s \in Nat
    BY <1>s, MaxAssumption DEF HInv, SlotsPart, SlotTypes
  <2> QED BY <1>v, <2>1, NewIsSound
<1>3. /\ p.at \in Slots /\ p.slots[p.at] = v
      /\ \A i \in Slots : i # p.at => p.slots[i] = slots[i] \/ p.slots[i] = Free
  BY <1>2, <1>p, PlacedLeavesRoom
<1>4. PICK t : t = slots'
  OBVIOUS
<1> DEFINE rest == {i \in Slots : t[i].uuid # None} \ {p.at}
           kept == {t[i].uuid : i \in rest}
<1>5. /\ LibraryVideos = {x \in Uuids : \E i \in Slots : slots[i].uuid = x}
      /\ LibraryVideos' = {x \in Uuids : \E i \in Slots : t[i].uuid = x}
      /\ \A i \in Slots : t[i].uuid \in Uuids \union {None}
  <2>1. /\ LibraryVideos' = {x \in Uuids : \E i \in Slots : slots'[i].uuid = x}
        /\ \A i \in Slots : slots'[i].uuid \in Uuids \union {None}
    BY LibraryFacts, LibraryFactsNext DEF VideosAre
  <2> QED BY <1>4, <2>1, LibraryFacts, LibraryFactsNext DEF VideosAre
<1>6. LibraryCurrent' = u
  <2>1. p.at # NoVideo
    BY <1>3, SlotNumbers
  <2> QED BY <1>1, <1>2, <1>3, <2>1 DEF LibraryCurrent
<1>7. t[p.at].uuid = u /\ u # None
  BY <1>1, <1>2, <1>3, <1>4, NoneAssumption
<1>8. kept \subseteq LibraryVideos
  <2>1. \A i \in rest : t[i] = slots[i]
    BY <1>1, <1>3, <1>4, FreeIsSound
  <2> QED BY <1>5, <2>1
<1>9. LibraryVideos' = kept \union {u}
  BY <1>3, <1>5, <1>7, NoneAssumption
<1>10. Cardinality(kept) < Max - 1
  <2> DEFINE full == {i \in Slots : t[i].uuid # None}
             f == [i \in rest |-> t[i].uuid]
  <2>1. Cardinality(full) \in Nat /\ Cardinality(full) < Max /\ IsFiniteSet(full)
    <3>1. /\ Cardinality(Filled(slots')) \in Nat /\ Cardinality(Filled(slots')) < Max
          /\ IsFiniteSet(Filled(slots'))
      BY LibraryFactsNext, MaxAssumption DEF RoomIs
    <3> QED BY <1>4, <3>1 DEF Filled
  <2>2. p.at \in full
    BY <1>3, <1>7
  <2>3. IsFiniteSet(rest) /\ Cardinality(rest) = Cardinality(full) - 1
    BY <2>1, <2>2, FS_RemoveElement
  <2>4. f \in Surjection(rest, kept)
    BY DEF Surjection
  <2>5. IsFiniteSet(kept) /\ Cardinality(kept) <= Cardinality(rest)
    <3> HIDE DEF rest, kept, f
    <3> QED BY <2>3, <2>4, FS_Surjection
  <2>6. Cardinality(kept) \in Nat
    BY <2>5, FS_CardinalityType
  <2> HIDE DEF rest, kept, full
  <2> QED BY <2>1, <2>3, <2>5, <2>6, MaxAssumption
<1> HIDE DEF kept
<1>11. u \notin LibraryVideos
  BY <1>1, <1>5
<1>12. \E k \in SUBSET LibraryVideos : Cardinality(k) < Max - 1 /\ LibraryVideos' = k \union {u}
  BY <1>8, <1>9, <1>10
<1>13. PICK k \in SUBSET LibraryVideos : Cardinality(k) < Max - 1 /\ LibraryVideos' = k \union {u}
  BY <1>12
<1>14. Library!Cardinality(k) = Cardinality(k)
  BY DEF Library!Cardinality, Cardinality
<1> QED BY <1>6, <1>11, <1>13, <1>14 DEF Library!Fetch, LibraryVideos, LibraryCurrent

LEMMA LibraryStep ==
  ASSUME HInv, HInv', [Next]_vars
  PROVE  [Library!Next]_<<LibraryVideos, LibraryCurrent>>
<1>1. CASE UNCHANGED slots
  BY <1>1, SameVideos
<1>2. CASE EosWatch
  <2>1. current # NoVideo => Library!ThrowAway
    BY <1>2, ThrowsAway DEF EosWatch
  <2>2. CASE current = NoVideo
    <3>1. (slots' = Destroyed(Slots) /\ current' = NoVideo) \/ UNCHANGED slots
      BY <1>2, <2>2 DEF EosWatch
    <3> QED BY <1>1, <3>1, EmptiesLibrary DEF Library!Next
  <2> QED BY <2>1, <2>2 DEF Library!Next
<1>3. CASE \E on \in BOOLEAN : DestroyAll(on)
  <2>1. slots' = Destroyed(Slots) /\ current' = NoVideo
    BY <1>3 DEF DestroyAll, CurrentWithout, HInv, SlotsPart, SlotTypes
  <2> QED BY <2>1, EmptiesLibrary DEF Library!Next
<1>4. CASE FinishMaster \/ FinishMedia
  <2>1. ASSUME NEW w, Filing(w)
        PROVE  \A i \in Slots : slots'[i].uuid = slots[i].uuid
    <3>1. PICK x : slots' = [slots EXCEPT ![handling.at] = x] /\ x.uuid = w.uuid
      <4>1. PICK x : x = [w EXCEPT !.next = @ + 1]
        OBVIOUS
      <4>2. w \in Videos
        BY <2>1 DEF Filing, VideoOK
      <4>3. x.uuid = w.uuid
        BY <4>1, <4>2 DEF Videos
      <4>4. slots' \in {[slots EXCEPT ![handling.at] = x], [slots EXCEPT ![handling.at] = w]}
        BY <2>1, <4>1 DEF Filing, Continue
      <4> QED BY <4>3, <4>4
    <3>2. slots \in [Slots -> Videos] /\ w.uuid = slots[handling.at].uuid
      BY <2>1 DEF Filing, HInv, SlotsPart, SlotTypes
    <3> QED BY <3>1, <3>2
  <2> QED BY <1>1, <1>4, <2>1, AnswerSteps, SameVideos DEF Crash
<1>5. ASSUME NEW i \in Slots, NEW session \in Sessions, PlayStored(i, session)
      PROVE  [Library!Next]_<<LibraryVideos, LibraryCurrent>>
  <2>1. PICK x : x = [slots[i] EXCEPT !.session = session]
    OBVIOUS
  <2>2. slots \in [Slots -> Videos]
    BY DEF HInv, SlotsPart, SlotTypes
  <2>3. slots' = [slots EXCEPT ![i] = x]
    BY <1>5, <2>1, <2>2 DEF PlayStored
  <2>4. x.uuid = slots[i].uuid
    BY <2>1, <2>2 DEF Videos
  <2>5. \A j \in Slots : slots'[j].uuid = slots[j].uuid
    BY <2>2, <2>3, <2>4
  <2> QED BY <2>5, SameVideos
<1>6. ASSUME NEW u \in Uuids, NEW session \in Sessions, NEW complete \in BOOLEAN,
             PlayNew(u, session, complete)
      PROVE  [Library!Next]_<<LibraryVideos, LibraryCurrent>>
  <2>1. CASE \A i \in Slots : IsLong(slots[i])
    BY <1>1, <1>6, <2>1 DEF PlayNew
  <2>2. CASE ~ \A i \in Slots : IsLong(slots[i])
    BY <1>6, <2>2, FetchesVideo DEF Library!Next
  <2> QED BY <2>1, <2>2
<1>7. CASE \/ Reverse \/ ConnectionsLost \/ Load \/ EndOfStream \/ UNCHANGED vars
           \/ BeginRefused \/ BeginRemove \/ BeginAnswer \/ FinishRefused \/ FinishRemove
           \/ \E on \in BOOLEAN : SetProperty(on)
  <2>1. UNCHANGED slots
    BY <1>7 DEF Reverse, ConnectionsLost, Load, EndOfStream, vars, BeginRefused, BeginRemove,
         BeginAnswer, Begin, FinishRefused, FinishRemove, Finish, SetProperty, Crash
  <2> QED BY <1>1, <2>1
<1> QED BY <1>2, <1>3, <1>4, <1>5, <1>6, <1>7 DEF Next

(* The slots keep the promise of a library: a request for a video that is  *)
(* not stored makes room and finds some, one that is put aside stays, and  *)
(* nothing else comes, goes or becomes current, whatever the two threads   *)
(* and the client do.                                                      *)
THEOREM Implements == Spec => IsLibrary
<1>1. Init => Library!Init
  <2> SUFFICES ASSUME Init
               PROVE  Library!Init
    OBVIOUS
  <2>1. slots = [i \in Slots |-> Free] /\ current = NoVideo /\ Free.uuid = None
    BY FreeIsSound DEF Init
  <2>2. Filled(slots) = {}
    BY <2>1 DEF Filled
  <2> QED BY <2>1, <2>2 DEF Library!Init
<1>2. HInv /\ HInv' /\ [Next]_vars => [Library!Next]_<<LibraryVideos, LibraryCurrent>>
  BY LibraryStep
<1>3. Spec => Init /\ []HInv /\ [][Next]_vars
  BY HInvHolds DEF Spec
<1> QED BY <1>1, <1>2, <1>3, PTL DEF IsLibrary, Library!Spec, LibraryVideos, LibraryCurrent
=============================================================================
