--------------------------- MODULE ArchiverProofs ---------------------------
(***************************************************************************)
(* The archives are true, one import per insertion and one notification of *)
(* each, and no crash gives an import up: for all cards and bounds.        *)
(***************************************************************************)
EXTENDS PhotoArchiver, Induction, TLAPS

-----------------------------------------------------------------------------
(* The types. *)

Numbers == UNION {DOMAIN c.photos : c \in Cards}
AllData == UNION {{c.photos[i].data : i \in DOMAIN c.photos} : c \in Cards}
Files   == UNION {[D -> AllData] : D \in SUBSET Numbers}
AllBatches == {Batch(c) : c \in Cards}

Record   == [id : SessionId, batch : AllBatches, status : {"copying", "copied", "failed"},
             files : Files, receipted : BOOLEAN]
Manifest == [session : SessionId, batch : AllBatches, files : Files]
Given    == [batch : SUBSET AllBatches, proof : SUBSET Manifest, token : SUBSET SessionId]

CopyAt   == {"allocate", "photos", "journal", "publish", "markCopied", "verifyCopied"}
NotifyAt == {"restore", "verify", "submit", "receipt", "record"}
OpenAt   == CopyAt \cup NotifyAt \cup {"unlink"}

Process  == [action : {"copy", "notify", "reset"}, at : {"start", "lock"} \cup OpenAt,
             given : Given, session : SUBSET Record, todo : SUBSET Numbers,
             entry : SUBSET AllData]

Look     == [session : Record, todo : SUBSET Numbers]

TypeOK ==
    /\ card \in SUBSET Cards
    /\ active \in SUBSET Record
    /\ archive \in [SessionId -> [photos : Files, manifest : SUBSET Manifest,
                                  receipt : SUBSET Manifest]]
    /\ sent \in [SessionId -> Nat]
    /\ known \in Given
    /\ look \in SUBSET Look
    /\ process \in [Slot -> SUBSET Process]
    /\ lock \in SUBSET Slot
    /\ happened \in [change : Nat, insert : Nat, reset : Nat, cut : Nat, error : Nat,
                     session : 0..MaxSessions, disturbed : SUBSET SessionId]
    /\ \A s \in Slot : \A p \in process[s] :
          p.at \in {"journal", "publish"} => Min(p.todo) \in p.todo

AtMostOne(S) == \A x, y \in S : x = y

(* There is never more than one of what the model keeps as a set.          *)
Single ==
    /\ AtMostOne(card) /\ AtMostOne(active) /\ AtMostOne(lock)
    /\ AtMostOne(known.batch) /\ AtMostOne(known.proof)
    /\ \A i \in SessionId : AtMostOne(archive[i].manifest) /\ AtMostOne(archive[i].receipt)

SingleProcess ==
    \A s \in Slot :
        /\ AtMostOne(process[s])
        /\ \A p \in process[s] : AtMostOne(p.given.batch) /\ AtMostOne(p.given.proof)

Fits(p) ==
    /\ p.at \in CopyAt => p.action = "copy"
    /\ p.at \in NotifyAt => p.action = "notify"
    /\ p.at = "unlink" => p.action = "reset"

(* A process that has opened the records holds the lock, and nobody else   *)
(* has written the active record since it read it.                         *)
Locked ==
    \A s \in Slot : \A p \in process[s] :
        /\ p.at \notin {"start", "lock"} => lock = {s}
        /\ p.at \in OpenAt => p.session = active
        /\ Fits(p)

(* What a sensor has printed is true for good of the session it names.     *)
GivenOK(g) ==
    /\ \A b \in g.batch : DOMAIN b.metas # {}
    /\ \A e \in g.proof : archive[e.session].manifest = {e}
    /\ \A t \in g.token : t <= happened.session

GivensOK ==
    /\ GivenOK(known)
    /\ \A s \in Slot : \A p \in process[s] :
          GivenOK(p.given) /\ (p.action # "reset" => p.given.batch # {})

(* Each of the files was the photo of a card that looked like the batch.   *)
FromCards(b, files) == \A i \in DOMAIN files : IsOfSomeCard(i, b.metas[i], files[i])

(* The archive of session i, whose record may be gone.                     *)
ArchiveOK(i) ==
    /\ \A e \in archive[i].manifest : /\ e.session = i
                                      /\ archive[i].photos = e.files
                                      /\ DOMAIN e.files = DOMAIN e.batch.metas
                                      /\ FromCards(e.batch, e.files)
    /\ archive[i].receipt \subseteq archive[i].manifest
    /\ sent[i] > 0 => \E e \in archive[i].manifest : i \notin happened.disturbed => IsOfOneCard(e)
    /\ i > happened.session => /\ DOMAIN archive[i].photos = {} /\ archive[i].manifest = {}
                               /\ archive[i].receipt = {} /\ sent[i] = 0

(* The active record: its journal is ahead of what is published.           *)
ActiveOK(a) ==
    /\ a.id <= happened.session
    /\ DOMAIN a.files \subseteq DOMAIN a.batch.metas /\ DOMAIN a.batch.metas # {}
    /\ FromCards(a.batch, a.files)
    /\ \A i \in DOMAIN archive[a.id].photos :
          i \in DOMAIN a.files /\ archive[a.id].photos[i] = a.files[i]
    /\ archive[a.id].manifest \subseteq {Evidence(a)}
    /\ a.status = "copied" => archive[a.id].manifest = {Evidence(a)}
    /\ a.status = "copying" => sent[a.id] = 0

SourceIs(i, d) == \E c \in card : i \in DOMAIN c.photos /\ d = c.photos[i].data

(* A process at work on session a.  What notify has hashed of a session is *)
(* still the card's, unless it was disturbed.                              *)
AtWork(p, a) ==
    /\ p.action # "reset" => p.given.batch = {a.batch} /\ p.todo \subseteq DOMAIN a.batch.metas
    /\ p.at \in {"photos", "journal", "publish", "markCopied"} => a.status = "copying"
    /\ p.at \in {"photos", "journal", "publish"} =>
          \A i \in DOMAIN a.batch.metas : i \in p.todo \/ IsPublished(a, i)
    /\ p.at \in {"journal", "publish"} => ~IsPublished(a, Min(p.todo)) /\ AtMostOne(p.entry)
    /\ p.at = "journal" =>
          \A d \in p.entry : IsOfSomeCard(Min(p.todo), a.batch.metas[Min(p.todo)], d)
    /\ p.at = "publish" => /\ Min(p.todo) \in DOMAIN a.files
                           /\ \A d \in p.entry : a.files[Min(p.todo)] = d
    /\ p.at = "markCopied" => archive[a.id].manifest = {Evidence(a)}
    /\ p.action = "notify" => a.status = "copied" /\ \E e \in p.given.proof : e.session = a.id
    /\ p.at \in {"verify", "submit", "receipt"} => archive[a.id].receipt = {}
    /\ p.at \in {"restore", "record"} => archive[a.id].receipt # {}
    /\ (p.at = "verify" /\ a.id \notin happened.disturbed) =>
          \A i \in DOMAIN a.files : i \in p.todo \/ SourceIs(i, a.files[i])
    /\ (p.at \in {"submit", "receipt"} /\ a.id \notin happened.disturbed) =>
          IsOfOneCard(Evidence(a))
    /\ p.at = "verifyCopied" => a.status = "copied"
    /\ p.at = "unlink" => a.id \in p.given.token

WorkHere(p) ==
    /\ p.at \in OpenAt => \A a \in active : AtWork(p, a)
    /\ p.at \in OpenAt \ {"allocate"} => active # {}
    /\ p.at = "allocate" => /\ active = {}
                            /\ \A b \in p.given.batch : p.todo = DOMAIN b.metas

WorkOK == \A s \in Slot : \A p \in process[s] : WorkHere(p)

ArchivesOK == \A i \in SessionId : ArchiveOK(i)

RecordsOK == GivensOK /\ ArchivesOK /\ (\A a \in active : ActiveOK(a)) /\ WorkOK

(* The insertions and resets that no session has been allocated for.       *)
Credit == happened.insert + happened.reset - happened.session

Tokens == known.token \cup UNION {UNION {p.given.token : p \in process[s]} : s \in Slot}

CreditHere(p) ==
    p.at = "allocate" =>
        /\ Credit >= 1
        /\ card # {} /\ (\E b \in p.given.batch : b \notin Batches) => Credit >= 2

CreditOK ==
    /\ Credit >= 0
    /\ card # {} /\ active = {} => Credit >= 1
    /\ \A a \in active : card # {} /\ (~Matches(a) \/ a.id \in Tokens) => Credit >= 1
    /\ \A s \in Slot : \A p \in process[s] : CreditHere(p)

(* A notification that was submitted is recorded next, by the same         *)
(* process; if not, that was cut short.                                    *)
SentOK ==
    /\ \A i \in SessionId : sent[i] <= 1 + happened.cut
    /\ \A a \in active :
          a.status = "copied" /\ archive[a.id].receipt = {} =>
              \/ sent[a.id] <= happened.cut
              \/ \E s \in Slot : \E p \in process[s] : p.at = "receipt"

(* A card that is left alone.                                              *)
LeftAlone == happened.error = 0 /\ happened.change <= 1

SameRecord(a) ==
    /\ Matches(a) /\ a.status # "failed"
    /\ \A i \in DOMAIN a.files : SourceIs(i, a.files[i])

SameHere(p) ==
    /\ p.given.batch \subseteq Batches
    /\ p.at \in {"journal", "publish"} => \A d \in p.entry : SourceIs(Min(p.todo), d)

SameCard ==
    LeftAlone =>
        /\ happened.change = 0 => card = {}
        /\ known.batch \subseteq Batches
        /\ \A s \in Slot : \A p \in process[s] : SameHere(p)
        /\ \A a \in active : SameRecord(a)

-----------------------------------------------------------------------------
(* Types are kept. *)

LEMMA WithEntryType ==
    ASSUME NEW f \in Files, NEW i \in Numbers, NEW d \in AllData
    PROVE  WithEntry(f, i, d) \in Files
<1>1. PICK D \in SUBSET Numbers : f \in [D -> AllData]
  BY DEF Files
<1>2. WithEntry(f, i, d) \in [D \cup {i} -> AllData]
  BY <1>1 DEF WithEntry
<1> QED
  BY <1>2 DEF Files

LEMMA EmptyFiles == <<>> \in Files /\ DOMAIN <<>> = {}
<1>1. <<>> \in [{} -> AllData]
  OBVIOUS
<1> QED
  BY <1>1 DEF Files

LEMMA GoesType ==
    ASSUME TypeOK, NEW s \in Slot, NEW q \in Process, Goes(s, q),
           q.at \in {"journal", "publish"} => Min(q.todo) \in q.todo
    PROVE  /\ process' \in [Slot -> SUBSET Process]
           /\ \A t \in Slot : \A p \in process'[t] :
                 p.at \in {"journal", "publish"} => Min(p.todo) \in p.todo
<1>1. process' = [process EXCEPT ![s] = {q}] /\ process \in [Slot -> SUBSET Process]
  BY DEF Goes, TypeOK
<1>2. process' \in [Slot -> SUBSET Process]
  BY <1>1
<1>3. \A t \in Slot : process'[t] = IF t = s THEN {q} ELSE process[t]
  BY <1>1
<1> QED
  BY <1>2, <1>3 DEF TypeOK

LEMMA ExitsType ==
    ASSUME TypeOK, NEW s \in Slot, Exits(s)
    PROVE  /\ process' \in [Slot -> SUBSET Process]
           /\ lock' \in SUBSET Slot
           /\ \A t \in Slot : \A p \in process'[t] :
                 p.at \in {"journal", "publish"} => Min(p.todo) \in p.todo
<1>1. process' = [process EXCEPT ![s] = {}] /\ process \in [Slot -> SUBSET Process]
  BY DEF Exits, TypeOK
<1>2. process' \in [Slot -> SUBSET Process]
  BY <1>1
<1>3. \A t \in Slot : process'[t] = IF t = s THEN {} ELSE process[t]
  BY <1>1
<1> QED
  BY <1>2, <1>3 DEF TypeOK, Exits

LEMMA NothingType == Nothing \in Given
  BY DEF Nothing, Given

LEMMA ForgetsType ==
    ASSUME TypeOK, NEW s \in Slot
    PROVE  /\ Forgets(s) => known' \in Given
           /\ Ends(s) => look' \in SUBSET Look
  BY NothingType DEF Forgets, Ends, TypeOK

LEMMA DataTypes ==
    ASSUME TypeOK
    PROVE  /\ \A c \in card : c \in Cards /\ DOMAIN c.photos \subseteq Numbers
           /\ \A c \in card : \A i \in DOMAIN c.photos : c.photos[i].data \in AllData
           /\ Batches \subseteq AllBatches
           /\ \A i, m : Source(i, m) \subseteq AllData
           /\ \A b \in AllBatches : DOMAIN b.metas \subseteq Numbers
           /\ \A a \in Record : Evidence(a) \in Manifest
<1>1. card \in SUBSET Cards
  BY DEF TypeOK
<1>2. \A c \in Cards : DOMAIN c.photos \subseteq Numbers
  BY DEF Numbers
<1>3. \A c \in Cards : \A i \in DOMAIN c.photos : c.photos[i].data \in AllData
  BY DEF AllData
<1>4. Batches \subseteq AllBatches
  BY <1>1 DEF Batches, AllBatches
<1>5. \A i, m : Source(i, m) \subseteq AllData
  BY <1>1, <1>3 DEF Source
<1>6. \A b \in AllBatches : DOMAIN b.metas \subseteq Numbers
  BY <1>2 DEF AllBatches, Batch
<1>7. \A a \in Record : Evidence(a) \in Manifest
  BY DEF Record, Evidence, Manifest
<1> QED
  BY <1>1, <1>2, <1>3, <1>4, <1>5, <1>6, <1>7

(* What archive_verified prints, if it prints, is a receipt or a manifest. *)
Evidences == UNION {archive[i].manifest \cup archive[i].receipt : i \in SessionId}

WithProof(P) == [known EXCEPT !.proof = P]

LEMMA ProofPrinted ==
    ASSUME TypeOK, SenseArchiveVerified
    PROVE  /\ UNCHANGED <<card, active, archive, sent, process, lock, happened>>
           /\ look' \in SUBSET Look
           /\ known' = known \/ \E P \in SUBSET Evidences : known' = WithProof(P)
           /\ known'.batch = known.batch /\ known'.token = known.token
           /\ Single => AtMostOne(known'.batch) /\ AtMostOne(known'.proof)
<1>0. ASSUME NEW P, known' = WithProof(P)
      PROVE  /\ known'.batch = known.batch /\ known'.token = known.token
             /\ Single /\ AtMostOne(P) => AtMostOne(known'.batch) /\ AtMostOne(known'.proof)
  BY <1>0 DEF WithProof, Single, TypeOK, Given
<1>1. /\ active \in SUBSET Record /\ look \in SUBSET Look
      /\ \A a \in Record : a.id \in SessionId
      /\ \A l \in Look : l.session \in Record /\ l.todo \subseteq Numbers
  BY DEF TypeOK, Record, Look
<1>2. CASE NothingToVerify
  <2> DEFINE P == UNION {archive[a.id].receipt : a \in Copied}
  <2>1. Copied \subseteq active
    BY DEF Copied
  <2>2. P \in SUBSET Evidences
    BY <1>1, <2>1 DEF Evidences
  <2>3. ASSUME Single PROVE AtMostOne(P)
    <3>1. AtMostOne(active) /\ \A i \in SessionId : AtMostOne(archive[i].receipt)
      BY <2>3 DEF Single
    <3>2. ASSUME NEW e \in P, NEW d \in P PROVE e = d
      <4>1. PICK a \in Copied : e \in archive[a.id].receipt
        OBVIOUS
      <4>2. PICK b \in Copied : d \in archive[b.id].receipt
        OBVIOUS
      <4>3. a = b /\ a.id \in SessionId
        BY <1>1, <2>1, <3>1 DEF AtMostOne
      <4> QED
        BY <3>1, <4>1, <4>2, <4>3 DEF AtMostOne
    <3> QED
      BY <3>2 DEF AtMostOne
  <2>4. known' = WithProof(P) /\ look' = look
    BY <1>2 DEF NothingToVerify, Sense, WithProof
  <2>5. Single => AtMostOne(known'.batch) /\ AtMostOne(known'.proof)
    BY <1>0, <2>3, <2>4
  <2> HIDE DEF P
  <2> QED
    BY <1>0, <1>1, <1>2, <2>2, <2>4, <2>5 DEF NothingToVerify, Sense
<1>3. CASE StartLook
  <2>1. PICK a \in Copied : look' = {[session |-> a, todo |-> DOMAIN a.batch.metas]}
    BY <1>3 DEF StartLook
  <2>2. a \in Record /\ DOMAIN a.batch.metas \subseteq Numbers
    BY <1>1, <2>1, DataTypes DEF Copied, Record
  <2>3. look' \in SUBSET Look
    BY <2>1, <2>2 DEF Look
  <2> QED
    BY <1>3, <2>3 DEF StartLook, Single
<1>4. CASE LookAtPhoto
  <2>1. PICK l \in look : look' = {[l EXCEPT !.todo = @ \ {Min(@)}]}
    BY <1>4 DEF LookAtPhoto
  <2>2. [l EXCEPT !.todo = @ \ {Min(@)}] \in Look
    BY <1>1, <2>1 DEF Look
  <2> QED
    BY <1>4, <2>1, <2>2 DEF LookAtPhoto, Single
<1>5. CASE PrintProof
  <2>1. PICK l \in look :
           known' = [known EXCEPT !.proof = IF l.todo = {} /\ SameInventory(l.session)
                                            THEN archive[l.session.id].manifest ELSE {}]
    BY <1>5 DEF PrintProof
  <2> DEFINE P == IF l.todo = {} /\ SameInventory(l.session)
                  THEN archive[l.session.id].manifest ELSE {}
  <2>2. l.session.id \in SessionId
    BY <1>1, <2>1
  <2>3. P \in SUBSET Evidences
    BY <2>2 DEF Evidences
  <2>4. Single => AtMostOne(P)
    BY <2>2 DEF Single, AtMostOne
  <2>5. known' = WithProof(P)
    BY <2>1 DEF WithProof
  <2>6. Single => AtMostOne(known'.batch) /\ AtMostOne(known'.proof)
    BY <1>0, <2>4, <2>5
  <2> HIDE DEF P
  <2> QED
    BY <1>0, <1>5, <2>3, <2>5, <2>6 DEF PrintProof
<1> QED
  BY <1>2, <1>3, <1>4, <1>5 DEF SenseArchiveVerified

LEMMA EvidenceTypes ==
    ASSUME TypeOK
    PROVE  Evidences \subseteq Manifest
  BY DEF TypeOK, Evidences

(* What a process does once it has the lock. *)
OpenedProcess(p) == [p EXCEPT !.at = Opened(p), !.session = active,
                              !.todo = UNION {DOMAIN b.metas : b \in p.given.batch}]

LEMMA Entering ==
    ASSUME NEW s \in Slot, Open(s)
    PROVE  /\ lock = {}
           /\ UNCHANGED <<card, active, archive, sent, happened>>
           /\ \E p \in process[s] :
                 /\ p.at = "lock"
                 /\ IF Opened(p) = "exit"
                    THEN Exits(s) /\ Forgets(s) /\ (look' = look \/ Ends(s))
                    ELSE /\ Goes(s, OpenedProcess(p)) /\ lock' = {s}
                         /\ known' = known /\ look' = look
  BY DEF Open, Enter, OpenedProcess

(* A photo that is verified leaves everything but what is still to do.     *)
LEMMA Verifying ==
    ASSUME NEW s \in Slot, VerifyPhoto(s)
    PROVE  /\ UNCHANGED <<card, active, archive, sent, known, look, lock, happened>>
           /\ \E p \in process[s] : \E a \in p.session :
                 /\ p.at \in {"verify", "verifyCopied"}
                 /\ Compares(a, p.todo)
                 /\ Goes(s, [p EXCEPT !.todo = @ \ {Min(@)}])
  BY DEF VerifyPhoto

(* The steps of a process. *)
LEMMA TypeCopy ==
    ASSUME TypeOK, NEW s \in Slot,
           Allocate(s) \/ SkipPhoto(s) \/ StagePhoto(s) \/ Journal(s) \/ Publish(s)
    PROVE  TypeOK'
<1>0. /\ MaxSessions \in Nat /\ active \in SUBSET Record /\ process \in [Slot -> SUBSET Process]
      /\ happened \in [change : Nat, insert : Nat, reset : Nat, cut : Nat, error : Nat,
                       session : 0..MaxSessions, disturbed : SUBSET SessionId]
  BY ArchiverAssumption DEF TypeOK
<1>1. CASE Allocate(s)
  <2>1. PICK p, b :
           /\ p \in process[s] /\ b \in p.given.batch
           /\ p.at = "allocate"
           /\ active' = {[id |-> happened.session + 1, batch |-> b, status |-> "copying",
                          files |-> <<>>, receipted |-> FALSE]}
           /\ Goes(s, [p EXCEPT !.at = "photos", !.session = active'])
    BY <1>1 DEF Allocate
  <2>2. p \in Process /\ b \in AllBatches
    BY <1>0, <2>1 DEF Process, Given
  <2>3. happened.session + 1 \in SessionId
    <3>1. happened.session < MaxSessions
      BY <1>1 DEF Allocate
    <3>2. happened.session \in 0..MaxSessions
      BY <1>0
    <3> QED
      BY <1>0, <3>1, <3>2 DEF SessionId
  <2>4. active' \in SUBSET Record
    BY <2>1, <2>2, <2>3, EmptyFiles DEF Record
  <2> DEFINE q == [p EXCEPT !.at = "photos", !.session = active']
  <2>5. q \in Process /\ q.at = "photos"
    BY <2>2, <2>4 DEF Process, OpenAt, CopyAt
  <2>6. happened' \in [change : Nat, insert : Nat, reset : Nat, cut : Nat, error : Nat,
                       session : 0..MaxSessions, disturbed : SUBSET SessionId]
    <3>1. happened.session + 1 \in 0..MaxSessions
      BY <1>0, <2>3 DEF SessionId
    <3> QED
      BY <1>0, <1>1, <3>1 DEF Allocate
  <2>7. Goes(s, q)
    BY <2>1
  <2> HIDE DEF q
  <2> QED
    BY <1>1, <2>4, <2>5, <2>6, <2>7, GoesType DEF TypeOK, Allocate
<1>2. CASE SkipPhoto(s)
  <2>1. PICK p, a, i :
           /\ p \in process[s] /\ a \in p.session /\ i \in p.todo
           /\ IsNext(p, a, i) /\ Goes(s, [p EXCEPT !.todo = @ \ {i}])
    BY <1>2 DEF SkipPhoto
  <2>2. /\ p \in Process /\ [p EXCEPT !.todo = @ \ {i}] \in Process
        /\ [p EXCEPT !.todo = @ \ {i}].at = "photos"
    BY <1>0, <2>1 DEF Process, IsNext
  <2> QED
    BY <1>2, <2>1, <2>2, GoesType DEF TypeOK, SkipPhoto
<1>3. CASE StagePhoto(s)
  <2>1. PICK p, a, i :
           /\ p \in process[s] /\ a \in p.session /\ i \in p.todo
           /\ IsNext(p, a, i)
           /\ Goes(s, [p EXCEPT !.at = "journal", !.entry = Source(i, a.batch.metas[i])])
    BY <1>3 DEF StagePhoto
  <2> DEFINE q == [p EXCEPT !.at = "journal", !.entry = Source(i, a.batch.metas[i])]
  <2>2. p \in Process /\ Source(i, a.batch.metas[i]) \subseteq AllData
    BY <1>0, <2>1, DataTypes
  <2>3. q \in Process /\ q.todo = p.todo /\ Min(q.todo) \in q.todo
    BY <2>1, <2>2 DEF Process, OpenAt, CopyAt, IsNext
  <2> QED
    BY <1>3, <2>1, <2>3, GoesType DEF TypeOK, StagePhoto
<1>4. CASE Journal(s)
  <2>1. PICK p, a, d :
           /\ p \in process[s] /\ a \in p.session /\ d \in p.entry
           /\ p.at = "journal"
           /\ active' = {[a EXCEPT !.files = WithEntry(@, Min(p.todo), d)]}
           /\ Goes(s, [p EXCEPT !.at = "publish",
                                !.session = {[a EXCEPT !.files = WithEntry(@, Min(p.todo), d)]}])
    BY <1>4 DEF Journal
  <2> DEFINE b == [a EXCEPT !.files = WithEntry(@, Min(p.todo), d)]
             q == [p EXCEPT !.at = "publish", !.session = {b}]
  <2>2. p \in Process /\ a \in Record /\ d \in AllData /\ Min(p.todo) \in p.todo
    BY <1>0, <2>1 DEF Process, TypeOK
  <2>3. WithEntry(a.files, Min(p.todo), d) \in Files
    BY <2>2, WithEntryType DEF Process, Record
  <2>4. b \in Record
    BY <2>2, <2>3 DEF Record
  <2>5. q \in Process /\ q.todo = p.todo
    BY <2>2, <2>4 DEF Process, OpenAt, CopyAt
  <2>6. Goes(s, q) /\ active' = {b}
    BY <2>1
  <2> HIDE DEF q, b
  <2> QED
    BY <1>4, <2>2, <2>4, <2>5, <2>6, GoesType DEF TypeOK, Journal
<1>5. CASE Publish(s)
  <2>1. PICK p, a, d :
           /\ p \in process[s] /\ a \in p.session /\ d \in p.entry
           /\ p.at = "publish"
           /\ archive' = [archive EXCEPT ![a.id].photos = WithEntry(@, Min(p.todo), d)]
           /\ Goes(s, [p EXCEPT !.at = "photos", !.todo = @ \ {Min(p.todo)}, !.entry = {}])
    BY <1>5 DEF Publish
  <2> DEFINE q == [p EXCEPT !.at = "photos", !.todo = @ \ {Min(p.todo)}, !.entry = {}]
  <2>2. p \in Process /\ a.id \in SessionId /\ d \in AllData /\ Min(p.todo) \in Numbers
    BY <1>0, <2>1 DEF Process, TypeOK, Record
  <2>3. WithEntry(archive[a.id].photos, Min(p.todo), d) \in Files
    BY <2>2, WithEntryType DEF TypeOK
  <2>4. archive' \in [SessionId -> [photos : Files, manifest : SUBSET Manifest,
                                    receipt : SUBSET Manifest]]
    <3> DEFINE f == WithEntry(archive[a.id].photos, Min(p.todo), d)
    <3>1. archive' = [archive EXCEPT ![a.id].photos = f]
      BY <2>1
    <3> HIDE DEF f, q
    <3> QED
      BY <3>1, <2>2, <2>3 DEF TypeOK, f
  <2>5. q \in Process /\ q.at = "photos"
    BY <2>2 DEF Process, OpenAt, CopyAt
  <2>6. Goes(s, q)
    BY <2>1
  <2> HIDE DEF q
  <2> QED
    BY <1>5, <2>4, <2>5, <2>6, GoesType DEF TypeOK, Publish
<1> QED
  BY <1>1, <1>2, <1>3, <1>4, <1>5

(* Where an action goes on, and on which conditions. *)
LEMMA OpenedAt ==
    ASSUME TypeOK, NEW p \in Process, Opened(p) # "exit"
    PROVE  \/ /\ p.action = "copy" /\ ~CopyRefused(p)
              /\ \/ Opened(p) = "allocate" /\ active = {}
                 \/ Opened(p) = "verifyCopied" /\ \E a \in active : a.status = "copied"
                 \/ Opened(p) = "photos" /\ active # {} /\ \A a \in active : a.status # "copied"
           \/ /\ p.action = "notify" /\ ~NotifyRefused(p)
              /\ \/ Opened(p) = "restore" /\ \E a \in active : archive[a.id].receipt # {}
                 \/ Opened(p) = "verify" /\ \A a \in active : archive[a.id].receipt = {}
           \/ /\ p.action = "reset" /\ Opened(p) = "unlink"
              /\ \E a \in active : a.id \in p.given.token
<1>1. CASE p.action = "copy"
  BY <1>1 DEF Opened
<1>2. CASE p.action = "notify"
  BY <1>2 DEF Opened
<1>3. CASE p.action = "reset"
  BY <1>3 DEF Opened
<1> QED
  BY <1>1, <1>2, <1>3 DEF Process

LEMMA TypeProcess ==
    ASSUME TypeOK, NEW s \in Slot,
           Begin(s) \/ Open(s) \/ WriteManifest(s) \/ VerifyPhoto(s) \/ VerifyAgain(s)
             \/ Submit(s) \/ WriteReceipt(s)
    PROVE  TypeOK'
<1>0. /\ active \in SUBSET Record /\ process \in [Slot -> SUBSET Process]
      /\ archive \in [SessionId -> [photos : Files, manifest : SUBSET Manifest,
                                    receipt : SUBSET Manifest]]
  BY DEF TypeOK
<1>1. \A p \in process[s] :
         /\ [p EXCEPT !.at = "lock"] \in Process /\ [p EXCEPT !.at = "lock"].at = "lock"
  BY <1>0 DEF Process
<1>2. CASE Begin(s)
  <2>1. PICK p :
           /\ p \in process[s]
           /\ \/ Goes(s, [p EXCEPT !.at = "lock"]) /\ UNCHANGED <<lock, known>>
              \/ Exits(s) /\ Forgets(s)
    BY <1>2 DEF Begin
  <2>2. UNCHANGED <<card, active, archive, sent, look, happened>>
    BY <1>2 DEF Begin
  <2>3. CASE Goes(s, [p EXCEPT !.at = "lock"]) /\ UNCHANGED <<lock, known>>
    BY <1>1, <2>1, <2>2, <2>3, GoesType DEF TypeOK
  <2>4. CASE Exits(s) /\ Forgets(s)
    BY <2>2, <2>4, ExitsType, ForgetsType DEF TypeOK
  <2> QED
    BY <2>1, <2>3, <2>4
<1>3. CASE VerifyPhoto(s)
  <2>1. PICK p \in process[s] : /\ p.at \in {"verify", "verifyCopied"}
                               /\ Goes(s, [p EXCEPT !.todo = @ \ {Min(@)}])
    BY <1>3, Verifying
  <2>2. /\ [p EXCEPT !.todo = @ \ {Min(@)}] \in Process
        /\ [p EXCEPT !.todo = @ \ {Min(@)}].at \notin {"journal", "publish"}
    BY <1>0, <2>1 DEF Process
  <2> QED
    BY <1>3, <2>1, <2>2, GoesType, Verifying DEF TypeOK
<1>4. CASE Open(s)
  <2>1. PICK p \in process[s] :
           /\ p.at = "lock"
           /\ IF Opened(p) = "exit"
              THEN Exits(s) /\ Forgets(s) /\ (look' = look \/ Ends(s))
              ELSE /\ Goes(s, OpenedProcess(p)) /\ lock' = {s}
                   /\ known' = known /\ look' = look
    BY <1>4, Entering
  <2>2. UNCHANGED <<card, active, archive, sent, happened>>
    BY <1>4, Entering
  <2>3. CASE Opened(p) = "exit"
    <3>1. known' \in Given /\ look' \in SUBSET Look
      BY <2>1, <2>3, ForgetsType DEF TypeOK
    <3> QED
      BY <2>1, <2>2, <2>3, <3>1, ExitsType DEF TypeOK
  <2>4. CASE Opened(p) # "exit"
    <3> DEFINE q == OpenedProcess(p)
    <3>1. p \in Process
      BY <1>0, <2>1
    <3>2. Opened(p) \in OpenAt \ {"journal", "publish"}
      BY <2>4, <3>1, OpenedAt DEF OpenAt, CopyAt, NotifyAt
    <3>3. UNION {DOMAIN b.metas : b \in p.given.batch} \subseteq Numbers
      BY <3>1, DataTypes DEF Process, Given
    <3>4. q \in Process /\ q.at \notin {"journal", "publish"}
      BY <1>0, <3>1, <3>2, <3>3 DEF Process, OpenedProcess
    <3>5. Goes(s, q) /\ lock' = {s} /\ UNCHANGED <<known, look>>
      BY <2>1, <2>4
    <3> HIDE DEF q
    <3> QED
      BY <2>2, <3>4, <3>5, GoesType DEF TypeOK
  <2> QED
    BY <2>1, <2>3, <2>4
<1>5. CASE WriteManifest(s)
  <2>1. PICK p, a :
           /\ p \in process[s] /\ a \in p.session
           /\ archive' = [archive EXCEPT ![a.id].manifest = {Evidence(a)}]
           /\ Goes(s, [p EXCEPT !.at = "markCopied"])
    BY <1>5 DEF WriteManifest
  <2>2. a \in Record
    BY <1>0, <2>1 DEF Process
  <2>3. Evidence(a) \in Manifest /\ a.id \in SessionId
    BY <2>2, DataTypes DEF Record
  <2>4. archive' \in [SessionId -> [photos : Files, manifest : SUBSET Manifest,
                                    receipt : SUBSET Manifest]]
    BY <1>0, <2>1, <2>3
  <2>5. [p EXCEPT !.at = "markCopied"] \in Process /\ [p EXCEPT !.at = "markCopied"].at = "markCopied"
    BY <1>0, <2>1 DEF Process, OpenAt, CopyAt
  <2> QED
    BY <1>5, <2>1, <2>4, <2>5, GoesType DEF TypeOK, WriteManifest
<1>6. CASE VerifyAgain(s)
  <2>1. PICK p : p \in process[s] /\ Goes(s, [p EXCEPT !.at = "submit"])
    BY <1>6 DEF VerifyPhoto, VerifyAgain
  <2>2. [p EXCEPT !.at = "submit"] \in Process /\ [p EXCEPT !.at = "submit"].at = "submit"
    BY <1>0, <2>1 DEF Process, OpenAt, NotifyAt
  <2> QED
    BY <1>6, <2>1, <2>2, GoesType DEF TypeOK, VerifyPhoto, VerifyAgain
<1>7. CASE Submit(s)
  <2>1. PICK p, a :
           /\ p \in process[s] /\ a \in p.session
           /\ sent' = [sent EXCEPT ![a.id] = @ + 1]
           /\ Goes(s, [p EXCEPT !.at = "receipt"])
    BY <1>7 DEF Submit
  <2>2. sent' \in [SessionId -> Nat]
    <3>1. sent \in [SessionId -> Nat]
      BY DEF TypeOK
    <3>2. \A i \in SessionId : sent[i] + 1 \in Nat
      BY <3>1
    <3> QED
      BY <2>1, <3>1, <3>2
  <2>3. [p EXCEPT !.at = "receipt"] \in Process /\ [p EXCEPT !.at = "receipt"].at = "receipt"
    BY <1>0, <2>1 DEF Process, OpenAt, NotifyAt
  <2> QED
    BY <1>7, <2>1, <2>2, <2>3, GoesType DEF TypeOK, Submit
<1>8. CASE WriteReceipt(s)
  <2>1. PICK p, a :
           /\ p \in process[s] /\ a \in p.session
           /\ archive' = [archive EXCEPT ![a.id].receipt = p.given.proof]
           /\ Goes(s, [p EXCEPT !.at = "record"])
    BY <1>8 DEF WriteReceipt
  <2>2. a.id \in SessionId /\ p.given.proof \subseteq Manifest
    BY <1>0, <2>1 DEF Process, Record, Given
  <2>3. archive' \in [SessionId -> [photos : Files, manifest : SUBSET Manifest,
                                    receipt : SUBSET Manifest]]
    BY <1>0, <2>1, <2>2
  <2>4. [p EXCEPT !.at = "record"] \in Process /\ [p EXCEPT !.at = "record"].at = "record"
    BY <1>0, <2>1 DEF Process, OpenAt, NotifyAt
  <2> QED
    BY <1>8, <2>1, <2>3, <2>4, GoesType DEF TypeOK, WriteReceipt
<1> QED
  BY <1>2, <1>3, <1>4, <1>5, <1>6, <1>7, <1>8

LEMMA RecordUpdates ==
    ASSUME NEW a \in Record
    PROVE  /\ [a EXCEPT !.status = "copied"] \in Record
           /\ [a EXCEPT !.receipted = TRUE] \in Record
           /\ [a EXCEPT !.status = "failed", !.receipted = FALSE] \in Record
<1>1. [a EXCEPT !.status = "copied"] \in Record
  BY DEF Record
<1>2. [a EXCEPT !.status = "failed"] \in Record
  BY DEF Record
<1>3. \A r \in Record : [r EXCEPT !.receipted = TRUE] \in Record
                        /\ [r EXCEPT !.receipted = FALSE] \in Record
  BY DEF Record
<1>4. [a EXCEPT !.status = "failed", !.receipted = FALSE]
      = [[a EXCEPT !.status = "failed"] EXCEPT !.receipted = FALSE]
  BY DEF Record
<1> QED
  BY <1>1, <1>2, <1>3, <1>4

LEMMA TypeEnd ==
    ASSUME TypeOK, NEW s \in Slot,
           MarkCopied(s) \/ AlreadyCopied(s) \/ RecordReceipt(s) \/ Unlink(s) \/ Fails(s)
             \/ IOError(s) \/ CutShort(s)
    PROVE  TypeOK'
<1>0. /\ active \in SUBSET Record /\ process \in [Slot -> SUBSET Process]
      /\ happened \in [change : Nat, insert : Nat, reset : Nat, cut : Nat, error : Nat,
                       session : 0..MaxSessions, disturbed : SUBSET SessionId]
  BY DEF TypeOK
<1>1. \A p \in process[s] : \A a \in p.session : a \in Record
  BY <1>0 DEF Process
<1>3. CASE MarkCopied(s)
  BY <1>1, <1>3, RecordUpdates, ExitsType DEF TypeOK, MarkCopied
<1>4. CASE AlreadyCopied(s)
  BY <1>4, ExitsType DEF TypeOK, AlreadyCopied
<1>5. CASE RecordReceipt(s)
  BY <1>1, <1>5, RecordUpdates, ExitsType DEF TypeOK, RecordReceipt
<1>6. CASE Unlink(s)
  BY <1>6, ExitsType, ForgetsType DEF TypeOK, Unlink
<1>7. CASE Fails(s)
  BY <1>0, <1>7, RecordUpdates, ExitsType DEF TypeOK, Fails, MarkFailed
<1>8. CASE IOError(s)
  <2>1. happened' \in [change : Nat, insert : Nat, reset : Nat, cut : Nat, error : Nat,
                       session : 0..MaxSessions, disturbed : SUBSET SessionId]
    BY <1>0, <1>8 DEF IOError, Trouble
  <2>2. MarkFailed(s)
    BY <1>8 DEF IOError
  <2> QED
    <3>1. active' \in SUBSET Record /\ Exits(s)
      BY <1>0, <2>2, RecordUpdates DEF MarkFailed
    <3>2. UNCHANGED <<card, archive, sent, known, look>>
      BY <2>2 DEF MarkFailed
    <3> QED
      BY <2>1, <3>1, <3>2, ExitsType DEF TypeOK
<1>9. CASE CutShort(s)
  <2>1. happened' \in [change : Nat, insert : Nat, reset : Nat, cut : Nat, error : Nat,
                       session : 0..MaxSessions, disturbed : SUBSET SessionId]
    BY <1>0, <1>9 DEF CutShort, Trouble, EndsUnrecorded
  <2> QED
    BY <1>9, <2>1, ExitsType, ForgetsType DEF TypeOK, CutShort, Trouble, EndsUnrecorded
<1> QED
  BY <1>3, <1>4, <1>5, <1>6, <1>7, <1>8, <1>9

(* A process that is launched. *)
LEMMA StartsType ==
    ASSUME TypeOK, NEW s \in Slot, NEW action \in {"copy", "notify", "reset"}, NEW g \in Given,
           Starts(s, action, g)
    PROVE  /\ process' \in [Slot -> SUBSET Process]
           /\ \A t \in Slot : \A p \in process'[t] :
                 p.at \in {"journal", "publish"} => Min(p.todo) \in p.todo
           /\ UNCHANGED <<card, active, archive, sent, known, look, lock>>
<1> DEFINE q == [action |-> action, at |-> "start", given |-> g,
                 session |-> {}, todo |-> {}, entry |-> {}]
<1>1. q \in Process /\ q.at = "start"
  BY DEF Process
<1>2. process' = [process EXCEPT ![s] = {q}] /\ process \in [Slot -> SUBSET Process]
  BY DEF Starts, TypeOK
<1> HIDE DEF q
<1>3. process' \in [Slot -> SUBSET Process]
  BY <1>1, <1>2
<1>4. \A t \in Slot : process'[t] = IF t = s THEN {q} ELSE process[t]
  BY <1>2
<1>5. \A t \in Slot : \A p \in process'[t] :
         p.at \in {"journal", "publish"} => Min(p.todo) \in p.todo
  BY <1>1, <1>4 DEF TypeOK
<1> QED
  BY <1>3, <1>5 DEF Starts

LEMMA TypeOthers ==
    ASSUME TypeOK,
           \/ SensePhotoBatch \/ SenseArchiveVerified \/ SenseSessionObsolete
           \/ Daemon \/ OperatorResets \/ KillDaemon \/ ChangeCard
    PROVE  TypeOK'
<1>0. /\ known \in Given /\ active \in SUBSET Record /\ process \in [Slot -> SUBSET Process]
      /\ happened \in [change : Nat, insert : Nat, reset : Nat, cut : Nat, error : Nat,
                       session : 0..MaxSessions, disturbed : SUBSET SessionId]
  BY DEF TypeOK
<1>1. CASE SensePhotoBatch
  <2>1. {b \in Batches : IsCurrent(b)} \subseteq AllBatches
    BY DataTypes
  <2>2. known' \in Given
    BY <1>0, <1>1, <2>1 DEF SensePhotoBatch, Sense, Given
  <2> QED
    BY <1>1, <2>2 DEF TypeOK, SensePhotoBatch, Sense
<1>2. CASE SenseArchiveVerified
  <2>1. known' \in Given /\ look' \in SUBSET Look
    <3>1. \A P \in SUBSET Evidences : WithProof(P) \in Given
      BY <1>0, EvidenceTypes DEF Given, WithProof
    <3>2. look' \in SUBSET Look
      BY <1>2, ProofPrinted
    <3>3. known' = known \/ \E P \in SUBSET Evidences : known' = WithProof(P)
      BY <1>2, ProofPrinted
    <3>4. CASE known' = known
      BY <1>0, <3>2, <3>4
    <3>5. CASE \E P \in SUBSET Evidences : known' = WithProof(P)
      BY <3>1, <3>2, <3>5
    <3> QED
      BY <3>3, <3>4, <3>5
  <2> QED
    BY <1>2, <2>1, ProofPrinted DEF TypeOK
<1>3. CASE SenseSessionObsolete
  <2>1. {a.id : a \in {a \in active : ~Matches(a)}} \subseteq SessionId
    BY <1>0 DEF Record
  <2>2. known' \in Given
    BY <1>0, <1>3, <2>1 DEF SenseSessionObsolete, Sense, Given
  <2> QED
    BY <1>3, <2>2 DEF TypeOK, SenseSessionObsolete, Sense
<1>4. CASE Daemon
  <2>1. PICK action \in {"copy", "notify", "reset"} : Launch(action)
    BY <1>4 DEF Daemon, LaunchCopy, LaunchNotify, LaunchReset
  <2>2. Starts("child", action, known) /\ UNCHANGED happened
    BY <2>1 DEF Launch
  <2> QED
    BY <1>0, <2>2, StartsType DEF TypeOK, Slot
<1>5. CASE OperatorResets
  <2>1. PICK a \in active : Starts("orphan", "reset", [Nothing EXCEPT !.token = {a.id}])
    BY <1>5 DEF OperatorResets, Trouble
  <2>2. [Nothing EXCEPT !.token = {a.id}] \in Given
    BY <1>0, <2>1 DEF Nothing, Given, Record
  <2>3. happened' \in [change : Nat, insert : Nat, reset : Nat, cut : Nat, error : Nat,
                       session : 0..MaxSessions, disturbed : SUBSET SessionId]
    BY <1>0, <1>5 DEF OperatorResets, Trouble
  <2> QED
    BY <2>1, <2>2, <2>3, StartsType DEF TypeOK, Slot
<1>6. CASE KillDaemon
  <2>1. happened' \in [change : Nat, insert : Nat, reset : Nat, cut : Nat, error : Nat,
                       session : 0..MaxSessions, disturbed : SUBSET SessionId]
    BY <1>0, <1>6 DEF KillDaemon, Trouble
  <2>2. process' = [process EXCEPT !["orphan"] = process["child"], !["child"] = {}]
    BY <1>6 DEF KillDaemon, Trouble
  <2>3. process' \in [Slot -> SUBSET Process]
    BY <1>0, <2>2 DEF Slot
  <2>4. process'["orphan"] = process["child"] /\ process'["child"] = {}
    BY <1>0, <2>2 DEF Slot
  <2>5. lock' \in SUBSET Slot
    BY <1>6 DEF KillDaemon, Trouble, TypeOK, Slot
  <2>6. \A t \in Slot : \A p \in process'[t] :
                 p.at \in {"journal", "publish"} => Min(p.todo) \in p.todo
    BY <2>4 DEF TypeOK, Slot
  <2> QED
    BY <1>6, <2>1, <2>3, <2>5, <2>6, NothingType DEF TypeOK, KillDaemon, Trouble
<1>7. CASE ChangeCard
  <2>1. card' \in SUBSET Cards
    BY <1>7 DEF ChangeCard
  <2>2. happened' \in [change : Nat, insert : Nat, reset : Nat, cut : Nat, error : Nat,
                       session : 0..MaxSessions, disturbed : SUBSET SessionId]
    <3>1. PICK n : /\ n = happened.insert \/ n = happened.insert + 1
                   /\ happened' = [happened EXCEPT !.change = @ + 1, !.insert = n,
                                                   !.disturbed = @ \cup BeingVerified]
      BY <1>7 DEF ChangeCard
    <3>2. n \in Nat /\ BeingVerified \subseteq SessionId
      BY <1>0, <3>1 DEF BeingVerified, Process, Record
    <3> DEFINE History == [change : Nat, insert : Nat, reset : Nat, cut : Nat, error : Nat,
                           session : 0..MaxSessions, disturbed : SUBSET SessionId]
               h == [happened EXCEPT !.change = @ + 1]
               k == [h EXCEPT !.insert = n]
    <3>3. h \in History
      BY <1>0
    <3>4. k \in History
      BY <3>2, <3>3
    <3>5. [k EXCEPT !.disturbed = @ \cup BeingVerified] \in History
      BY <3>2, <3>4
    <3> QED
      BY <1>0, <3>1, <3>5
  <2> QED
    BY <1>7, <2>1, <2>2 DEF TypeOK, ChangeCard
<1> QED
  BY <1>1, <1>2, <1>3, <1>4, <1>5, <1>6, <1>7

LEMMA TypeInit == Init => TypeOK
<1>1. ASSUME Init PROVE TypeOK
  <2>1. happened \in [change : Nat, insert : Nat, reset : Nat, cut : Nat, error : Nat,
                      session : 0..MaxSessions, disturbed : SUBSET SessionId]
    BY <1>1, ArchiverAssumption DEF Init
  <2>2. archive \in [SessionId -> [photos : Files, manifest : SUBSET Manifest,
                                   receipt : SUBSET Manifest]]
    BY <1>1, EmptyFiles DEF Init
  <2>3. process \in [Slot -> SUBSET Process] /\ \A s \in Slot : process[s] = {}
    BY <1>1 DEF Init
  <2> QED
    BY <1>1, <2>1, <2>2, <2>3, NothingType DEF Init, TypeOK
<1> QED
  BY <1>1

LEMMA TypeNext == TypeOK /\ [Next]_vars => TypeOK'
<1>1. CASE TypeOK /\ UNCHANGED vars
  BY <1>1 DEF vars, TypeOK
<1>2. CASE TypeOK /\ Next
  BY <1>2, TypeCopy, TypeProcess, TypeEnd, TypeOthers DEF Next, Step
<1> QED
  BY <1>1, <1>2

(* Every record, manifest, receipt and process is one of the card's.       *)
THEOREM ArchiverTypes == Spec => []TypeOK
<1> QED
  BY TypeInit, TypeNext, PTL DEF Spec

-----------------------------------------------------------------------------
(* What a step does to the processes. *)

LEMMA GoesTo ==
    ASSUME TypeOK, NEW s \in Slot, NEW q, Goes(s, q)
    PROVE  \A t \in Slot : process'[t] = IF t = s THEN {q} ELSE process[t]
BY DEF TypeOK, Goes

LEMMA ExitsTo ==
    ASSUME TypeOK, NEW s \in Slot, Exits(s)
    PROVE  /\ \A t \in Slot : process'[t] = IF t = s THEN {} ELSE process[t]
           /\ lock' = lock \ {s}
BY DEF TypeOK, Exits

(* A process that has started, with what it was given.                     *)
Started(action, g) == [action |-> action, at |-> "start", given |-> g,
                       session |-> {}, todo |-> {}, entry |-> {}]

LEMMA StartsTo ==
    ASSUME TypeOK, NEW s \in Slot, NEW action, NEW g, Starts(s, action, g)
    PROVE  \A t \in Slot : process'[t] = IF t = s THEN {Started(action, g)} ELSE process[t]
<1>1. process' = [process EXCEPT ![s] = {Started(action, g)}] /\ process \in [Slot -> SUBSET Process]
  BY DEF Starts, Started, TypeOK
<1> QED
  BY <1>1

LEMMA KillTo ==
    ASSUME TypeOK, KillDaemon
    PROVE  /\ process["orphan"] = {}
           /\ process'["orphan"] = process["child"] /\ process'["child"] = {}
           /\ lock' = IF "child" \in lock THEN {"orphan"} ELSE lock
           /\ known' = Nothing
           /\ UNCHANGED <<card, active, archive, sent>>
BY DEF TypeOK, KillDaemon, Trouble, Slot

(* A step of a process that holds the lock: nobody else is inside.         *)
LEMMA Alone ==
    ASSUME Locked, NEW s \in Slot, NEW p \in process[s], p.at \notin {"start", "lock"}
    PROVE  /\ lock = {s}
           /\ \A t \in Slot \ {s} : \A q \in process[t] : q.at \in {"start", "lock"}
BY DEF Locked

LEMMA LockedMoves ==
    ASSUME TypeOK, SingleProcess, Locked, NEW s \in Slot, NEW p \in process[s], NEW q,
           Goes(s, q), q.given = p.given, lock' = lock, p.at \notin {"start", "lock"},
           q.at \in OpenAt, q.session = active', Fits(q)
    PROVE  Locked' /\ SingleProcess'
<1>1. /\ lock = {s}
      /\ \A t \in Slot \ {s} : \A r \in process[t] : r.at \in {"start", "lock"}
  BY Alone
<1>2. \A t \in Slot : process'[t] = IF t = s THEN {q} ELSE process[t]
  BY GoesTo
<1>3. \A t \in Slot \ {s} : \A r \in process[t] : r.at \notin OpenAt
  BY <1>1 DEF OpenAt, CopyAt, NotifyAt
<1>4. Locked'
  BY <1>1, <1>2, <1>3 DEF Locked, Fits
<1>5. SingleProcess'
  BY <1>2 DEF SingleProcess, AtMostOne
<1> QED
  BY <1>4, <1>5

LEMMA LockedOpens ==
    ASSUME TypeOK, SingleProcess, Locked, NEW s \in Slot, NEW p \in process[s], NEW q,
           Goes(s, q), q.given = p.given, lock = {}, lock' = {s}, active' = active,
           q.at \in OpenAt, q.session = active, Fits(q)
    PROVE  Locked' /\ SingleProcess'
<1>1. \A t \in Slot : process'[t] = IF t = s THEN {q} ELSE process[t]
  BY GoesTo
<1>2. \A t \in Slot : \A r \in process[t] : r.at \in {"start", "lock"} /\ r.at \notin OpenAt
  BY DEF Locked, OpenAt, CopyAt, NotifyAt
<1>3. Locked'
  BY <1>1, <1>2 DEF Locked, Fits
<1>4. SingleProcess'
  BY <1>1 DEF SingleProcess, AtMostOne
<1> QED
  BY <1>3, <1>4

LEMMA LockedExits ==
    ASSUME TypeOK, SingleProcess, Locked, NEW s \in Slot, Exits(s),
           active' = active \/ \E p \in process[s] : p.at \notin {"start", "lock"}
    PROVE  Locked' /\ SingleProcess'
<1>1. /\ \A t \in Slot : process'[t] = IF t = s THEN {} ELSE process[t]
      /\ lock' = lock \ {s}
  BY ExitsTo
<1>2. SingleProcess'
  BY <1>1 DEF SingleProcess, AtMostOne
<1>3. ASSUME NEW t \in Slot, NEW r \in process'[t]
      PROVE  /\ r.at \notin {"start", "lock"} => lock' = {t}
             /\ r.at \in OpenAt => r.session = active'
             /\ Fits(r)
  <2>1. t # s /\ r \in process[t]
    BY <1>1, <1>3
  <2>2. CASE r.at \in {"start", "lock"}
    BY <2>1, <2>2 DEF Locked, OpenAt, CopyAt, NotifyAt
  <2>3. CASE r.at \notin {"start", "lock"}
    <3>1. lock = {t} /\ active' = active
      BY <2>1, <2>3, Alone
    <3> QED
      BY <1>1, <2>1, <3>1 DEF Locked
  <2> QED
    BY <2>2, <2>3
<1> QED
  BY <1>2, <1>3 DEF Locked

-----------------------------------------------------------------------------
(* One of each, and the lock. *)

LEMMA AtHand ==
    ASSUME TypeOK, Single, SingleProcess, Locked, NEW s \in Slot, NEW p \in process[s],
           NEW a \in p.session, p.at \in OpenAt
    PROVE  /\ p \in Process /\ a \in Record /\ a.id \in SessionId
           /\ active = {a} /\ p.session = {a} /\ process[s] = {p} /\ lock = {s}
           /\ p.at \notin {"start", "lock"}
<1>1. p \in Process /\ p.at \notin {"start", "lock"}
  BY DEF TypeOK, OpenAt, CopyAt, NotifyAt
<1>2. p.session = active /\ lock = {s} /\ a \in Record /\ a.id \in SessionId
  BY <1>1 DEF Locked, Process, Record
<1>3. active = {a} /\ process[s] = {p}
  BY <1>2 DEF Single, SingleProcess, AtMostOne
<1> QED
  BY <1>1, <1>2, <1>3

Disc == Single /\ SingleProcess /\ Locked

LEMMA DiscCopy ==
    ASSUME TypeOK, Disc, NEW s \in Slot,
           Allocate(s) \/ SkipPhoto(s) \/ StagePhoto(s) \/ Journal(s) \/ Publish(s)
    PROVE  Disc'
<1> USE DEF Disc
<1>1. CASE Allocate(s)
  <2>1. PICK p, b :
           /\ p \in process[s] /\ b \in p.given.batch
           /\ p.at = "allocate"
           /\ active' = {[id |-> happened.session + 1, batch |-> b, status |-> "copying",
                          files |-> <<>>, receipted |-> FALSE]}
           /\ Goes(s, [p EXCEPT !.at = "photos", !.session = active'])
    BY <1>1 DEF Allocate
  <2> DEFINE q == [p EXCEPT !.at = "photos", !.session = active']
  <2>2. p \in Process /\ Fits(p)
    BY <2>1 DEF TypeOK, Locked
  <2>3. q.given = p.given /\ q.at = "photos" /\ q.session = active' /\ q.action = p.action
    BY <2>2 DEF Process
  <2>4. Fits(q)
    BY <2>1, <2>2, <2>3 DEF Fits, CopyAt, NotifyAt
  <2>5. Goes(s, q) /\ UNCHANGED <<card, archive, known, lock>>
    BY <1>1, <2>1 DEF Allocate
  <2> HIDE DEF q
  <2>6. Locked' /\ SingleProcess'
    BY <2>1, <2>3, <2>4, <2>5, LockedMoves DEF OpenAt, CopyAt
  <2>7. Single'
    BY <2>1, <2>5 DEF Single, AtMostOne
  <2> QED
    BY <2>6, <2>7
<1>2. CASE SkipPhoto(s)
  <2>1. PICK p, i :
           /\ p \in process[s] /\ p.at = "photos"
           /\ Goes(s, [p EXCEPT !.todo = @ \ {i}])
    BY <1>2 DEF SkipPhoto, IsNext
  <2> DEFINE q == [p EXCEPT !.todo = @ \ {i}]
  <2>2. p \in Process /\ Fits(p) /\ p.session = active
    BY <2>1 DEF TypeOK, Locked, OpenAt, CopyAt
  <2>3. q.given = p.given /\ q.at = "photos" /\ q.session = active /\ q.action = p.action
    BY <2>1, <2>2 DEF Process
  <2>4. Fits(q)
    BY <2>1, <2>2, <2>3 DEF Fits, CopyAt, NotifyAt
  <2>5. Goes(s, q) /\ UNCHANGED <<card, active, archive, known, lock>>
    BY <1>2, <2>1 DEF SkipPhoto
  <2> HIDE DEF q
  <2>6. Locked' /\ SingleProcess'
    BY <2>1, <2>3, <2>4, <2>5, LockedMoves DEF OpenAt, CopyAt
  <2>7. Single'
    BY <2>5 DEF Single
  <2> QED
    BY <2>6, <2>7
<1>3. CASE StagePhoto(s)
  <2>1. PICK p, e :
           /\ p \in process[s] /\ p.at = "photos"
           /\ Goes(s, [p EXCEPT !.at = "journal", !.entry = e])
    BY <1>3 DEF StagePhoto, IsNext
  <2> DEFINE q == [p EXCEPT !.at = "journal", !.entry = e]
  <2>2. p \in Process /\ Fits(p) /\ p.session = active
    BY <2>1 DEF TypeOK, Locked, OpenAt, CopyAt
  <2>3. q.given = p.given /\ q.at = "journal" /\ q.session = active /\ q.action = p.action
    BY <2>1, <2>2 DEF Process
  <2>4. Fits(q)
    BY <2>1, <2>2, <2>3 DEF Fits, CopyAt, NotifyAt
  <2>5. Goes(s, q) /\ UNCHANGED <<card, active, archive, known, lock>>
    BY <1>3, <2>1 DEF StagePhoto
  <2> HIDE DEF q
  <2>6. Locked' /\ SingleProcess'
    BY <2>1, <2>3, <2>4, <2>5, LockedMoves DEF OpenAt, CopyAt
  <2>7. Single'
    BY <2>5 DEF Single
  <2> QED
    BY <2>6, <2>7
<1>4. CASE Journal(s)
  <2>1. PICK p, b :
           /\ p \in process[s] /\ p.at = "journal" /\ active' = {b}
           /\ Goes(s, [p EXCEPT !.at = "publish", !.session = {b}])
    BY <1>4 DEF Journal
  <2> DEFINE q == [p EXCEPT !.at = "publish", !.session = {b}]
  <2>2. p \in Process /\ Fits(p)
    BY <2>1 DEF TypeOK, Locked
  <2>3. q.given = p.given /\ q.at = "publish" /\ q.session = active' /\ q.action = p.action
    BY <2>1, <2>2 DEF Process
  <2>4. Fits(q)
    BY <2>1, <2>2, <2>3 DEF Fits, CopyAt, NotifyAt
  <2>5. Goes(s, q) /\ UNCHANGED <<card, archive, known, lock>>
    BY <1>4, <2>1 DEF Journal
  <2> HIDE DEF q
  <2>6. Locked' /\ SingleProcess'
    BY <2>1, <2>3, <2>4, <2>5, LockedMoves DEF OpenAt, CopyAt
  <2>7. Single'
    BY <2>1, <2>5 DEF Single, AtMostOne
  <2> QED
    BY <2>6, <2>7
<1>5. CASE Publish(s)
  <2>1. PICK p, a, d, i :
           /\ p \in process[s] /\ a \in p.session /\ p.at = "publish"
           /\ archive' = [archive EXCEPT ![a.id].photos = WithEntry(@, i, d)]
           /\ Goes(s, [p EXCEPT !.at = "photos", !.todo = @ \ {i}, !.entry = {}])
    BY <1>5 DEF Publish
  <2> DEFINE q == [p EXCEPT !.at = "photos", !.todo = @ \ {i}, !.entry = {}]
  <2>2. p \in Process /\ Fits(p) /\ p.session = active
    BY <2>1 DEF TypeOK, Locked, OpenAt, CopyAt
  <2>3. q.given = p.given /\ q.at = "photos" /\ q.session = active /\ q.action = p.action
    BY <2>2 DEF Process
  <2>4. Fits(q)
    BY <2>1, <2>2, <2>3 DEF Fits, CopyAt, NotifyAt
  <2>5. Goes(s, q) /\ UNCHANGED <<card, active, known, lock>>
    BY <1>5, <2>1 DEF Publish
  <2> HIDE DEF q
  <2>6. Locked' /\ SingleProcess'
    BY <2>1, <2>3, <2>4, <2>5, LockedMoves DEF OpenAt, CopyAt
  <2>7. \A j \in SessionId : /\ archive'[j].manifest = archive[j].manifest
                             /\ archive'[j].receipt = archive[j].receipt
    BY <2>1 DEF TypeOK
  <2>8. Single'
    BY <2>5, <2>7 DEF Single
  <2> QED
    BY <2>6, <2>8
<1> QED
  BY <1>1, <1>2, <1>3, <1>4, <1>5

LEMMA DiscProcess ==
    ASSUME TypeOK, Disc, NEW s \in Slot,
           Begin(s) \/ Open(s) \/ WriteManifest(s) \/ VerifyPhoto(s) \/ VerifyAgain(s)
             \/ Submit(s) \/ WriteReceipt(s)
    PROVE  Disc'
<1> USE DEF Disc
<1>1. CASE Begin(s)
  <2>1. PICK p :
           /\ p \in process[s] /\ p.at = "start"
           /\ \/ Goes(s, [p EXCEPT !.at = "lock"]) /\ UNCHANGED <<lock, known>>
              \/ Exits(s) /\ Forgets(s)
    BY <1>1 DEF Begin
  <2>2. UNCHANGED <<card, active, archive, sent, happened>>
    BY <1>1 DEF Begin
  <2>3. CASE Goes(s, [p EXCEPT !.at = "lock"]) /\ UNCHANGED <<lock, known>>
    <3> DEFINE q == [p EXCEPT !.at = "lock"]
    <3>1. p \in Process
      BY <2>1 DEF TypeOK
    <3>2. q.at = "lock" /\ q.given = p.given
      BY <3>1 DEF Process
    <3>3. \A t \in Slot : process'[t] = IF t = s THEN {q} ELSE process[t]
      BY <2>3, GoesTo
    <3> HIDE DEF q
    <3>4. Locked'
      BY <2>2, <2>3, <3>2, <3>3 DEF Locked, Fits, OpenAt, CopyAt, NotifyAt
    <3>5. SingleProcess'
      BY <2>1, <3>2, <3>3 DEF SingleProcess, AtMostOne
    <3>6. Single'
      BY <2>2, <2>3 DEF Single
    <3> QED
      BY <3>4, <3>5, <3>6
  <2>4. CASE Exits(s) /\ Forgets(s)
    <3>1. Locked' /\ SingleProcess'
      BY <2>2, <2>4, LockedExits
    <3>2. lock' = lock \ {s} /\ (known' = known \/ known' = Nothing)
      BY <2>4 DEF Exits, Forgets
    <3>3. Single'
      BY <2>2, <3>2 DEF Single, AtMostOne, Nothing
    <3> QED
      BY <3>1, <3>3
  <2> QED
    BY <2>1, <2>3, <2>4
<1>2. CASE VerifyPhoto(s)
  <2>1. PICK p \in process[s] : /\ p.at \in {"verify", "verifyCopied"}
                               /\ Goes(s, [p EXCEPT !.todo = @ \ {Min(@)}])
    BY <1>2, Verifying
  <2> DEFINE q == [p EXCEPT !.todo = @ \ {Min(@)}]
  <2>2. p \in Process /\ Fits(p) /\ p.session = active
    BY <2>1 DEF TypeOK, Locked, OpenAt, CopyAt, NotifyAt
  <2>3. q.given = p.given /\ q.at = p.at /\ q.session = active /\ q.action = p.action
    BY <2>2 DEF Process
  <2>4. Fits(q)
    BY <2>2, <2>3 DEF Fits
  <2>5. Goes(s, q) /\ UNCHANGED <<card, active, archive, known, lock>>
    BY <1>2, <2>1, Verifying
  <2> HIDE DEF q
  <2>6. Locked' /\ SingleProcess'
    BY <2>1, <2>3, <2>4, <2>5, LockedMoves DEF OpenAt, CopyAt, NotifyAt
  <2>7. Single'
    BY <2>5 DEF Single
  <2> QED
    BY <2>6, <2>7
<1>3. CASE Open(s)
  <2>1. PICK p \in process[s] :
           /\ p.at = "lock"
           /\ IF Opened(p) = "exit"
              THEN Exits(s) /\ Forgets(s) /\ (look' = look \/ Ends(s))
              ELSE /\ Goes(s, OpenedProcess(p)) /\ lock' = {s}
                   /\ known' = known /\ look' = look
    BY <1>3, Entering
  <2>2. lock = {} /\ UNCHANGED <<card, active, archive, sent, happened>>
    BY <1>3, Entering
  <2>3. CASE Opened(p) = "exit"
    <3>1. Locked' /\ SingleProcess'
      BY <2>1, <2>2, <2>3, LockedExits
    <3>2. lock' = lock \ {s} /\ (known' = known \/ known' = Nothing)
      BY <2>1, <2>3 DEF Exits, Forgets
    <3>3. Single'
      BY <2>2, <3>2 DEF Single, AtMostOne, Nothing
    <3> QED
      BY <3>1, <3>3
  <2>4. CASE Opened(p) # "exit"
    <3> DEFINE l == Opened(p)
               q == OpenedProcess(p)
    <3>1. p \in Process
      BY <2>1 DEF TypeOK
    <3>2. /\ l \in OpenAt
          /\ l \in CopyAt => p.action = "copy"
          /\ l \in NotifyAt => p.action = "notify"
          /\ l = "unlink" => p.action = "reset"
      BY <2>4, <3>1, OpenedAt DEF OpenAt, CopyAt, NotifyAt
    <3> HIDE DEF l
    <3>3. q.at = l /\ q.given = p.given /\ q.session = active /\ q.action = p.action
      BY <3>1 DEF Process, OpenedProcess, l
    <3>4. Goes(s, q) /\ lock' = {s} /\ known' = known
      BY <2>1, <2>4
    <3> HIDE DEF q
    <3>5. Fits(q)
      BY <3>2, <3>3 DEF Fits
    <3>6. Locked' /\ SingleProcess'
      BY <2>1, <2>2, <3>2, <3>3, <3>4, <3>5, LockedOpens
    <3>7. Single'
      BY <2>2, <3>4 DEF Single, AtMostOne
    <3> QED
      BY <3>6, <3>7
  <2> QED
    BY <2>3, <2>4
<1>4. CASE WriteManifest(s)
  <2>1. PICK p, a :
           /\ p \in process[s] /\ a \in p.session /\ p.at = "photos"
           /\ archive' = [archive EXCEPT ![a.id].manifest = {Evidence(a)}]
           /\ Goes(s, [p EXCEPT !.at = "markCopied"])
    BY <1>4 DEF WriteManifest
  <2> DEFINE q == [p EXCEPT !.at = "markCopied"]
  <2>2. p \in Process /\ Fits(p) /\ p.session = active
    BY <2>1 DEF TypeOK, Locked, OpenAt, CopyAt
  <2>3. q.given = p.given /\ q.at = "markCopied" /\ q.session = active /\ q.action = p.action
    BY <2>2 DEF Process
  <2>4. Fits(q)
    BY <2>1, <2>2, <2>3 DEF Fits, CopyAt, NotifyAt
  <2>5. Goes(s, q) /\ UNCHANGED <<card, active, known, lock>>
    BY <1>4, <2>1 DEF WriteManifest
  <2> HIDE DEF q
  <2>6. Locked' /\ SingleProcess'
    BY <2>1, <2>3, <2>4, <2>5, LockedMoves DEF OpenAt, CopyAt
  <2>7. \A j \in SessionId : /\ archive'[j].manifest = archive[j].manifest
                                \/ archive'[j].manifest = {Evidence(a)}
                             /\ archive'[j].receipt = archive[j].receipt
    BY <2>1 DEF TypeOK
  <2>8. Single'
    BY <2>5, <2>7 DEF Single, AtMostOne
  <2> QED
    BY <2>6, <2>8
<1>5. CASE VerifyAgain(s)
  <2>1. PICK p :
           p \in process[s] /\ p.at = "verify" /\ Goes(s, [p EXCEPT !.at = "submit"])
    BY <1>5 DEF VerifyPhoto, VerifyAgain
  <2> DEFINE q == [p EXCEPT !.at = "submit"]
  <2>2. p \in Process /\ Fits(p) /\ p.session = active
    BY <2>1 DEF TypeOK, Locked, OpenAt, NotifyAt
  <2>3. q.given = p.given /\ q.at = "submit" /\ q.session = active /\ q.action = p.action
    BY <2>2 DEF Process
  <2>4. Fits(q)
    BY <2>1, <2>2, <2>3 DEF Fits, CopyAt, NotifyAt
  <2>5. Goes(s, q) /\ UNCHANGED <<card, active, archive, known, lock>>
    BY <1>5, <2>1 DEF VerifyPhoto, VerifyAgain
  <2> HIDE DEF q
  <2>6. Locked' /\ SingleProcess'
    BY <2>1, <2>3, <2>4, <2>5, LockedMoves DEF OpenAt, NotifyAt
  <2>7. Single'
    BY <2>5 DEF Single
  <2> QED
    BY <2>6, <2>7
<1>6. CASE Submit(s)
  <2>1. PICK p :
           p \in process[s] /\ p.at = "submit" /\ Goes(s, [p EXCEPT !.at = "receipt"])
    BY <1>6 DEF Submit
  <2> DEFINE q == [p EXCEPT !.at = "receipt"]
  <2>2. p \in Process /\ Fits(p) /\ p.session = active
    BY <2>1 DEF TypeOK, Locked, OpenAt, NotifyAt
  <2>3. q.given = p.given /\ q.at = "receipt" /\ q.session = active /\ q.action = p.action
    BY <2>2 DEF Process
  <2>4. Fits(q)
    BY <2>1, <2>2, <2>3 DEF Fits, CopyAt, NotifyAt
  <2>5. Goes(s, q) /\ UNCHANGED <<card, active, archive, known, lock>>
    BY <1>6, <2>1 DEF Submit
  <2> HIDE DEF q
  <2>6. Locked' /\ SingleProcess'
    BY <2>1, <2>3, <2>4, <2>5, LockedMoves DEF OpenAt, NotifyAt
  <2>7. Single'
    BY <2>5 DEF Single
  <2> QED
    BY <2>6, <2>7
<1>7. CASE WriteReceipt(s)
  <2>1. PICK p, a :
           /\ p \in process[s] /\ a \in p.session /\ p.at = "receipt"
           /\ archive' = [archive EXCEPT ![a.id].receipt = p.given.proof]
           /\ Goes(s, [p EXCEPT !.at = "record"])
    BY <1>7 DEF WriteReceipt
  <2> DEFINE q == [p EXCEPT !.at = "record"]
  <2>2. p \in Process /\ Fits(p) /\ p.session = active
    BY <2>1 DEF TypeOK, Locked, OpenAt, NotifyAt
  <2>3. q.given = p.given /\ q.at = "record" /\ q.session = active /\ q.action = p.action
    BY <2>2 DEF Process
  <2>4. Fits(q)
    BY <2>1, <2>2, <2>3 DEF Fits, CopyAt, NotifyAt
  <2>5. Goes(s, q) /\ UNCHANGED <<card, active, known, lock>>
    BY <1>7, <2>1 DEF WriteReceipt
  <2> HIDE DEF q
  <2>6. Locked' /\ SingleProcess'
    BY <2>1, <2>3, <2>4, <2>5, LockedMoves DEF OpenAt, NotifyAt
  <2>7. \A j \in SessionId : /\ archive'[j].manifest = archive[j].manifest
                             /\ archive'[j].receipt = archive[j].receipt
                                \/ archive'[j].receipt = p.given.proof
    BY <2>1 DEF TypeOK
  <2>8. AtMostOne(p.given.proof)
    BY <2>1 DEF SingleProcess
  <2>9. Single'
    BY <2>5, <2>7, <2>8 DEF Single
  <2> QED
    BY <2>6, <2>9
<1> QED
  BY <1>1, <1>2, <1>3, <1>4, <1>5, <1>6, <1>7

LEMMA DiscEnd ==
    ASSUME TypeOK, Disc, NEW s \in Slot,
           MarkCopied(s) \/ AlreadyCopied(s) \/ RecordReceipt(s) \/ Unlink(s) \/ Fails(s)
             \/ IOError(s) \/ CutShort(s)
    PROVE  Disc'
<1> USE DEF Disc
<1>1. /\ Exits(s) /\ UNCHANGED <<card, archive>>
      /\ known' = known \/ known' = Nothing
      /\ active' = active \/ \E p \in process[s] : p.at \notin {"start", "lock"}
  BY DEF MarkCopied, AlreadyCopied, RecordReceipt, Unlink, Fails, IOError, MarkFailed, CutShort,
         Trouble, EndsUnrecorded, Forgets, InTry
<1>2. AtMostOne(active')
  <2>1. CASE MarkCopied(s) \/ RecordReceipt(s) \/ Unlink(s)
    BY <2>1 DEF AtMostOne, MarkCopied, RecordReceipt, Unlink
  <2>2. CASE AlreadyCopied(s) \/ CutShort(s)
    BY <2>2 DEF Single, AlreadyCopied, CutShort, Trouble, EndsUnrecorded
  <2>3. CASE Fails(s) \/ IOError(s)
    <3> DEFINE F(a) == [a EXCEPT !.status = "failed", !.receipted = FALSE]
    <3>1. active' = {F(a) : a \in active}
      BY <2>3 DEF Fails, IOError, Trouble, MarkFailed
    <3>2. AtMostOne(active)
      BY DEF Single
    <3> HIDE DEF F
    <3> QED
      BY <3>1, <3>2 DEF AtMostOne
  <2> QED
    BY <2>1, <2>2, <2>3
<1>3. Single'
  BY <1>1, <1>2 DEF Single, AtMostOne, Nothing, Exits
<1> QED
  BY <1>1, <1>3, LockedExits

LEMMA DiscOthers ==
    ASSUME TypeOK, Disc,
           \/ SensePhotoBatch \/ SenseArchiveVerified \/ SenseSessionObsolete
           \/ Daemon \/ OperatorResets \/ KillDaemon \/ ChangeCard
    PROVE  Disc'
<1> USE DEF Disc
<1>1. CASE SensePhotoBatch
  <2>1. AtMostOne({b \in Batches : IsCurrent(b)})
    BY DEF Single, AtMostOne, Batches
  <2>2. /\ known' = [known EXCEPT !.batch = {b \in Batches : IsCurrent(b)}] /\ known \in Given
        /\ UNCHANGED <<card, active, archive, process, lock>>
    BY <1>1 DEF SensePhotoBatch, Sense, TypeOK
  <2>3. AtMostOne(known'.batch) /\ AtMostOne(known'.proof)
    BY <2>1, <2>2 DEF Single, Given
  <2> QED
    BY <2>2, <2>3 DEF Single, SingleProcess, Locked
<1>2. CASE SenseArchiveVerified
  <2>1. known \in Given /\ UNCHANGED <<card, active, archive, process, lock>>
    BY <1>2, ProofPrinted DEF TypeOK
  <2>2. AtMostOne(known'.batch) /\ AtMostOne(known'.proof)
    BY <1>2, ProofPrinted
  <2> QED
    BY <2>1, <2>2 DEF Single, SingleProcess, Locked
<1>3. CASE SenseSessionObsolete
  <2>1. /\ known'.batch = known.batch /\ known'.proof = known.proof
        /\ UNCHANGED <<card, active, archive, process, lock>>
    BY <1>3 DEF SenseSessionObsolete, Sense, TypeOK, Given
  <2> QED
    BY <2>1 DEF Single, SingleProcess, Locked
<1>4. ASSUME NEW s \in Slot, NEW action, NEW g \in Given, Starts(s, action, g),
             known' = known, AtMostOne(g.batch), AtMostOne(g.proof)
      PROVE  Disc'
  <2>1. \A t \in Slot : process'[t] = IF t = s THEN {Started(action, g)} ELSE process[t]
    BY <1>4, StartsTo
  <2>2. UNCHANGED <<card, active, archive, known, lock>>
    BY <1>4 DEF Starts
  <2>3. Started(action, g).at = "start" /\ Started(action, g).given = g
    BY DEF Started
  <2>4. Single'
    BY <2>2 DEF Single
  <2>5. SingleProcess'
    BY <1>4, <2>1, <2>3 DEF SingleProcess, AtMostOne
  <2>6. Locked'
    BY <2>1, <2>2, <2>3 DEF Locked, Fits, OpenAt, CopyAt, NotifyAt
  <2> QED
    BY <2>4, <2>5, <2>6
<1>5. CASE Daemon
  <2>1. PICK action \in {"copy", "notify", "reset"} : Launch(action)
    BY <1>5 DEF Daemon, LaunchCopy, LaunchNotify, LaunchReset
  <2>2. Starts("child", action, known) /\ known' = known /\ known \in Given /\ "child" \in Slot
    BY <2>1 DEF Launch, Starts, TypeOK, Slot
  <2>3. AtMostOne(known.batch) /\ AtMostOne(known.proof)
    BY DEF Single
  <2> QED
    BY <1>4, <2>2, <2>3
<1>6. CASE OperatorResets
  <2>1. PICK a \in active : Starts("orphan", "reset", [Nothing EXCEPT !.token = {a.id}])
    BY <1>6 DEF OperatorResets, Trouble
  <2> DEFINE g == [Nothing EXCEPT !.token = {a.id}]
  <2>2. g \in Given /\ AtMostOne(g.batch) /\ AtMostOne(g.proof)
    BY DEF Nothing, Given, TypeOK, Record, AtMostOne
  <2>3. Starts("orphan", "reset", g) /\ known' = known /\ "orphan" \in Slot
    BY <2>1 DEF Starts, Slot
  <2> HIDE DEF g
  <2> QED
    BY <1>4, <2>2, <2>3
<1>7. CASE KillDaemon
  <2>1. /\ process["orphan"] = {}
        /\ process'["orphan"] = process["child"] /\ process'["child"] = {}
        /\ lock' = IF "child" \in lock THEN {"orphan"} ELSE lock
        /\ known' = Nothing
        /\ UNCHANGED <<card, active, archive, sent>>
    BY <1>7, KillTo
  <2>2. SingleProcess'
    BY <2>1 DEF SingleProcess, AtMostOne, Slot
  <2>3. Single'
    BY <2>1 DEF Single, AtMostOne, Nothing
  <2>4. Locked'
    BY <2>1 DEF Locked, Slot, Fits
  <2> QED
    BY <2>2, <2>3, <2>4
<1>8. CASE ChangeCard
  <2>1. AtMostOne(card') /\ UNCHANGED <<active, archive, known, process, lock>>
    BY <1>8 DEF ChangeCard, AtMostOne
  <2> QED
    BY <2>1 DEF Single, SingleProcess, Locked
<1> QED
  BY <1>1, <1>2, <1>3, <1>5, <1>6, <1>7, <1>8

LEMMA DiscInit == Init => Disc
<1>1. ASSUME Init PROVE Disc
  <2>1. \A s \in Slot : process[s] = {}
    BY <1>1 DEF Init
  <2>2. \A i \in SessionId : archive[i].manifest = {} /\ archive[i].receipt = {}
    BY <1>1 DEF Init
  <2> QED
    BY <1>1, <2>1, <2>2 DEF Init, Disc, Single, SingleProcess, Locked, AtMostOne, Nothing
<1> QED
  BY <1>1

LEMMA DiscNext == TypeOK /\ Disc /\ [Next]_vars => Disc'
<1>1. CASE Disc /\ UNCHANGED vars
  BY <1>1 DEF vars, Disc, Single, SingleProcess, Locked
<1>2. CASE TypeOK /\ Disc /\ Next
  BY <1>2, DiscCopy, DiscProcess, DiscEnd, DiscOthers DEF Next, Step
<1> QED
  BY <1>1, <1>2

-----------------------------------------------------------------------------
(* The records: what a step leaves alone. *)

ManifestsKept ==
    \A i \in SessionId : archive[i].manifest # {} => archive'[i].manifest = archive[i].manifest

LEMMA GivenKept ==
    ASSUME TypeOK, TypeOK', ManifestsKept, happened.session <= happened'.session,
           NEW g \in Given, GivenOK(g)
    PROVE  GivenOK(g)'
<1>1. \A e \in g.proof : e.session \in SessionId /\ archive[e.session].manifest = {e}
  BY DEF GivenOK, Given, Manifest
<1>2. \A e \in g.proof : archive'[e.session].manifest = {e}
  BY <1>1 DEF ManifestsKept
<1>3. \A t \in g.token : t <= happened'.session
  <2>1. /\ happened.session \in Int /\ happened'.session \in Int
        /\ \A t \in g.token : t \in Int /\ t <= happened.session
    BY DEF TypeOK, GivenOK, Given, SessionId
  <2> QED
    BY <2>1
<1> QED
  BY <1>2, <1>3 DEF GivenOK

LEMMA GivensKept ==
    ASSUME TypeOK, TypeOK', GivensOK, ManifestsKept, happened.session <= happened'.session,
           known' = known \/ known' = Nothing,
           \A t \in Slot : \A q \in process'[t] : \E u \in Slot : \E p \in process[u] :
              q.given = p.given /\ q.action = p.action
    PROVE  GivensOK'
<1>1. known \in Given /\ \A u \in Slot : \A p \in process[u] : p.given \in Given
  BY DEF TypeOK, Process
<1>2. GivenOK(known)'
  <2>1. CASE known' = Nothing
    BY <2>1 DEF GivenOK, Nothing
  <2>2. CASE known' = known
    <3>1. PICK g : g = known
      OBVIOUS
    <3>2. g \in Given /\ GivenOK(g)
      BY <1>1, <3>1 DEF GivensOK
    <3>3. GivenOK(g)'
      BY <3>2, GivenKept
    <3>4. known' = g
      BY <2>2, <3>1
    <3> QED
      BY <3>3, <3>4 DEF GivenOK
  <2> QED
    BY <2>1, <2>2
<1>3. ASSUME NEW t \in Slot, NEW q \in process'[t]
      PROVE  GivenOK(q.given)' /\ (q.action # "reset" => q.given.batch # {})
  <2>1. PICK u \in Slot : \E p \in process[u] : q.given = p.given /\ q.action = p.action
    BY <1>3
  <2>2. PICK p \in process[u] : q.given = p.given /\ q.action = p.action
    BY <2>1
  <2>3. GivenOK(p.given) /\ p.given \in Given /\ (p.action # "reset" => p.given.batch # {})
    BY <1>1 DEF GivensOK
  <2>4. GivenOK(p.given)'
    BY <2>3, GivenKept
  <2> QED
    BY <2>2, <2>3, <2>4
<1> QED
  BY <1>2, <1>3 DEF GivensOK

LEMMA GivensMoves ==
    ASSUME TypeOK, TypeOK', GivensOK, ManifestsKept, happened.session <= happened'.session,
           known' = known, NEW s \in Slot, NEW p \in process[s], NEW q, Goes(s, q),
           q.given = p.given, q.action = p.action
    PROVE  GivensOK'
<1>1. \A t \in Slot : process'[t] = IF t = s THEN {q} ELSE process[t]
  BY GoesTo
<1>2. \A t \in Slot : \A r \in process'[t] : \E u \in Slot : \E o \in process[u] :
              r.given = o.given /\ r.action = o.action
  BY <1>1
<1> QED
  BY <1>2, GivensKept

LEMMA GivensExits ==
    ASSUME TypeOK, TypeOK', GivensOK, ManifestsKept, happened.session <= happened'.session,
           known' = known \/ known' = Nothing, NEW s \in Slot, Exits(s)
    PROVE  GivensOK'
<1>1. \A t \in Slot : process'[t] = IF t = s THEN {} ELSE process[t]
  BY ExitsTo
<1>2. \A t \in Slot : \A r \in process'[t] : \E u \in Slot : \E o \in process[u] :
              r.given = o.given /\ r.action = o.action
  BY <1>1
<1> QED
  BY <1>2, GivensKept

LEMMA WorkMoves ==
    ASSUME TypeOK, Disc, NEW s \in Slot, NEW p \in process[s], p.at \notin {"start", "lock"},
           NEW q, Goes(s, q), WorkHere(q)'
    PROVE  WorkOK'
<1>1. \A t \in Slot \ {s} : \A r \in process[t] : r.at \in {"start", "lock"}
  BY Alone DEF Disc
<1>2. \A t \in Slot : process'[t] = IF t = s THEN {q} ELSE process[t]
  BY GoesTo
<1>3. \A t \in Slot \ {s} : \A r \in process'[t] : r.at \notin OpenAt /\ r.at # "allocate"
  BY <1>1, <1>2 DEF OpenAt, CopyAt, NotifyAt
<1>4. \A t \in Slot \ {s} : \A r \in process'[t] : WorkHere(r)'
  BY <1>3 DEF WorkHere
<1> QED
  BY <1>2, <1>4 DEF WorkOK

(* What a process has seen is still so.                                    *)
LEMMA WorkFrame ==
    ASSUME UNCHANGED <<card, active, archive>>, happened'.disturbed = happened.disturbed,
           NEW p, WorkHere(p)
    PROVE  WorkHere(p)'
BY DEF WorkHere, AtWork, IsPublished, SourceIs

LEMMA WorkExits ==
    ASSUME TypeOK, Disc, WorkOK, NEW s \in Slot, Exits(s),
           \/ UNCHANGED <<card, active, archive>> /\ happened'.disturbed = happened.disturbed
           \/ \E p \in process[s] : p.at \notin {"start", "lock"}
    PROVE  WorkOK'
<1>1. \A t \in Slot : process'[t] = IF t = s THEN {} ELSE process[t]
  BY ExitsTo
<1>2. CASE UNCHANGED <<card, active, archive>> /\ happened'.disturbed = happened.disturbed
  <2>1. \A t \in Slot : \A r \in process[t] : WorkHere(r)'
    BY <1>2, WorkFrame DEF WorkOK
  <2> QED
    BY <1>1, <2>1 DEF WorkOK
<1>3. CASE \E p \in process[s] : p.at \notin {"start", "lock"}
  <2>1. \A t \in Slot \ {s} : \A r \in process[t] : r.at \in {"start", "lock"}
    BY <1>3, Alone DEF Disc
  <2>2. \A t \in Slot : \A r \in process'[t] : r.at \notin OpenAt /\ r.at # "allocate"
    BY <1>1, <2>1 DEF OpenAt, CopyAt, NotifyAt
  <2> QED
    BY <2>2 DEF WorkOK, WorkHere
<1> QED
  BY <1>2, <1>3

LEMMA ArchivesKept ==
    ASSUME ArchivesOK, UNCHANGED <<archive, sent>>, TypeOK, TypeOK',
           happened.session <= happened'.session, happened.disturbed \subseteq happened'.disturbed
    PROVE  ArchivesOK' /\ ManifestsKept
<1>1. /\ happened.session \in Int /\ happened'.session \in Int
      /\ \A i \in SessionId : i \in Int
  BY DEF TypeOK, SessionId
<1>2. \A i \in SessionId : i > happened'.session => i > happened.session
  BY <1>1
<1> QED
  BY <1>2 DEF ArchivesOK, ArchiveOK, ManifestsKept

-----------------------------------------------------------------------------
(* The records: what copying does. *)

LEMMA ActiveKept ==
    ASSUME RecordsOK, UNCHANGED <<active, archive, sent>>, TypeOK, TypeOK',
           happened'.session = happened.session, happened.disturbed \subseteq happened'.disturbed
    PROVE  (\A a \in active : ActiveOK(a))' /\ ArchivesOK' /\ ManifestsKept
<1>1. ArchivesOK' /\ ManifestsKept
  BY ArchivesKept DEF RecordsOK, TypeOK
<1>2. \A a \in active : ActiveOK(a)
  BY DEF RecordsOK
<1> QED
  BY <1>1, <1>2 DEF ActiveOK

(* A photo of the batch that is not published: there is no manifest.       *)
LEMMA NoManifestYet ==
    ASSUME TypeOK, RecordsOK, NEW a \in active, a.id \in SessionId,
           NEW i \in DOMAIN a.batch.metas, ~IsPublished(a, i)
    PROVE  archive[a.id].manifest = {} /\ archive[a.id].receipt = {}
<1>1. archive[a.id].manifest \subseteq {Evidence(a)} /\ ArchiveOK(a.id)
  BY DEF RecordsOK, ActiveOK, ArchivesOK
<1>2. ASSUME NEW e \in archive[a.id].manifest
      PROVE  FALSE
  <2>1. e = Evidence(a)
    BY <1>1
  <2>2. archive[a.id].photos = e.files /\ DOMAIN e.files = DOMAIN e.batch.metas /\ e.batch = a.batch
    BY <1>1, <2>1 DEF ArchiveOK, Evidence
  <2> QED
    BY <2>2 DEF IsPublished
<1> QED
  BY <1>1, <1>2 DEF ArchiveOK

LEMMA RecordsAllocate ==
    ASSUME TypeOK, TypeOK', Disc, RecordsOK, NEW s \in Slot, Allocate(s)
    PROVE  RecordsOK'
<1> DEFINE n == happened.session + 1
<1>1. PICK p, b, q, a :
         /\ p \in process[s] /\ b \in p.given.batch /\ p.at = "allocate"
         /\ a = [id |-> n, batch |-> b, status |-> "copying", files |-> <<>>, receipted |-> FALSE]
         /\ active' = {a}
         /\ q = [p EXCEPT !.at = "photos", !.session = active']
         /\ Goes(s, q)
  BY DEF Allocate
<1>2. /\ happened'.session = n /\ n \in SessionId /\ happened'.disturbed = happened.disturbed
      /\ UNCHANGED <<archive, sent, known>>
  <2>1. happened' = [happened EXCEPT !.session = n] /\ UNCHANGED <<archive, sent, known>>
    BY DEF Allocate
  <2>2. happened'.session = n /\ happened'.disturbed = happened.disturbed
    BY <2>1 DEF TypeOK
  <2>3. n \in SessionId
    <3>1. a \in Record
      BY <1>1 DEF TypeOK
    <3> QED
      BY <1>1, <3>1 DEF Record
  <2> QED
    BY <2>1, <2>2, <2>3
<1>3. happened.session \in Nat /\ MaxSessions \in Nat
  BY ArchiverAssumption DEF TypeOK
<1>4. p \in Process /\ p.action = "copy" /\ p.given.batch = {b} /\ p.todo = DOMAIN b.metas
  <2>1. p \in Process /\ p.action = "copy" /\ AtMostOne(p.given.batch)
    BY <1>1 DEF TypeOK, Disc, Locked, Fits, CopyAt, SingleProcess
  <2>2. p.todo = DOMAIN b.metas
    BY <1>1 DEF RecordsOK, WorkOK, WorkHere
  <2> QED
    BY <1>1, <2>1, <2>2 DEF AtMostOne
<1>5. /\ q.at = "photos" /\ q.action = "copy" /\ q.given = p.given /\ q.todo = p.todo
  BY <1>1, <1>4 DEF Process
<1>6. ArchivesOK' /\ ManifestsKept
  <2>1. happened.session <= happened'.session
    BY <1>2, <1>3
  <2> QED
    BY <1>2, <2>1, ArchivesKept DEF RecordsOK
<1>7. GivensOK'
  <2>1. happened.session <= happened'.session
    BY <1>2, <1>3
  <2> QED
    BY <1>1, <1>2, <1>4, <1>5, <1>6, <2>1, GivensMoves DEF RecordsOK
<1>8. /\ DOMAIN archive[n].photos = {} /\ archive[n].manifest = {}
      /\ archive[n].receipt = {} /\ sent[n] = 0
  BY <1>2, <1>3 DEF RecordsOK, ArchivesOK, ArchiveOK
<1>9. ActiveOK(a)'
  <2>1. DOMAIN b.metas # {}
    BY <1>1 DEF RecordsOK, GivensOK, GivenOK
  <2>2. /\ a.id = n /\ a.files = <<>> /\ a.batch = b /\ a.status = "copying"
        /\ DOMAIN a.files = {}
    BY <1>1, EmptyFiles
  <2> QED
    BY <1>2, <1>3, <1>8, <2>1, <2>2 DEF ActiveOK, FromCards
<1>10. AtWork(q, a)'
  <2>1. a.batch = b /\ a.status = "copying"
    BY <1>1
  <2> QED
    BY <1>4, <1>5, <2>1 DEF AtWork
<1>11. WorkOK'
  BY <1>1, <1>5, <1>10, WorkMoves DEF WorkHere
<1> QED
  BY <1>1, <1>6, <1>7, <1>9, <1>11 DEF RecordsOK

LEMMA RecordsSkip ==
    ASSUME TypeOK, TypeOK', Disc, RecordsOK, NEW s \in Slot, SkipPhoto(s)
    PROVE  RecordsOK'
<1>1. PICK p, a, i, q :
         /\ p \in process[s] /\ a \in p.session /\ i \in p.todo
         /\ p.at = "photos" /\ IsPublished(a, i)
         /\ q = [p EXCEPT !.todo = @ \ {i}] /\ Goes(s, q)
  BY DEF SkipPhoto, IsNext
<1>2. UNCHANGED <<card, active, archive, sent, known, lock, happened>>
  BY DEF SkipPhoto
<1>3. p \in Process /\ a \in Record /\ active = {a} /\ p.at \notin {"start", "lock"} /\ Fits(p)
  BY <1>1, AtHand DEF Disc, OpenAt, CopyAt, Locked
<1>4. q.at = "photos" /\ q.action = "copy" /\ q.given = p.given /\ q.todo = p.todo \ {i}
      /\ p.action = "copy"
  BY <1>1, <1>3 DEF Process, Fits, CopyAt
<1>5. (\A r \in active : ActiveOK(r))' /\ ArchivesOK' /\ ManifestsKept
  BY <1>2, ActiveKept
<1>6. happened.session <= happened'.session
  BY <1>2 DEF TypeOK
<1>7. GivensOK'
  BY <1>1, <1>2, <1>4, <1>5, <1>6, GivensMoves DEF RecordsOK
<1>8. AtWork(p, a)
  BY <1>1, <1>3 DEF RecordsOK, WorkOK, WorkHere, OpenAt, CopyAt
<1>9. AtWork(q, a)'
  BY <1>1, <1>2, <1>4, <1>8 DEF AtWork, IsPublished
<1>10. WorkOK'
  BY <1>1, <1>2, <1>3, <1>4, <1>9, WorkMoves DEF WorkHere
<1> QED
  BY <1>5, <1>7, <1>10 DEF RecordsOK

LEMMA RecordsStage ==
    ASSUME TypeOK, TypeOK', Disc, RecordsOK, NEW s \in Slot, StagePhoto(s)
    PROVE  RecordsOK'
<1>1. PICK p, a, i, q, e :
         /\ p \in process[s] /\ a \in p.session /\ i \in p.todo /\ i = Min(p.todo)
         /\ p.at = "photos" /\ ~IsPublished(a, i)
         /\ e = Source(i, a.batch.metas[i])
         /\ q = [p EXCEPT !.at = "journal", !.entry = e] /\ Goes(s, q)
  BY DEF StagePhoto, IsNext
<1>2. UNCHANGED <<card, active, archive, sent, known, lock, happened>>
  BY DEF StagePhoto
<1>3. p \in Process /\ a \in Record /\ active = {a} /\ p.at \notin {"start", "lock"} /\ Fits(p)
  BY <1>1, AtHand DEF Disc, OpenAt, CopyAt, Locked
<1>4. q.at = "journal" /\ q.action = "copy" /\ q.given = p.given /\ q.todo = p.todo
      /\ p.action = "copy"
  BY <1>1, <1>3 DEF Process, Fits, CopyAt
<1>5. (\A r \in active : ActiveOK(r))' /\ ArchivesOK' /\ ManifestsKept
  BY <1>2, ActiveKept
<1>6. happened.session <= happened'.session
  BY <1>2 DEF TypeOK
<1>7. GivensOK'
  BY <1>1, <1>2, <1>4, <1>5, <1>6, GivensMoves DEF RecordsOK
<1>8. AtWork(p, a)
  BY <1>1, <1>3 DEF RecordsOK, WorkOK, WorkHere, OpenAt, CopyAt
<1>9. AtWork(q, a)'
  <2>1. AtMostOne(e)
    <3>1. \A c, d \in card : c = d
      BY DEF Disc, Single, AtMostOne
    <3>2. \A x \in e : \E c \in card : x = c.photos[i].data
      BY <1>1 DEF Source
    <3> QED
      BY <3>1, <3>2 DEF AtMostOne
  <2>2. q.entry = e
    BY <1>1, <1>3 DEF Process
  <2>3. \A d \in e : IsOfSomeCard(i, a.batch.metas[i], d)
    BY <1>1 DEF Source, IsOfSomeCard, TypeOK
  <2> QED
    BY <1>1, <1>2, <1>4, <1>8, <2>1, <2>2, <2>3 DEF AtWork, IsPublished
<1>10. WorkOK'
  BY <1>1, <1>2, <1>3, <1>4, <1>9, WorkMoves DEF WorkHere
<1> QED
  BY <1>5, <1>7, <1>10 DEF RecordsOK

LEMMA RecordsJournal ==
    ASSUME TypeOK, TypeOK', Disc, RecordsOK, NEW s \in Slot, Journal(s)
    PROVE  RecordsOK'
<1>1. PICK p, a, d, m, b, q :
         /\ p \in process[s] /\ a \in p.session /\ d \in p.entry /\ m = Min(p.todo)
         /\ p.at = "journal"
         /\ b = [a EXCEPT !.files = WithEntry(@, m, d)] /\ active' = {b}
         /\ q = [p EXCEPT !.at = "publish", !.session = {b}] /\ Goes(s, q)
  BY DEF Journal
<1>2. UNCHANGED <<card, archive, sent, known, lock, happened>>
  BY DEF Journal
<1>3. /\ p \in Process /\ a \in Record /\ a.id \in SessionId /\ active = {a}
      /\ p.at \notin {"start", "lock"} /\ Fits(p) /\ process[s] = {p}
  BY <1>1, AtHand DEF Disc, OpenAt, CopyAt, Locked
<1>4. /\ q.at = "publish" /\ q.action = "copy" /\ q.given = p.given /\ q.todo = p.todo
      /\ q.entry = p.entry /\ p.action = "copy"
  BY <1>1, <1>3 DEF Process, Fits, CopyAt
<1>5. ArchivesOK' /\ ManifestsKept /\ happened.session <= happened'.session
  BY <1>2, ArchivesKept DEF RecordsOK, TypeOK
<1>6. GivensOK'
  BY <1>1, <1>2, <1>4, <1>5, GivensMoves DEF RecordsOK
<1>7. AtWork(p, a) /\ ActiveOK(a)
  BY <1>1, <1>3 DEF RecordsOK, WorkOK, WorkHere, OpenAt, CopyAt
<1>8. /\ b.id = a.id /\ b.batch = a.batch /\ b.status = a.status
      /\ b.files = WithEntry(a.files, m, d)
  BY <1>1, <1>3 DEF Record
<1>9. /\ DOMAIN b.files = DOMAIN a.files \cup {m} /\ b.files[m] = d
      /\ \A j \in DOMAIN a.files \ {m} : b.files[j] = a.files[j]
  BY <1>8 DEF WithEntry
<1>10. m \in p.todo /\ m \in DOMAIN a.batch.metas /\ ~IsPublished(a, m) /\ a.status = "copying"
  <2>1. m \in p.todo
    BY <1>1 DEF TypeOK
  <2> QED
    BY <1>1, <1>4, <1>7, <2>1 DEF AtWork
<1>11. archive[a.id].manifest = {}
  BY <1>3, <1>10, NoManifestYet
<1>12. ActiveOK(b)'
  <2>1. FromCards(b.batch, b.files)
    <3>1. IsOfSomeCard(m, a.batch.metas[m], d) /\ FromCards(a.batch, a.files)
      BY <1>1, <1>7 DEF AtWork, ActiveOK
    <3>2. ASSUME NEW j \in DOMAIN b.files
          PROVE  IsOfSomeCard(j, b.batch.metas[j], b.files[j])
      BY <1>8, <1>9, <3>1 DEF FromCards
    <3> QED
      BY <3>2 DEF FromCards
  <2> QED
    BY <1>2, <1>7, <1>8, <1>9, <1>10, <1>11, <2>1 DEF ActiveOK, IsPublished
<1>13. \A x \in p.entry : x = d
  <2>1. AtMostOne(p.entry)
    BY <1>1, <1>7 DEF AtWork
  <2> QED
    BY <1>1, <2>1 DEF AtMostOne
<1>14. AtWork(q, b)'
  BY <1>1, <1>2, <1>4, <1>7, <1>8, <1>9, <1>10, <1>13 DEF AtWork, IsPublished
<1>15. WorkOK'
  BY <1>1, <1>3, <1>4, <1>14, WorkMoves DEF WorkHere
<1> QED
  BY <1>1, <1>5, <1>6, <1>12, <1>15 DEF RecordsOK

(* The bytes that were journaled are those that are published.             *)
LEMMA RecordsPublish ==
    ASSUME TypeOK, TypeOK', Disc, RecordsOK, NEW s \in Slot, Publish(s)
    PROVE  RecordsOK'
<1>1. PICK p, a, d, m, q :
         /\ p \in process[s] /\ a \in p.session /\ d \in p.entry /\ m = Min(p.todo)
         /\ p.at = "publish" /\ ~IsPublished(a, m)
         /\ archive' = [archive EXCEPT ![a.id].photos = WithEntry(@, m, d)]
         /\ q = [p EXCEPT !.at = "photos", !.todo = @ \ {m}, !.entry = {}] /\ Goes(s, q)
  BY DEF Publish
<1>2. UNCHANGED <<card, active, sent, known, lock, happened>>
  BY DEF Publish
<1>3. /\ p \in Process /\ a \in Record /\ a.id \in SessionId /\ active = {a}
      /\ p.at \notin {"start", "lock"} /\ Fits(p)
  BY <1>1, AtHand DEF Disc, OpenAt, CopyAt, Locked
<1>4. /\ q.at = "photos" /\ q.action = "copy" /\ q.given = p.given /\ q.todo = p.todo \ {m}
      /\ p.action = "copy"
  BY <1>1, <1>3 DEF Process, Fits, CopyAt
<1>5. /\ \A i \in SessionId : /\ archive'[i].manifest = archive[i].manifest
                              /\ archive'[i].receipt = archive[i].receipt
                              /\ i # a.id => archive'[i].photos = archive[i].photos
      /\ archive'[a.id].photos = WithEntry(archive[a.id].photos, m, d)
  BY <1>1, <1>3 DEF TypeOK
<1>6. ManifestsKept /\ happened.session <= happened'.session
  BY <1>2, <1>5 DEF ManifestsKept, TypeOK
<1>7. GivensOK'
  BY <1>1, <1>2, <1>4, <1>6, GivensMoves DEF RecordsOK
<1>8. AtWork(p, a) /\ ActiveOK(a)
  BY <1>1, <1>3 DEF RecordsOK, WorkOK, WorkHere, OpenAt, CopyAt
<1>9. /\ m \in p.todo /\ m \in DOMAIN a.batch.metas /\ m \in DOMAIN a.files
      /\ a.files[m] = d
  <2>1. m \in p.todo
    BY <1>1 DEF TypeOK
  <2> QED
    BY <1>1, <1>4, <1>8, <2>1 DEF AtWork
<1>10. archive[a.id].manifest = {} /\ archive[a.id].receipt = {}
  BY <1>1, <1>3, <1>9, NoManifestYet
<1>11. /\ DOMAIN archive'[a.id].photos = DOMAIN archive[a.id].photos \cup {m}
       /\ archive'[a.id].photos[m] = d
       /\ \A j \in DOMAIN archive[a.id].photos \ {m} :
             archive'[a.id].photos[j] = archive[a.id].photos[j]
  BY <1>5 DEF WithEntry
<1>12. ActiveOK(a)'
  BY <1>2, <1>3, <1>5, <1>8, <1>9, <1>11 DEF ActiveOK
<1>13. ArchivesOK'
  <2>1. ASSUME NEW i \in SessionId, i # a.id PROVE ArchiveOK(i)'
    BY <1>2, <1>5, <2>1 DEF RecordsOK, ArchivesOK, ArchiveOK
  <2>2. ArchiveOK(a.id)'
    <3>1. ArchiveOK(a.id)
      BY <1>3 DEF RecordsOK, ArchivesOK
    <3>2. ~(a.id > happened.session)
      BY <1>3, <1>8 DEF ActiveOK, TypeOK, SessionId
    <3> QED
      BY <1>2, <1>3, <1>5, <1>10, <3>1, <3>2 DEF ArchiveOK
  <2> QED
    BY <2>1, <2>2 DEF ArchivesOK
<1>14. AtWork(q, a)'
  BY <1>1, <1>2, <1>3, <1>4, <1>5, <1>8, <1>11 DEF AtWork, IsPublished
<1>15. WorkOK'
  BY <1>1, <1>2, <1>3, <1>4, <1>14, WorkMoves DEF WorkHere
<1> QED
  BY <1>2, <1>3, <1>7, <1>12, <1>13, <1>15 DEF RecordsOK

(* Everything is published when the manifest is written.                   *)
LEMMA RecordsManifest ==
    ASSUME TypeOK, TypeOK', Disc, RecordsOK, NEW s \in Slot, WriteManifest(s)
    PROVE  RecordsOK'
<1>1. PICK p, a, q :
         /\ p \in process[s] /\ a \in p.session
         /\ p.at = "photos" /\ p.todo = {} /\ CanComplete(a)
         /\ archive' = [archive EXCEPT ![a.id].manifest = {Evidence(a)}]
         /\ q = [p EXCEPT !.at = "markCopied"] /\ Goes(s, q)
  BY DEF WriteManifest
<1>2. UNCHANGED <<card, active, sent, known, lock, happened>>
  BY DEF WriteManifest
<1>3. /\ p \in Process /\ a \in Record /\ a.id \in SessionId /\ active = {a}
      /\ p.at \notin {"start", "lock"} /\ Fits(p)
  BY <1>1, AtHand DEF Disc, OpenAt, CopyAt, Locked
<1>4. /\ q.at = "markCopied" /\ q.action = "copy" /\ q.given = p.given /\ q.todo = p.todo
      /\ p.action = "copy"
  BY <1>1, <1>3 DEF Process, Fits, CopyAt
<1>5. /\ \A i \in SessionId : /\ archive'[i].photos = archive[i].photos
                              /\ archive'[i].receipt = archive[i].receipt
                              /\ i # a.id => archive'[i].manifest = archive[i].manifest
      /\ archive'[a.id].manifest = {Evidence(a)}
  BY <1>1, <1>3 DEF TypeOK
<1>6. archive[a.id].manifest # {} => archive[a.id].manifest = {Evidence(a)}
  BY <1>1 DEF CanComplete
<1>7. ManifestsKept /\ happened.session <= happened'.session
  <2>1. ManifestsKept
    BY <1>5, <1>6 DEF ManifestsKept
  <2> QED
    BY <1>2, <2>1 DEF TypeOK
<1>8. GivensOK'
  BY <1>1, <1>2, <1>4, <1>7, GivensMoves DEF RecordsOK
<1>9. AtWork(p, a) /\ ActiveOK(a)
  BY <1>1, <1>3 DEF RecordsOK, WorkOK, WorkHere, OpenAt, CopyAt
<1>10. archive[a.id].photos = a.files
  <2>1. DOMAIN a.files = DOMAIN a.batch.metas
    BY <1>1 DEF CanComplete
  <2>2. \A i \in DOMAIN a.batch.metas : i \in DOMAIN archive[a.id].photos
    BY <1>1, <1>9 DEF AtWork, IsPublished
  <2>3. DOMAIN archive[a.id].photos = DOMAIN a.files
    BY <1>9, <2>1, <2>2 DEF ActiveOK
  <2>4. \A i \in DOMAIN a.files : archive[a.id].photos[i] = a.files[i]
    BY <1>9, <2>3 DEF ActiveOK
  <2>5. archive[a.id].photos \in Files /\ a.files \in Files
    BY <1>3 DEF TypeOK, Record
  <2> QED
    BY <2>3, <2>4, <2>5 DEF Files
<1>11. ActiveOK(a)'
  BY <1>2, <1>3, <1>5, <1>9 DEF ActiveOK
<1>12. ArchivesOK'
  <2>1. ASSUME NEW i \in SessionId, i # a.id PROVE ArchiveOK(i)'
    BY <1>2, <1>5, <2>1 DEF RecordsOK, ArchivesOK, ArchiveOK
  <2>2. ArchiveOK(a.id)'
    <3>1. ArchiveOK(a.id)
      BY <1>3 DEF RecordsOK, ArchivesOK
    <3>2. ~(a.id > happened.session)
      BY <1>3, <1>9 DEF ActiveOK, TypeOK, SessionId
    <3>3. /\ Evidence(a).session = a.id /\ Evidence(a).files = a.files
          /\ Evidence(a).batch = a.batch /\ DOMAIN a.files = DOMAIN a.batch.metas
          /\ FromCards(a.batch, a.files)
      BY <1>1, <1>9 DEF Evidence, CanComplete, ActiveOK
    <3>4. archive[a.id].receipt \subseteq {Evidence(a)}
      BY <1>6, <3>1 DEF ArchiveOK
    <3>5. sent[a.id] > 0 => (a.id \notin happened.disturbed => IsOfOneCard(Evidence(a)))
      BY <1>6, <3>1 DEF ArchiveOK
    <3> QED
      BY <1>2, <1>3, <1>5, <1>10, <3>2, <3>3, <3>4, <3>5 DEF ArchiveOK
  <2> QED
    BY <2>1, <2>2 DEF ArchivesOK
<1>13. AtWork(q, a)'
  BY <1>1, <1>2, <1>3, <1>4, <1>5, <1>9 DEF AtWork, IsPublished
<1>14. WorkOK'
  BY <1>1, <1>2, <1>3, <1>4, <1>13, WorkMoves DEF WorkHere
<1> QED
  BY <1>2, <1>3, <1>8, <1>11, <1>12, <1>14 DEF RecordsOK

-----------------------------------------------------------------------------
(* The records: the other steps of a process. *)

(* What a photo was compared with is on the card that is mounted.          *)
LEMMA RecordsVerifyPhoto ==
    ASSUME TypeOK, TypeOK', Disc, RecordsOK, NEW s \in Slot, VerifyPhoto(s)
    PROVE  RecordsOK'
<1>1. PICK p, a, q, m :
         /\ p \in process[s] /\ a \in p.session /\ p.at \in {"verify", "verifyCopied"}
         /\ m = Min(p.todo) /\ IsIntact(a, m)
         /\ q = [p EXCEPT !.todo = @ \ {m}] /\ Goes(s, q)
  BY DEF VerifyPhoto, Compares
<1>2. UNCHANGED <<card, active, archive, sent, known, lock, happened>>
  BY DEF VerifyPhoto
<1>3. p \in Process /\ a \in Record /\ active = {a} /\ p.at \notin {"start", "lock"}
  BY <1>1, AtHand DEF Disc, OpenAt, CopyAt, NotifyAt
<1>4. q.at = p.at /\ q.action = p.action /\ q.given = p.given /\ q.todo = p.todo \ {m}
  BY <1>1, <1>3 DEF Process
<1>5. (\A r \in active : ActiveOK(r))' /\ ArchivesOK' /\ ManifestsKept
  BY <1>2, ActiveKept
<1>6. GivensOK'
  <2>1. happened.session <= happened'.session
    BY <1>2 DEF TypeOK
  <2> QED
    BY <1>1, <1>2, <1>4, <1>5, <2>1, GivensMoves DEF RecordsOK
<1>7. AtWork(p, a)
  BY <1>1, <1>3 DEF RecordsOK, WorkOK, WorkHere, OpenAt, CopyAt, NotifyAt
<1>8. AtWork(q, a)
  <2>1. SourceIs(m, a.files[m])
    BY <1>1 DEF IsIntact, SourceIs
  <2>2. q.at = "verify" /\ a.id \notin happened.disturbed =>
           \A i \in DOMAIN a.files : i \in q.todo \/ SourceIs(i, a.files[i])
    BY <1>4, <1>7, <2>1 DEF AtWork
  <2> QED
    BY <1>1, <1>4, <1>7, <2>2 DEF AtWork
<1>9. WorkHere(q)
  BY <1>1, <1>3, <1>4, <1>8 DEF WorkHere
<1>10. WorkOK'
  <2>1. WorkHere(q)'
    BY <1>2, <1>9, WorkFrame
  <2> QED
    BY <1>1, <1>3, <2>1, WorkMoves
<1> QED
  BY <1>5, <1>6, <1>10 DEF RecordsOK

(* All that notify hashed is on one card, if the card was left alone.      *)
LEMMA RecordsVerify ==
    ASSUME TypeOK, TypeOK', Disc, RecordsOK, NEW s \in Slot, VerifyAgain(s)
    PROVE  RecordsOK'
<1>1. PICK p, a, q :
         /\ p \in process[s] /\ a \in p.session /\ p.at = "verify" /\ p.todo = {}
         /\ Authorized(p, a)
         /\ q = [p EXCEPT !.at = "submit"] /\ Goes(s, q)
  BY DEF VerifyAgain
<1>2. UNCHANGED <<card, active, archive, sent, known, lock, happened>>
  BY DEF VerifyAgain
<1>3. /\ p \in Process /\ a \in Record /\ a.id \in SessionId /\ active = {a}
      /\ p.at \notin {"start", "lock"} /\ Fits(p)
  BY <1>1, AtHand DEF Disc, OpenAt, NotifyAt, Locked
<1>4. q.at = "submit" /\ q.action = "notify" /\ q.given = p.given /\ p.action = "notify"
  BY <1>1, <1>3 DEF Process, Fits, NotifyAt
<1>5. (\A r \in active : ActiveOK(r))' /\ ArchivesOK' /\ ManifestsKept
  BY <1>2, ActiveKept
<1>6. GivensOK'
  <2>1. happened.session <= happened'.session
    BY <1>2 DEF TypeOK
  <2> QED
    BY <1>1, <1>2, <1>4, <1>5, <2>1, GivensMoves DEF RecordsOK
<1>7. AtWork(p, a) /\ ActiveOK(a)
  BY <1>1, <1>3 DEF RecordsOK, WorkOK, WorkHere, OpenAt, NotifyAt
<1>8. a.id \notin happened.disturbed => IsOfOneCard(Evidence(a))
  <2>1. PICK c \in card : Batch(c) = a.batch
    BY <1>1 DEF Authorized, IsCurrent, Batches
  <2>2. c \in Cards /\ \A k \in card : k = c
    BY <2>1 DEF TypeOK, Disc, Single, AtMostOne
  <2>3. DOMAIN a.files = DOMAIN a.batch.metas
    <3>1. archive[a.id].manifest = {Evidence(a)}
      BY <1>4, <1>7 DEF AtWork, ActiveOK
    <3>2. DOMAIN Evidence(a).files = DOMAIN Evidence(a).batch.metas
      BY <1>3, <3>1 DEF RecordsOK, ArchivesOK, ArchiveOK
    <3> QED
      BY <3>2 DEF Evidence
  <2>4. DOMAIN a.batch.metas = DOMAIN c.photos
    BY <2>1 DEF Batch
  <2>5. ASSUME a.id \notin happened.disturbed
        PROVE  \A i \in DOMAIN c.photos : a.files[i] = c.photos[i].data
    <3>1. \A i \in DOMAIN a.files : SourceIs(i, a.files[i])
      BY <1>1, <1>7, <2>5 DEF AtWork
    <3> QED
      BY <2>2, <2>3, <2>4, <3>1 DEF SourceIs
  <2>6. a.files = [i \in DOMAIN a.files |-> a.files[i]]
    BY <1>3 DEF Record, Files
  <2>7. ASSUME a.id \notin happened.disturbed
        PROVE  a.files = [i \in DOMAIN c.photos |-> c.photos[i].data]
    BY <2>3, <2>4, <2>5, <2>6, <2>7
  <2> QED
    BY <2>1, <2>2, <2>7 DEF IsOfOneCard, Evidence
<1>9. AtWork(q, a)'
  BY <1>1, <1>2, <1>4, <1>7, <1>8 DEF AtWork
<1>10. WorkOK'
  BY <1>1, <1>2, <1>3, <1>4, <1>9, WorkMoves DEF WorkHere
<1> QED
  BY <1>5, <1>6, <1>10 DEF RecordsOK

LEMMA RecordsSubmit ==
    ASSUME TypeOK, TypeOK', Disc, RecordsOK, NEW s \in Slot, Submit(s)
    PROVE  RecordsOK'
<1>1. PICK p, a, q :
         /\ p \in process[s] /\ a \in p.session /\ p.at = "submit"
         /\ sent' = [sent EXCEPT ![a.id] = @ + 1]
         /\ q = [p EXCEPT !.at = "receipt"] /\ Goes(s, q)
  BY DEF Submit
<1>2. UNCHANGED <<card, active, archive, known, lock, happened>>
  BY DEF Submit
<1>3. /\ p \in Process /\ a \in Record /\ a.id \in SessionId /\ active = {a}
      /\ p.at \notin {"start", "lock"} /\ Fits(p)
  BY <1>1, AtHand DEF Disc, OpenAt, NotifyAt, Locked
<1>4. q.at = "receipt" /\ q.action = "notify" /\ q.given = p.given /\ p.action = "notify"
  BY <1>1, <1>3 DEF Process, Fits, NotifyAt
<1>5. ManifestsKept /\ happened.session <= happened'.session
  BY <1>2 DEF ManifestsKept, TypeOK
<1>6. GivensOK'
  BY <1>1, <1>2, <1>4, <1>5, GivensMoves DEF RecordsOK
<1>7. AtWork(p, a) /\ ActiveOK(a)
  BY <1>1, <1>3 DEF RecordsOK, WorkOK, WorkHere, OpenAt, NotifyAt
<1>8. /\ a.status = "copied" /\ archive[a.id].manifest = {Evidence(a)}
      /\ a.id \notin happened.disturbed => IsOfOneCard(Evidence(a))
  BY <1>1, <1>4, <1>7 DEF AtWork, ActiveOK
<1>9. \A i \in SessionId : i # a.id => sent'[i] = sent[i]
  BY <1>1 DEF TypeOK
<1>10. ArchivesOK'
  <2>1. ASSUME NEW i \in SessionId, i # a.id PROVE ArchiveOK(i)'
    BY <1>2, <1>9, <2>1 DEF RecordsOK, ArchivesOK, ArchiveOK
  <2>2. ArchiveOK(a.id)'
    <3>1. ArchiveOK(a.id)
      BY <1>3 DEF RecordsOK, ArchivesOK
    <3>2. ~(a.id > happened.session)
      BY <1>3, <1>7 DEF ActiveOK, TypeOK, SessionId
    <3> QED
      BY <1>2, <1>8, <3>1, <3>2 DEF ArchiveOK
  <2> QED
    BY <2>1, <2>2 DEF ArchivesOK
<1>11. ActiveOK(a)'
  BY <1>2, <1>7, <1>8 DEF ActiveOK
<1>12. AtWork(q, a)'
  BY <1>1, <1>2, <1>4, <1>7 DEF AtWork
<1>13. WorkOK'
  BY <1>1, <1>2, <1>3, <1>4, <1>12, WorkMoves DEF WorkHere
<1> QED
  BY <1>2, <1>3, <1>6, <1>10, <1>11, <1>13 DEF RecordsOK

(* The proof an action was given is the manifest of its session.           *)
LEMMA GivenProof ==
    ASSUME TypeOK, Disc, RecordsOK, NEW s \in Slot, NEW p \in process[s], NEW a \in active,
           p.action = "notify", AtWork(p, a)
    PROVE  p.given.proof = archive[a.id].manifest /\ p.given.proof # {}
<1>1. PICK e \in p.given.proof : e.session = a.id
  BY DEF AtWork
<1>2. AtMostOne(p.given.proof) /\ archive[e.session].manifest = {e}
  BY <1>1 DEF Disc, SingleProcess, RecordsOK, GivensOK, GivenOK
<1> QED
  BY <1>1, <1>2 DEF AtMostOne

LEMMA RecordsReceipt ==
    ASSUME TypeOK, TypeOK', Disc, RecordsOK, NEW s \in Slot, WriteReceipt(s)
    PROVE  RecordsOK'
<1>1. PICK p, a, q :
         /\ p \in process[s] /\ a \in p.session /\ p.at = "receipt"
         /\ archive' = [archive EXCEPT ![a.id].receipt = p.given.proof]
         /\ q = [p EXCEPT !.at = "record"] /\ Goes(s, q)
  BY DEF WriteReceipt
<1>2. UNCHANGED <<card, active, sent, known, lock, happened>>
  BY DEF WriteReceipt
<1>3. /\ p \in Process /\ a \in Record /\ a.id \in SessionId /\ active = {a}
      /\ p.at \notin {"start", "lock"} /\ Fits(p)
  BY <1>1, AtHand DEF Disc, OpenAt, NotifyAt, Locked
<1>4. q.at = "record" /\ q.action = "notify" /\ q.given = p.given /\ p.action = "notify"
  BY <1>1, <1>3 DEF Process, Fits, NotifyAt
<1>5. /\ \A i \in SessionId : /\ archive'[i].photos = archive[i].photos
                              /\ archive'[i].manifest = archive[i].manifest
                              /\ i # a.id => archive'[i].receipt = archive[i].receipt
      /\ archive'[a.id].receipt = p.given.proof
  BY <1>1, <1>3 DEF TypeOK
<1>6. ManifestsKept /\ happened.session <= happened'.session
  BY <1>2, <1>5 DEF ManifestsKept, TypeOK
<1>7. GivensOK'
  BY <1>1, <1>2, <1>4, <1>6, GivensMoves DEF RecordsOK
<1>8. AtWork(p, a) /\ ActiveOK(a)
  BY <1>1, <1>3 DEF RecordsOK, WorkOK, WorkHere, OpenAt, NotifyAt
<1>9. p.given.proof = archive[a.id].manifest /\ p.given.proof # {}
  BY <1>1, <1>3, <1>4, <1>8, GivenProof
<1>10. ArchivesOK'
  <2>1. ASSUME NEW i \in SessionId, i # a.id PROVE ArchiveOK(i)'
    BY <1>2, <1>5, <2>1 DEF RecordsOK, ArchivesOK, ArchiveOK
  <2>2. ArchiveOK(a.id)'
    <3>1. ArchiveOK(a.id)
      BY <1>3 DEF RecordsOK, ArchivesOK
    <3>2. ~(a.id > happened.session)
      BY <1>3, <1>8 DEF ActiveOK, TypeOK, SessionId
    <3> QED
      BY <1>2, <1>3, <1>5, <1>9, <3>1, <3>2 DEF ArchiveOK
  <2> QED
    BY <2>1, <2>2 DEF ArchivesOK
<1>11. ActiveOK(a)'
  BY <1>2, <1>3, <1>5, <1>8 DEF ActiveOK
<1>12. AtWork(q, a)'
  BY <1>1, <1>2, <1>3, <1>4, <1>5, <1>8, <1>9 DEF AtWork
<1>13. WorkOK'
  BY <1>1, <1>2, <1>3, <1>4, <1>12, WorkMoves DEF WorkHere
<1> QED
  BY <1>2, <1>3, <1>7, <1>10, <1>11, <1>13 DEF RecordsOK

LEMMA RecordsEnd ==
    ASSUME TypeOK, TypeOK', Disc, RecordsOK, NEW s \in Slot,
           MarkCopied(s) \/ AlreadyCopied(s) \/ RecordReceipt(s) \/ Unlink(s) \/ Fails(s)
             \/ IOError(s) \/ CutShort(s)
    PROVE  RecordsOK'
<1>1. /\ Exits(s) /\ UNCHANGED <<card, archive, sent>>
      /\ known' = known \/ known' = Nothing
      /\ active' = active \/ \E p \in process[s] : p.at \notin {"start", "lock"}
  BY DEF MarkCopied, AlreadyCopied, RecordReceipt, Unlink, Fails, IOError, MarkFailed,
         CutShort, EndsUnrecorded, Forgets, InTry
<1>2. /\ happened'.session = happened.session /\ happened.session <= happened'.session
      /\ happened'.disturbed = happened.disturbed
  <2>1. \/ happened' = happened
        \/ happened' = [happened EXCEPT !.error = @ + 1]
        \/ happened' = [happened EXCEPT !.cut = @ + 1]
    BY DEF MarkCopied, AlreadyCopied, RecordReceipt, Unlink, Fails, IOError, Trouble, CutShort
  <2> QED
    BY <2>1 DEF TypeOK
<1>3. ArchivesOK' /\ ManifestsKept
  BY <1>1, <1>2, ArchivesKept DEF RecordsOK
<1>4. GivensOK'
  BY <1>1, <1>2, <1>3, GivensExits DEF RecordsOK
<1>5. WorkOK'
  BY <1>1, <1>2, WorkExits DEF RecordsOK
<1>6. ASSUME NEW b \in active' PROVE ActiveOK(b)'
  <2>1. CASE MarkCopied(s)
    <3>1. PICK p, a : /\ p \in process[s] /\ a \in p.session /\ p.at = "markCopied"
                      /\ b = [a EXCEPT !.status = "copied"]
      BY <1>6, <2>1 DEF MarkCopied
    <3>2. a \in Record /\ active = {a}
      BY <3>1, AtHand DEF Disc, OpenAt, CopyAt
    <3>3. AtWork(p, a) /\ ActiveOK(a)
      BY <3>1, <3>2 DEF RecordsOK, WorkOK, WorkHere, OpenAt, CopyAt
    <3>4. b.id = a.id /\ b.files = a.files /\ b.batch = a.batch /\ b.status = "copied"
      BY <3>1, <3>2 DEF Record
    <3>5. Evidence(b) = Evidence(a)
      BY <3>4 DEF Evidence
    <3> QED
      BY <1>1, <1>2, <3>1, <3>3, <3>4, <3>5 DEF ActiveOK, AtWork
  <2>2. CASE RecordReceipt(s)
    <3>1. PICK p, a : /\ p \in process[s] /\ a \in p.session /\ p.at \in {"record", "restore"}
                      /\ b = [a EXCEPT !.receipted = TRUE]
      BY <1>6, <2>2 DEF RecordReceipt
    <3>2. a \in Record /\ active = {a}
      BY <3>1, AtHand DEF Disc, OpenAt, NotifyAt
    <3>3. ActiveOK(a)
      BY <3>2 DEF RecordsOK
    <3>4. b.id = a.id /\ b.files = a.files /\ b.batch = a.batch /\ b.status = a.status
      BY <3>1, <3>2 DEF Record
    <3>5. Evidence(b) = Evidence(a)
      BY <3>4 DEF Evidence
    <3> QED
      BY <1>1, <1>2, <3>3, <3>4, <3>5 DEF ActiveOK
  <2>3. CASE Unlink(s)
    BY <1>6, <2>3 DEF Unlink
  <2>4. CASE AlreadyCopied(s) \/ CutShort(s)
    <3>1. active' = active
      BY <2>4 DEF AlreadyCopied, CutShort, Trouble, EndsUnrecorded
    <3> QED
      BY <1>1, <1>2, <1>6, <3>1 DEF RecordsOK, ActiveOK
  <2>5. CASE Fails(s) \/ IOError(s)
    <3>1. PICK a \in active : b = [a EXCEPT !.status = "failed", !.receipted = FALSE]
      <4> DEFINE F(a) == [a EXCEPT !.status = "failed", !.receipted = FALSE]
      <4>1. active' = {F(a) : a \in active}
        BY <2>5 DEF Fails, IOError, Trouble, MarkFailed
      <4> HIDE DEF F
      <4>2. \E a \in active : b = F(a)
        BY <1>6, <4>1
      <4> QED
        BY <4>2 DEF F
    <3>2. a \in Record /\ ActiveOK(a)
      BY <3>1 DEF TypeOK, RecordsOK
    <3>3. b.id = a.id /\ b.files = a.files /\ b.batch = a.batch /\ b.status = "failed"
      BY <3>1, <3>2 DEF Record
    <3>4. Evidence(b) = Evidence(a)
      BY <3>3 DEF Evidence
    <3> QED
      BY <1>1, <1>2, <3>2, <3>3, <3>4 DEF ActiveOK
  <2> QED
    BY <2>1, <2>2, <2>3, <2>4, <2>5
<1> QED
  BY <1>3, <1>4, <1>5, <1>6 DEF RecordsOK

-----------------------------------------------------------------------------
(* The records: an action begins, and everybody else. *)

LEMMA RecordsBegin ==
    ASSUME TypeOK, TypeOK', Disc, RecordsOK, NEW s \in Slot, Begin(s)
    PROVE  RecordsOK'
<1>1. UNCHANGED <<card, active, archive, sent, happened>>
  BY DEF Begin
<1>2. (\A r \in active : ActiveOK(r))' /\ ArchivesOK' /\ ManifestsKept
  BY <1>1, ActiveKept
<1>3. happened.session <= happened'.session
  BY <1>1 DEF TypeOK
<1>4. CASE Exits(s) /\ Forgets(s)
  <2>1. GivensOK'
    BY <1>2, <1>3, <1>4, GivensExits DEF RecordsOK, Forgets
  <2>2. WorkOK'
    BY <1>1, <1>4, WorkExits DEF RecordsOK
  <2> QED
    BY <1>2, <2>1, <2>2 DEF RecordsOK
<1>5. ASSUME NEW p \in process[s], known' = known, Goes(s, [p EXCEPT !.at = "lock"])
      PROVE  RecordsOK'
  <2>1. PICK q : q = [p EXCEPT !.at = "lock"]
    OBVIOUS
  <2>2. p \in Process
    BY DEF TypeOK
  <2>3. q.at = "lock" /\ q.given = p.given /\ q.action = p.action
    BY <2>1, <2>2 DEF Process
  <2>4. Goes(s, q)
    BY <1>5, <2>1
  <2>5. GivensOK'
    BY <1>2, <1>3, <1>5, <2>3, <2>4, GivensMoves DEF RecordsOK
  <2>6. \A t \in Slot : process'[t] = IF t = s THEN {q} ELSE process[t]
    BY <2>4, GoesTo
  <2>7. WorkHere(q)'
    BY <2>3 DEF WorkHere, OpenAt, CopyAt, NotifyAt
  <2>8. \A t \in Slot : \A r \in process[t] : WorkHere(r)'
    BY <1>1, WorkFrame DEF RecordsOK, WorkOK
  <2>9. WorkOK'
    BY <2>6, <2>7, <2>8 DEF WorkOK
  <2> QED
    BY <1>2, <2>5, <2>9 DEF RecordsOK
<1> QED
  BY <1>4, <1>5 DEF Begin

(* The batch an action opens the records for is that of the session.       *)
LEMMA SameBatch ==
    ASSUME TypeOK, Disc, NEW s \in Slot, NEW p \in process[s], p.given.batch # {},
           \A b \in p.given.batch : IsCurrent(b), NEW a \in active, Matches(a)
    PROVE  p.given.batch = {a.batch}
<1>1. \A b \in p.given.batch : b \in Batches
  BY DEF IsCurrent
<1>2. a.batch \in Batches
  BY DEF Matches
<1>3. \A b, c \in Batches : b = c
  BY DEF Batches, Disc, Single, AtMostOne
<1> QED
  BY <1>1, <1>2, <1>3

LEMMA RecordsOpen ==
    ASSUME TypeOK, TypeOK', Disc, RecordsOK, NEW s \in Slot, Open(s)
    PROVE  RecordsOK'
<1>1. UNCHANGED <<card, active, archive, sent, happened>>
  BY Entering
<1>2. (\A r \in active : ActiveOK(r))' /\ ArchivesOK' /\ ManifestsKept
  BY <1>1, ActiveKept
<1>3. happened.session <= happened'.session
  BY <1>1 DEF TypeOK
<1>4. PICK p \in process[s] :
         /\ p.at = "lock"
         /\ \/ Exits(s) /\ Forgets(s)
            \/ Opened(p) # "exit" /\ Goes(s, OpenedProcess(p)) /\ known' = known
  BY Entering
<1>5. CASE Exits(s) /\ Forgets(s)
  <2>1. GivensOK'
    BY <1>2, <1>3, <1>5, GivensExits DEF RecordsOK, Forgets
  <2>2. WorkOK'
    BY <1>1, <1>5, WorkExits DEF RecordsOK
  <2> QED
    BY <1>2, <2>1, <2>2 DEF RecordsOK
<1>6. CASE Opened(p) # "exit" /\ Goes(s, OpenedProcess(p)) /\ known' = known
  <2>1. p \in Process
    BY DEF TypeOK
  <2>2. PICK l, q : l = Opened(p) /\ q = OpenedProcess(p)
    OBVIOUS
  <2>3. /\ q.at = l /\ q.given = p.given /\ q.action = p.action
        /\ q.todo = UNION {DOMAIN b.metas : b \in p.given.batch}
    BY <2>1, <2>2 DEF Process, OpenedProcess
  <2>4. GivensOK' /\ Goes(s, q)
    BY <1>2, <1>3, <1>4, <1>6, <2>2, <2>3, GivensMoves DEF RecordsOK
  <2>5. p.action # "reset" => p.given.batch # {}
    BY <1>4 DEF RecordsOK, GivensOK
  <2>6. WorkHere(q)
    <3>1. CASE p.action = "copy"
      <4>1. /\ \A b \in p.given.batch : IsCurrent(b)
            /\ \A a \in active : Matches(a) /\ a.status # "failed"
            /\ \/ l = "allocate" /\ active = {}
               \/ l = "verifyCopied" /\ \E a \in active : a.status = "copied"
               \/ l = "photos" /\ active # {} /\ \A a \in active : a.status # "copied"
        BY <1>6, <2>1, <2>2, <3>1, OpenedAt DEF CopyRefused
      <4>2. \A a \in active : p.given.batch = {a.batch}
        BY <1>4, <2>5, <3>1, <4>1, SameBatch
      <4>3. \A a \in active : q.todo = DOMAIN a.batch.metas
        BY <2>3, <4>2
      <4>4. ASSUME NEW a \in active PROVE AtWork(q, a)
        <5>1. a.status \in {"copying", "copied", "failed"}
          BY DEF TypeOK, Record
        <5>2. AtMostOne(active)
          BY DEF Disc, Single
        <5>3. l = "photos" => a.status = "copying"
          BY <4>1, <5>1
        <5>4. l = "verifyCopied" => a.status = "copied"
          BY <4>1, <5>2 DEF AtMostOne
        <5>5. l \in {"allocate", "verifyCopied", "photos"}
          BY <4>1
        <5> QED
          BY <2>3, <3>1, <4>1, <4>2, <4>3, <5>3, <5>4, <5>5 DEF AtWork
      <4>5. l = "allocate" => \A b \in p.given.batch : q.todo = DOMAIN b.metas
        <5>1. AtMostOne(p.given.batch)
          BY <1>4 DEF Disc, SingleProcess
        <5> QED
          BY <2>3, <5>1 DEF AtMostOne
      <4> QED
        BY <2>3, <4>1, <4>4, <4>5 DEF WorkHere
    <3>2. CASE p.action = "notify"
      <4>1. /\ ~NotifyRefused(p)
            /\ \/ l = "restore" /\ \E a \in active : archive[a.id].receipt # {}
               \/ l = "verify" /\ \A a \in active : archive[a.id].receipt = {}
        BY <1>6, <2>1, <2>2, <3>2, OpenedAt
      <4>2. PICK a \in active : a.status = "copied" /\ \E e \in p.given.proof : e.session = a.id
        BY <4>1 DEF NotifyRefused
      <4>3. active = {a}
        BY <4>2 DEF Disc, Single, AtMostOne
      <4>4. AtWork(q, a)
        <5>1. (\A b \in p.given.batch : IsCurrent(b)) /\ Matches(a)
          BY <4>1, <4>3 DEF NotifyRefused
        <5>2. p.given.batch = {a.batch}
          BY <1>4, <2>5, <3>2, <5>1, SameBatch
        <5>3. q.todo = DOMAIN a.batch.metas
          BY <2>3, <5>2
        <5>4. DOMAIN a.files \subseteq q.todo
          BY <5>3 DEF RecordsOK, ActiveOK
        <5>5. l = "restore" \/ (l = "verify" /\ \A i \in DOMAIN a.files : i \in q.todo)
          BY <4>1, <5>4
        <5> QED
          BY <2>3, <3>2, <4>1, <4>2, <4>3, <5>2, <5>3, <5>5 DEF AtWork
      <4> QED
        BY <2>3, <4>1, <4>3, <4>4 DEF WorkHere
    <3>3. CASE p.action = "reset"
      <4>1. l = "unlink" /\ \E a \in active : a.id \in p.given.token
        BY <1>6, <2>1, <2>2, <3>3, OpenedAt
      <4>2. PICK a : active = {a} /\ a.id \in p.given.token
        BY <4>1 DEF Disc, Single, AtMostOne
      <4>3. AtWork(q, a)
        BY <2>3, <3>3, <4>1, <4>2 DEF AtWork
      <4> QED
        BY <2>3, <4>1, <4>2, <4>3 DEF WorkHere
    <3> QED
      BY <2>1, <3>1, <3>2, <3>3 DEF Process
  <2>7. WorkHere(q)'
    BY <1>1, <2>6, WorkFrame
  <2>8. \A t \in Slot : \A r \in process[t] : WorkHere(r)'
    BY <1>1, WorkFrame DEF RecordsOK, WorkOK
  <2>9. WorkOK'
    <3>1. \A t \in Slot : process'[t] = IF t = s THEN {q} ELSE process[t]
      BY <2>4, GoesTo
    <3> QED
      BY <2>7, <2>8, <3>1 DEF WorkOK
  <2> QED
    BY <1>2, <2>4, <2>9 DEF RecordsOK
<1> QED
  BY <1>4, <1>5, <1>6

(* Another card: what notify has hashed of its session counts no more.     *)
LEMMA WorkDisturbed ==
    ASSUME TypeOK, Disc, ChangeCard, NEW s \in Slot, NEW p \in process[s], WorkHere(p)
    PROVE  WorkHere(p)'
<1>1. UNCHANGED <<active, archive>>
  BY DEF ChangeCard
<1>2. happened'.disturbed = happened.disturbed \cup BeingVerified
  BY DEF ChangeCard, TypeOK
<1>3. ASSUME p.at \in OpenAt, NEW a \in active PROVE AtWork(p, a)'
  <2>1. AtWork(p, a)
    BY <1>3 DEF WorkHere
  <2>2. p.at = "verify" => a.id \in happened'.disturbed
    <3>1. p.session = active
      BY <1>3 DEF Disc, Locked
    <3> QED
      BY <1>2, <1>3, <3>1 DEF BeingVerified
  <2>3. a.id \notin happened'.disturbed => a.id \notin happened.disturbed
    BY <1>2
  <2> QED
    BY <1>1, <2>1, <2>2, <2>3 DEF AtWork, IsPublished
<1> QED
  BY <1>1, <1>3 DEF WorkHere

(* The daemon, the operator and the card leave the records alone.          *)
LEMMA RecordsOthers ==
    ASSUME TypeOK, TypeOK', Disc, RecordsOK,
           \/ SensePhotoBatch \/ SenseArchiveVerified \/ SenseSessionObsolete
           \/ Daemon \/ OperatorResets \/ KillDaemon \/ ChangeCard
    PROVE  RecordsOK'
<1>1. /\ UNCHANGED <<active, archive, sent>>
      /\ happened'.session = happened.session /\ happened.session <= happened'.session
      /\ happened.disturbed \subseteq happened'.disturbed
      /\ \A t \in Slot : \A p \in process[t] : WorkHere(p)'
  <2>1. CASE SenseArchiveVerified
    <3>1. UNCHANGED <<card, active, archive, sent, happened>>
      BY <2>1, ProofPrinted
    <3> QED
      BY <3>1, WorkFrame DEF TypeOK, RecordsOK, WorkOK
  <2>2. CASE \/ SensePhotoBatch \/ SenseSessionObsolete
             \/ Daemon \/ OperatorResets \/ KillDaemon
    <3>1. /\ UNCHANGED <<card, active, archive, sent>>
          /\ \/ happened' = happened
             \/ happened' = [happened EXCEPT !.reset = @ + 1]
             \/ happened' = [happened EXCEPT !.cut = @ + 1]
      BY <2>2 DEF SensePhotoBatch, SenseSessionObsolete, Sense, Daemon, LaunchCopy, LaunchNotify,
             LaunchReset, Launch, Starts, OperatorResets, KillDaemon, Trouble
    <3>2. happened'.session = happened.session /\ happened'.disturbed = happened.disturbed
      BY <3>1 DEF TypeOK
    <3> QED
      BY <3>1, <3>2, WorkFrame DEF TypeOK, RecordsOK, WorkOK
  <2>3. CASE ChangeCard
    <3>1. UNCHANGED <<active, archive, sent>>
      BY <2>3 DEF ChangeCard
    <3>2. PICK n : happened' = [happened EXCEPT !.change = @ + 1, !.insert = n,
                                                !.disturbed = @ \cup BeingVerified]
      BY <2>3 DEF ChangeCard
    <3>3. /\ happened'.session = happened.session
          /\ happened'.disturbed = happened.disturbed \cup BeingVerified
      BY <3>2 DEF TypeOK
    <3>4. \A t \in Slot : \A p \in process[t] : WorkHere(p)'
      BY <2>3, WorkDisturbed DEF RecordsOK, WorkOK
    <3> QED
      BY <3>1, <3>3, <3>4 DEF TypeOK
  <2> QED
    BY <2>1, <2>2, <2>3
<1>2. (\A r \in active : ActiveOK(r))' /\ ArchivesOK' /\ ManifestsKept
  BY <1>1, ActiveKept
<1>3. ASSUME process' = process, GivenOK(known)' PROVE RecordsOK'
  <2>1. WorkOK'
    BY <1>1, <1>3 DEF WorkOK
  <2>2. ASSUME NEW t \in Slot, NEW p \in process[t]
        PROVE  GivenOK(p.given)' /\ (p.action # "reset" => p.given.batch # {})
    <3>1. GivenOK(p.given) /\ p.given \in Given /\ (p.action # "reset" => p.given.batch # {})
      BY DEF RecordsOK, GivensOK, TypeOK, Process
    <3> QED
      BY <1>1, <1>2, <3>1, GivenKept
  <2> QED
    BY <1>2, <1>3, <2>1, <2>2 DEF RecordsOK, GivensOK
<1>4. GivenOK(known) /\ known \in Given
  BY DEF RecordsOK, GivensOK, TypeOK
<1>5. CASE SensePhotoBatch
  <2>1. /\ known' = [known EXCEPT !.batch = {b \in Batches : IsCurrent(b)}] /\ process' = process
    BY <1>5 DEF SensePhotoBatch, Sense
  <2>2. /\ known'.proof = known.proof /\ known'.token = known.token
        /\ \A b \in known'.batch : DOMAIN b.metas # {}
    BY <1>4, <2>1 DEF Given, IsCurrent
  <2>3. GivenOK(known)'
    BY <1>1, <1>4, <2>2 DEF GivenOK
  <2> QED
    BY <1>3, <2>1, <2>3
<1>6. CASE SenseArchiveVerified
  <2>1. process' = process
    BY <1>6, ProofPrinted
  <2>2. \A e \in Evidences : archive[e.session].manifest = {e}
    <3>1. ASSUME NEW e \in Evidences PROVE archive[e.session].manifest = {e}
      <4>1. PICK i \in SessionId : e \in archive[i].receipt \/ e \in archive[i].manifest
        BY <3>1 DEF Evidences
      <4>2. e \in archive[i].manifest /\ e.session = i
        BY <4>1 DEF RecordsOK, ArchivesOK, ArchiveOK
      <4> QED
        BY <4>2 DEF Disc, Single, AtMostOne
    <3> QED
      BY <3>1
  <2>3. GivenOK(known)'
    <3>1. CASE known' = known
      BY <1>1, <1>4, <3>1 DEF GivenOK
    <3>2. CASE \E P \in SUBSET Evidences : known' = WithProof(P)
      <4>1. PICK P \in SUBSET Evidences : known' = WithProof(P)
        BY <3>2
      <4>2. known'.batch = known.batch /\ known'.token = known.token /\ known'.proof = P
        BY <1>4, <4>1 DEF Given, WithProof
      <4> QED
        BY <1>1, <1>4, <2>2, <4>2 DEF GivenOK
    <3> QED
      BY <1>6, <3>1, <3>2, ProofPrinted
  <2> QED
    BY <1>3, <2>1, <2>3
<1>7. CASE SenseSessionObsolete
  <2>1. /\ known' = [known EXCEPT !.token = {a.id : a \in {a \in active : ~Matches(a)}}]
        /\ process' = process
    BY <1>7 DEF SenseSessionObsolete, Sense
  <2>2. /\ known'.batch = known.batch /\ known'.proof = known.proof
        /\ known'.token = {a.id : a \in {a \in active : ~Matches(a)}}
    BY <1>4, <2>1 DEF Given
  <2>3. \A t \in known'.token : t <= happened.session
    BY <2>2 DEF RecordsOK, ActiveOK
  <2>4. GivenOK(known)'
    BY <1>1, <1>4, <2>2, <2>3 DEF GivenOK
  <2> QED
    BY <1>3, <2>1, <2>4
<1>8. ASSUME NEW s \in Slot, NEW action, NEW g \in Given, Starts(s, action, g), GivenOK(g),
             action # "reset" => g.batch # {}
      PROVE  RecordsOK'
  <2>1. \A t \in Slot : process'[t] = IF t = s THEN {Started(action, g)} ELSE process[t]
    BY <1>8, StartsTo
  <2>2. /\ Started(action, g).at = "start" /\ Started(action, g).given = g
        /\ Started(action, g).action = action
    BY DEF Started
  <2>3. known' = known
    BY <1>8 DEF Starts
  <2>4. WorkOK'
    <3>1. WorkHere(Started(action, g))'
      BY <2>2 DEF WorkHere, OpenAt, CopyAt, NotifyAt
    <3> QED
      BY <1>1, <2>1, <3>1 DEF WorkOK
  <2>5. GivenOK(g)'
    BY <1>1, <1>2, <1>8, GivenKept
  <2>6. ASSUME NEW t \in Slot, NEW p \in process[t]
        PROVE  GivenOK(p.given)' /\ (p.action # "reset" => p.given.batch # {})
    <3>1. GivenOK(p.given) /\ p.given \in Given /\ (p.action # "reset" => p.given.batch # {})
      BY DEF RecordsOK, GivensOK, TypeOK, Process
    <3> QED
      BY <1>1, <1>2, <3>1, GivenKept
  <2>7. GivenOK(known)'
    <3>1. PICK h : h = known
      OBVIOUS
    <3>2. GivenOK(h)'
      BY <1>1, <1>2, <1>4, <3>1, GivenKept
    <3> QED
      BY <2>3, <3>1, <3>2 DEF GivenOK
  <2>8. GivensOK'
    <3>1. \A t \in Slot : \A p \in process'[t] :
             GivenOK(p.given)' /\ (p.action # "reset" => p.given.batch # {})
      BY <1>8, <2>1, <2>2, <2>5, <2>6
    <3> QED
      BY <2>7, <3>1 DEF GivensOK
  <2> QED
    BY <1>2, <2>4, <2>8 DEF RecordsOK
<1>9. CASE Daemon
  <2>1. PICK action \in {"copy", "notify", "reset"} :
           Launch(action) /\ (action # "reset" => known.batch # {})
    BY <1>9 DEF Daemon, LaunchCopy, LaunchNotify, LaunchReset
  <2>2. PICK g : g = known
    OBVIOUS
  <2>3. Starts("child", action, g) /\ "child" \in Slot
    BY <2>1, <2>2 DEF Launch, Slot
  <2>4. g \in Given /\ GivenOK(g)
    BY <1>4, <2>2
  <2> QED
    BY <1>8, <2>1, <2>2, <2>3, <2>4
<1>10. CASE OperatorResets
  <2>1. PICK a \in active : Starts("orphan", "reset", [Nothing EXCEPT !.token = {a.id}])
    BY <1>10 DEF OperatorResets, Trouble
  <2>2. PICK g : g = [Nothing EXCEPT !.token = {a.id}]
    OBVIOUS
  <2>3. g.batch = {} /\ g.proof = {} /\ g.token = {a.id}
    BY <2>2 DEF Nothing
  <2>4. g \in Given /\ a.id <= happened.session
    BY <2>2 DEF Nothing, Given, TypeOK, Record, RecordsOK, ActiveOK
  <2>5. GivenOK(g)
    BY <2>3, <2>4 DEF GivenOK
  <2>6. Starts("orphan", "reset", g) /\ "orphan" \in Slot
    BY <2>1, <2>2 DEF Slot
  <2> QED
    BY <1>8, <2>4, <2>5, <2>6
<1>11. CASE KillDaemon
  <2>1. /\ process'["orphan"] = process["child"] /\ process'["child"] = {}
        /\ known' = Nothing
    BY <1>11, KillTo
  <2>2. \A t \in Slot : \A q \in process'[t] : \E u \in Slot : \E p \in process[u] : q = p
    BY <2>1 DEF Slot
  <2>3. GivensOK'
    BY <1>1, <1>2, <2>1, <2>2, GivensKept DEF RecordsOK
  <2>4. WorkOK'
    BY <1>1, <2>2 DEF WorkOK
  <2> QED
    BY <1>2, <2>3, <2>4 DEF RecordsOK
<1>12. CASE ChangeCard
  <2>1. known' = known /\ process' = process
    BY <1>12 DEF ChangeCard
  <2>2. GivenOK(known)'
    BY <1>1, <1>4, <2>1 DEF GivenOK
  <2> QED
    BY <1>3, <2>1, <2>2
<1> QED
  BY <1>5, <1>6, <1>7, <1>9, <1>10, <1>11, <1>12

LEMMA RecordsInit == Init => RecordsOK
<1>1. ASSUME Init PROVE RecordsOK
  <2>1. \A s \in Slot : process[s] = {}
    BY <1>1 DEF Init
  <2>2. \A i \in SessionId : /\ archive[i].photos = <<>> /\ archive[i].manifest = {}
                             /\ archive[i].receipt = {} /\ sent[i] = 0
    BY <1>1 DEF Init
  <2>3. \A i \in SessionId : ArchiveOK(i)
    BY <2>2, EmptyFiles DEF ArchiveOK
  <2>4. GivenOK(known)
    BY <1>1 DEF Init, Nothing, GivenOK
  <2> QED
    BY <1>1, <2>1, <2>3, <2>4 DEF Init, RecordsOK, GivensOK, ArchivesOK, WorkOK
<1> QED
  BY <1>1

LEMMA RecordsStutter ==
    ASSUME TypeOK, TypeOK', RecordsOK, UNCHANGED vars
    PROVE  RecordsOK'
<1>1. UNCHANGED <<card, active, archive, sent, known, process, happened>>
  BY DEF vars
<1>2. (\A r \in active : ActiveOK(r))' /\ ArchivesOK' /\ ManifestsKept
  BY <1>1, ActiveKept
<1>3. WorkOK'
  BY <1>1, WorkFrame DEF RecordsOK, WorkOK
<1>4. GivensOK'
  BY <1>1 DEF RecordsOK, GivensOK, GivenOK
<1> QED
  BY <1>2, <1>3, <1>4 DEF RecordsOK

LEMMA RecordsNext == TypeOK /\ TypeOK' /\ Disc /\ RecordsOK /\ [Next]_vars => RecordsOK'
<1>1. CASE TypeOK /\ TypeOK' /\ RecordsOK /\ UNCHANGED vars
  BY <1>1, RecordsStutter
<1>2. CASE TypeOK /\ TypeOK' /\ Disc /\ RecordsOK /\ Next
  BY <1>2, RecordsAllocate, RecordsSkip, RecordsStage, RecordsJournal, RecordsPublish,
     RecordsManifest, RecordsVerifyPhoto, RecordsVerify, RecordsSubmit, RecordsReceipt, RecordsEnd,
     RecordsBegin, RecordsOpen, RecordsOthers DEF Next, Step
<1> QED
  BY <1>1, <1>2

LEMMA RecordsAlways == Spec => [](TypeOK /\ Disc /\ RecordsOK)
<1>1. TypeOK /\ Disc /\ RecordsOK /\ [Next]_vars => (TypeOK /\ Disc /\ RecordsOK)'
  BY TypeNext, DiscNext, RecordsNext
<1> QED
  BY <1>1, TypeInit, DiscInit, RecordsInit, PTL DEF Spec

(* A manifest speaks for its destination for good, a receipt says what the *)
(* manifest says, every photo was on a card that looked like the batch,    *)
(* and what is announced was on one card as a whole if that card was left  *)
(* alone while notify hashed it photo after photo, however processes,      *)
(* kills, failures and exchanges of the card interleave (actions.py,       *)
(* complete_copy; common.py, verify_archive).                              *)
THEOREM ArchivesStayTrue == Spec => []ArchivesAreTrue
<1>1. TypeOK /\ Disc /\ RecordsOK => ArchivesAreTrue
  <2>1. ASSUME RecordsOK, NEW i \in SessionId
        PROVE  /\ \A e \in archive[i].manifest :
                     /\ archive[i].photos = e.files
                     /\ DOMAIN e.files = DOMAIN e.batch.metas
                     /\ \A p \in DOMAIN e.files : IsOfSomeCard(p, e.batch.metas[p], e.files[p])
               /\ archive[i].receipt \subseteq archive[i].manifest
               /\ sent[i] > 0 => \E e \in archive[i].manifest :
                                    i \notin happened.disturbed => IsOfOneCard(e)
    BY <2>1 DEF RecordsOK, ArchivesOK, ArchiveOK, FromCards
  <2> QED
    BY <2>1 DEF ArchivesAreTrue
<1> QED
  BY <1>1, RecordsAlways, PTL

-----------------------------------------------------------------------------
(* The insertions and the sessions. *)

CreditFrame ==
    /\ Credit' = Credit /\ card' = card
    /\ active' = {} => active = {}
    /\ \A b \in active' : \E a \in active : b.id = a.id /\ b.batch = a.batch
    /\ Tokens' \subseteq Tokens
    /\ \A t \in Slot : \A q \in process'[t] : q.at = "allocate" =>
          \E u \in Slot : \E p \in process[u] : p.at = "allocate" /\ q.given = p.given

LEMMA CreditKept ==
    ASSUME CreditOK, CreditFrame
    PROVE  CreditOK'
<1>1. Credit' >= 0 /\ (card' # {} /\ active' = {} => Credit' >= 1) /\ Batches' = Batches
  BY DEF CreditOK, CreditFrame, Batches
<1>2. ASSUME NEW b \in active', card' # {}, b.batch \notin Batches \/ b.id \in Tokens'
      PROVE  Credit' >= 1
  <2>1. PICK a \in active : b.id = a.id /\ b.batch = a.batch
    BY DEF CreditFrame
  <2> QED
    BY <1>2, <2>1 DEF CreditOK, CreditFrame, Matches
<1>3. ASSUME NEW t \in Slot, NEW q \in process'[t] PROVE CreditHere(q)'
  <2>1. CASE q.at # "allocate"
    BY <2>1 DEF CreditHere
  <2>2. CASE q.at = "allocate"
    <3>1. PICK u \in Slot : \E p \in process[u] : p.at = "allocate" /\ q.given = p.given
      BY <2>2 DEF CreditFrame
    <3>2. PICK p \in process[u] : p.at = "allocate" /\ q.given = p.given
      BY <3>1
    <3>3. CreditHere(p)
      BY DEF CreditOK
    <3> QED
      BY <1>1, <3>2, <3>3 DEF CreditHere, CreditFrame
  <2> QED
    BY <2>1, <2>2
<1> QED
  BY <1>1, <1>2, <1>3 DEF CreditOK, Matches

LEMMA TokensWithin ==
    ASSUME NEW X, known'.token \subseteq X,
           \A t \in Slot : \A q \in process'[t] : q.given.token \subseteq X
    PROVE  Tokens' \subseteq X
BY DEF Tokens

LEMMA GivenTokens ==
    /\ known.token \subseteq Tokens
    /\ \A u \in Slot : \A p \in process[u] : p.given.token \subseteq Tokens
BY DEF Tokens

SameSessions ==
    /\ active' = {} => active = {}
    /\ \A b \in active' : \E a \in active : b.id = a.id /\ b.batch = a.batch

LEMMA CreditGoes ==
    ASSUME TypeOK, CreditOK, SameSessions, Credit' = Credit, UNCHANGED <<card, known>>,
           NEW s \in Slot, NEW p \in process[s], NEW q, Goes(s, q), q.given = p.given,
           q.at # "allocate"
    PROVE  CreditOK'
<1>1. \A t \in Slot : process'[t] = IF t = s THEN {q} ELSE process[t]
  BY GoesTo
<1>2. Tokens' \subseteq Tokens
  <2>1. \A t \in Slot : \A r \in process'[t] : r.given.token \subseteq Tokens
    BY <1>1, GivenTokens
  <2>2. known'.token \subseteq Tokens
    BY GivenTokens
  <2> QED
    BY <2>1, <2>2, TokensWithin
<1>3. \A t \in Slot : \A r \in process'[t] : r.at = "allocate" =>
          \E u \in Slot : \E o \in process[u] : o.at = "allocate" /\ r.given = o.given
  BY <1>1
<1> QED
  BY <1>2, <1>3, CreditKept DEF CreditFrame, SameSessions

LEMMA CreditExits ==
    ASSUME TypeOK, CreditOK, SameSessions, Credit' = Credit, UNCHANGED card,
           known' = known \/ known' = Nothing, NEW s \in Slot, Exits(s)
    PROVE  CreditOK'
<1>1. \A t \in Slot : process'[t] = IF t = s THEN {} ELSE process[t]
  BY ExitsTo
<1>2. Tokens' \subseteq Tokens
  <2>1. \A t \in Slot : \A r \in process'[t] : r.given.token \subseteq Tokens
    BY <1>1, GivenTokens
  <2>2. known'.token \subseteq Tokens
    BY GivenTokens DEF Nothing
  <2> QED
    BY <2>1, <2>2, TokensWithin
<1>3. \A t \in Slot : \A r \in process'[t] : r.at = "allocate" =>
          \E u \in Slot : \E o \in process[u] : o.at = "allocate" /\ r.given = o.given
  BY <1>1
<1> QED
  BY <1>2, <1>3, CreditKept DEF CreditFrame, SameSessions

LEMMA CreditStays ==
    ASSUME TypeOK, TypeOK',
           /\ happened'.session = happened.session
           /\ happened'.insert = happened.insert
           /\ happened'.reset = happened.reset
    PROVE  Credit' = Credit /\ Credit \in Int
BY DEF Credit, TypeOK

LEMMA CreditEnd ==
    ASSUME TypeOK, TypeOK', Disc, CreditOK, NEW s \in Slot,
           MarkCopied(s) \/ AlreadyCopied(s) \/ RecordReceipt(s) \/ Fails(s)
             \/ IOError(s) \/ CutShort(s)
    PROVE  CreditOK'
<1>1. /\ Exits(s) /\ UNCHANGED card
      /\ known' = known \/ known' = Nothing
  BY DEF MarkCopied, AlreadyCopied, RecordReceipt, Fails, IOError, MarkFailed, CutShort,
         EndsUnrecorded, Forgets
<1>2. Credit' = Credit
  <2>1. \/ happened' = happened
        \/ happened' = [happened EXCEPT !.error = @ + 1]
        \/ happened' = [happened EXCEPT !.cut = @ + 1]
    BY DEF MarkCopied, AlreadyCopied, RecordReceipt, Fails, IOError, Trouble, CutShort
  <2>2. /\ happened'.session = happened.session /\ happened'.insert = happened.insert
        /\ happened'.reset = happened.reset
    BY <2>1 DEF TypeOK
  <2> QED
    BY <2>2, CreditStays
<1>3. SameSessions
  <2>1. CASE MarkCopied(s)
    <3>1. PICK p, a : /\ p \in process[s] /\ a \in p.session /\ p.at = "markCopied"
                      /\ active' = {[a EXCEPT !.status = "copied"]}
      BY <2>1 DEF MarkCopied
    <3>2. a \in Record /\ active = {a}
      BY <3>1, AtHand DEF Disc, OpenAt, CopyAt
    <3> QED
      BY <3>1, <3>2 DEF SameSessions, Record
  <2>2. CASE RecordReceipt(s)
    <3>1. PICK p, a : /\ p \in process[s] /\ a \in p.session /\ p.at \in {"record", "restore"}
                      /\ active' = {[a EXCEPT !.receipted = TRUE]}
      BY <2>2 DEF RecordReceipt
    <3>2. a \in Record /\ active = {a}
      BY <3>1, AtHand DEF Disc, OpenAt, NotifyAt
    <3> QED
      BY <3>1, <3>2 DEF SameSessions, Record
  <2>3. CASE AlreadyCopied(s) \/ CutShort(s)
    BY <2>3 DEF SameSessions, AlreadyCopied, CutShort, Trouble, EndsUnrecorded
  <2>4. CASE Fails(s) \/ IOError(s)
    <3> DEFINE F(a) == [a EXCEPT !.status = "failed", !.receipted = FALSE]
    <3>1. active' = {F(a) : a \in active}
      BY <2>4 DEF Fails, IOError, Trouble, MarkFailed
    <3>2. \A a \in active : F(a).id = a.id /\ F(a).batch = a.batch
      BY DEF TypeOK, Record
    <3> HIDE DEF F
    <3> QED
      BY <3>1, <3>2 DEF SameSessions
  <2> QED
    BY <2>1, <2>2, <2>3, <2>4
<1> QED
  BY <1>1, <1>2, <1>3, CreditExits

LEMMA CreditCopy ==
    ASSUME TypeOK, TypeOK', Disc, CreditOK, NEW s \in Slot,
           SkipPhoto(s) \/ StagePhoto(s) \/ Journal(s) \/ Publish(s) \/ WriteManifest(s)
             \/ VerifyPhoto(s) \/ VerifyAgain(s) \/ Submit(s) \/ WriteReceipt(s)
    PROVE  CreditOK'
<1>1. UNCHANGED <<card, known, happened>>
  BY DEF SkipPhoto, StagePhoto, Journal, Publish, WriteManifest, VerifyPhoto, VerifyAgain,
         Submit, WriteReceipt
<1>2. Credit' = Credit
  BY <1>1 DEF Credit
<1>3. SameSessions
  <2>1. CASE Journal(s)
    <3>1. PICK p, a, f : /\ p \in process[s] /\ a \in p.session /\ p.at = "journal"
                         /\ active' = {[a EXCEPT !.files = f]}
      BY <2>1 DEF Journal
    <3>2. a \in Record /\ active = {a}
      BY <3>1, AtHand DEF Disc, OpenAt, CopyAt
    <3> QED
      BY <3>1, <3>2 DEF SameSessions, Record
  <2>2. CASE ~Journal(s)
    BY <2>2 DEF SameSessions, SkipPhoto, StagePhoto, Publish, WriteManifest, VerifyPhoto, VerifyAgain,
                Submit, WriteReceipt
  <2> QED
    BY <2>1, <2>2
<1>4. ASSUME NEW p \in process[s], NEW q, Goes(s, q), q.given = p.given, q.at # "allocate"
      PROVE  CreditOK'
  BY <1>1, <1>2, <1>3, <1>4, CreditGoes
<1>5. PICK p : /\ p \in process[s]
               /\ \/ \E i : Goes(s, [p EXCEPT !.todo = @ \ {i}]) /\ p.at # "allocate"
                  \/ \E e : Goes(s, [p EXCEPT !.at = "journal", !.entry = e])
                  \/ \E b : Goes(s, [p EXCEPT !.at = "publish", !.session = {b}])
                  \/ \E i : Goes(s, [p EXCEPT !.at = "photos", !.todo = @ \ {i}, !.entry = {}])
                  \/ \E l \in {"markCopied", "submit", "receipt", "record"} :
                        Goes(s, [p EXCEPT !.at = l])
  <2>1. CASE SkipPhoto(s)
    BY <2>1 DEF SkipPhoto, IsNext
  <2>2. CASE StagePhoto(s)
    BY <2>2 DEF StagePhoto
  <2>3. CASE Journal(s)
    BY <2>3 DEF Journal
  <2>4. CASE Publish(s)
    BY <2>4 DEF Publish
  <2>5. CASE VerifyPhoto(s)
    BY <2>5, Verifying
  <2>6. CASE WriteManifest(s) \/ VerifyAgain(s) \/ Submit(s) \/ WriteReceipt(s)
    BY <2>6 DEF WriteManifest, VerifyAgain, Submit, WriteReceipt
  <2> QED
    BY <2>1, <2>2, <2>3, <2>4, <2>5, <2>6
<1>6. p \in Process
  BY <1>5 DEF TypeOK
<1>8. ASSUME NEW i, Goes(s, [p EXCEPT !.todo = @ \ {i}]), p.at # "allocate" PROVE CreditOK'
  <2>1. PICK q : q = [p EXCEPT !.todo = @ \ {i}]
    OBVIOUS
  <2>2. q.given = p.given /\ q.at # "allocate"
    BY <1>6, <1>8, <2>1 DEF Process
  <2> QED
    BY <1>4, <1>5, <1>8, <2>1, <2>2
<1>9. ASSUME NEW e, Goes(s, [p EXCEPT !.at = "journal", !.entry = e]) PROVE CreditOK'
  <2>1. PICK q : q = [p EXCEPT !.at = "journal", !.entry = e]
    OBVIOUS
  <2>2. q.given = p.given /\ q.at = "journal"
    BY <1>6, <2>1 DEF Process
  <2> QED
    BY <1>4, <1>5, <1>9, <2>1, <2>2
<1>10. ASSUME NEW b, Goes(s, [p EXCEPT !.at = "publish", !.session = {b}]) PROVE CreditOK'
  <2>1. PICK q : q = [p EXCEPT !.at = "publish", !.session = {b}]
    OBVIOUS
  <2>2. q.given = p.given /\ q.at = "publish"
    BY <1>6, <2>1 DEF Process
  <2> QED
    BY <1>4, <1>5, <1>10, <2>1, <2>2
<1>11. ASSUME NEW i, Goes(s, [p EXCEPT !.at = "photos", !.todo = @ \ {i}, !.entry = {}])
       PROVE  CreditOK'
  <2>1. PICK q : q = [p EXCEPT !.at = "photos", !.todo = @ \ {i}, !.entry = {}]
    OBVIOUS
  <2>2. q.given = p.given /\ q.at = "photos"
    BY <1>6, <2>1 DEF Process
  <2> QED
    BY <1>4, <1>5, <1>11, <2>1, <2>2
<1>12. ASSUME NEW l \in {"markCopied", "submit", "receipt", "record"}, Goes(s, [p EXCEPT !.at = l])
       PROVE  CreditOK'
  <2>1. PICK q : q = [p EXCEPT !.at = l]
    OBVIOUS
  <2>2. q.given = p.given /\ q.at = l
    BY <1>6, <2>1 DEF Process
  <2> QED
    BY <1>4, <1>5, <1>12, <2>1, <2>2
<1> QED
  BY <1>5, <1>8, <1>9, <1>10, <1>11, <1>12

LEMMA CreditOpen ==
    ASSUME TypeOK, TypeOK', Disc, RecordsOK, CreditOK, NEW s \in Slot, Begin(s) \/ Open(s)
    PROVE  CreditOK'
<1>1. UNCHANGED <<card, active, archive, sent, happened>>
  BY DEF Begin, Open, Enter
<1>2. Credit' = Credit /\ SameSessions
  BY <1>1 DEF Credit, SameSessions
<1>3. CASE Exits(s) /\ Forgets(s)
  BY <1>1, <1>2, <1>3, CreditExits DEF Forgets
<1>4. ASSUME NEW p \in process[s], NEW q, Goes(s, q), q.given = p.given, q.at # "allocate",
             known' = known
      PROVE  CreditOK'
  BY <1>1, <1>2, <1>4, CreditGoes
<1>5. CASE Begin(s)
  <2>1. PICK p : /\ p \in process[s]
                 /\ \/ Goes(s, [p EXCEPT !.at = "lock"]) /\ known' = known
                    \/ Exits(s) /\ Forgets(s)
    BY <1>5 DEF Begin
  <2>2. PICK q : q = [p EXCEPT !.at = "lock"]
    OBVIOUS
  <2>3. q.given = p.given /\ q.at = "lock"
    BY <2>1, <2>2 DEF TypeOK, Process
  <2> QED
    BY <1>3, <1>4, <2>1, <2>2, <2>3
<1>6. CASE Open(s)
  <2>1. PICK p \in process[s] :
           /\ p.at = "lock"
           /\ IF Opened(p) = "exit"
              THEN Exits(s) /\ Forgets(s)
              ELSE Goes(s, OpenedProcess(p)) /\ known' = known
    BY <1>6, Entering
  <2>2. PICK q : q = OpenedProcess(p)
    OBVIOUS
  <2>3. p \in Process /\ q.given = p.given /\ q.at = Opened(p)
    BY <2>1, <2>2 DEF TypeOK, Process, OpenedProcess
  <2>4. CASE Opened(p) = "allocate"
    <3>1. active = {} /\ \A b \in p.given.batch : IsCurrent(b)
      BY <2>3, <2>4, OpenedAt DEF CopyRefused
    <3>2. /\ card' = card /\ Goes(s, q) /\ known' = known
          /\ \A b \in p.given.batch : b \in Batches
      BY <1>1, <2>1, <2>2, <2>4, <3>1 DEF IsCurrent
    <3>3. Credit >= 1
      <4>1. p.action = "copy"
        BY <2>3, <2>4, OpenedAt
      <4>2. p.given.batch # {}
        BY <2>1, <4>1 DEF RecordsOK, GivensOK
      <4>3. card # {}
        BY <3>2, <4>2 DEF Batches
      <4> QED
        BY <3>1, <4>3 DEF CreditOK
    <3>4. \A t \in Slot : process'[t] = IF t = s THEN {q} ELSE process[t]
      BY <3>2, GoesTo
    <3>5. Tokens' \subseteq Tokens
      <4>1. \A t \in Slot : \A r \in process'[t] : r.given.token \subseteq Tokens
        BY <2>1, <2>3, <3>4, GivenTokens
      <4>2. known'.token \subseteq Tokens
        BY <3>2, GivenTokens
      <4> QED
        BY <4>1, <4>2, TokensWithin
    <3>6. CreditHere(q)'
      BY <1>2, <2>3, <3>2, <3>3 DEF CreditHere, Batches
    <3>7. \A t \in Slot : \A r \in process[t] : CreditHere(r)'
      BY <1>2, <3>2 DEF CreditOK, CreditHere, Batches
    <3>8. \A t \in Slot : \A r \in process'[t] : CreditHere(r)'
      BY <3>4, <3>6, <3>7
    <3> QED
      BY <1>1, <1>2, <3>2, <3>1, <3>3, <3>8 DEF CreditOK
  <2>5. CASE Opened(p) # "allocate"
    BY <1>3, <1>4, <2>1, <2>2, <2>3, <2>5
  <2> QED
    BY <2>4, <2>5
<1> QED
  BY <1>5, <1>6

LEMMA CreditAllocate ==
    ASSUME TypeOK, TypeOK', Disc, RecordsOK, CreditOK, NEW s \in Slot, Allocate(s)
    PROVE  CreditOK'
<1> DEFINE n == happened.session + 1
<1>1. PICK p, b, q, a :
         /\ p \in process[s] /\ b \in p.given.batch /\ p.at = "allocate"
         /\ a = [id |-> n, batch |-> b, status |-> "copying", files |-> <<>>, receipted |-> FALSE]
         /\ active' = {a}
         /\ q = [p EXCEPT !.at = "photos", !.session = active'] /\ Goes(s, q)
  BY DEF Allocate
<1>2. UNCHANGED <<card, known>> /\ happened' = [happened EXCEPT !.session = n]
  BY DEF Allocate
<1>3. Credit' = Credit - 1 /\ Credit \in Int
  BY <1>2 DEF Credit, TypeOK
<1>4. Credit >= 1 /\ (card # {} /\ b \notin Batches => Credit >= 2)
  BY <1>1 DEF CreditOK, CreditHere
<1>5. p \in Process /\ q.given = p.given /\ q.at = "photos"
  BY <1>1 DEF TypeOK, Process
<1>6. \A t \in Slot : process'[t] = IF t = s THEN {q} ELSE process[t]
  BY <1>1, GoesTo
<1>7. \A x \in Tokens : x <= happened.session /\ x \in Int
  BY DEF Tokens, RecordsOK, GivensOK, GivenOK, TypeOK, Process, Given, SessionId
<1>8. Tokens' \subseteq Tokens
  <2>1. ASSUME NEW t \in Slot, NEW r \in process'[t]
        PROVE  r.given.token \subseteq Tokens
    <3>1. CASE t = s
      <4>1. r.given = p.given
        BY <1>5, <1>6, <2>1, <3>1
      <4>2. p \in process[s]
        BY <1>1
      <4> QED
        BY <4>1, <4>2, GivenTokens
    <3>2. CASE t # s
      <4>1. r \in process[t]
        BY <1>6, <2>1, <3>2
      <4> QED
        BY <4>1, GivenTokens
    <3> QED
      BY <3>1, <3>2
  <2>2. known'.token \subseteq Tokens
    BY <1>2, GivenTokens
  <2> QED
    BY <2>1, <2>2, TokensWithin
<1>9. a.id = n /\ a.batch = b /\ a.id \notin Tokens'
  <2>1. n \notin Tokens
    BY <1>7 DEF TypeOK
  <2> QED
    BY <1>1, <1>8, <2>1
<1>10. ASSUME NEW t \in Slot, NEW r \in process'[t] PROVE r.at # "allocate"
  <2>1. CASE t = s
    BY <1>5, <1>6, <1>10, <2>1
  <2>2. CASE t # s
    <3>1. r.at \in {"start", "lock"}
      BY <1>1, <1>6, <1>10, <2>2, Alone DEF Disc
    <3> QED
      BY <3>1
  <2> QED
    BY <2>1, <2>2
<1>11. Batches' = Batches
  BY <1>2 DEF Batches
<1>12. card' # {} /\ b \notin Batches => Credit' >= 1
  BY <1>2, <1>3, <1>4
<1> QED
  BY <1>1, <1>3, <1>4, <1>9, <1>10, <1>11, <1>12 DEF CreditOK, CreditHere, Matches

LEMMA CreditUnlink ==
    ASSUME TypeOK, TypeOK', Disc, RecordsOK, CreditOK, NEW s \in Slot, Unlink(s)
    PROVE  CreditOK'
<1>1. PICK p \in process[s] : p.at = "unlink"
  BY DEF Unlink
<1>2. active' = {} /\ Exits(s) /\ UNCHANGED <<card, happened>>
  BY DEF Unlink
<1>3. PICK a : a \in active /\ a.id \in p.given.token
  <2>1. active # {} /\ \A a \in active : AtWork(p, a)
    BY <1>1 DEF RecordsOK, WorkOK, WorkHere, OpenAt
  <2> QED
    BY <1>1, <2>1 DEF AtWork
<1>4. Credit' = Credit
  BY <1>2 DEF Credit
<1>5. card # {} => Credit >= 1
  <2>1. a.id \in Tokens
    BY <1>3, GivenTokens
  <2> QED
    BY <1>3, <2>1 DEF CreditOK
<1>6. \A t \in Slot : process'[t] = IF t = s THEN {} ELSE process[t]
  BY <1>2, ExitsTo
<1>7. \A t \in Slot : \A r \in process'[t] : CreditHere(r)'
  BY <1>2, <1>4, <1>6 DEF CreditOK, CreditHere, Batches
<1> QED
  BY <1>2, <1>4, <1>5, <1>7 DEF CreditOK

LEMMA CreditOthers ==
    ASSUME TypeOK, TypeOK', Disc, RecordsOK, CreditOK,
           \/ SensePhotoBatch \/ SenseArchiveVerified \/ SenseSessionObsolete
           \/ Daemon \/ OperatorResets \/ KillDaemon \/ ChangeCard
    PROVE  CreditOK'
<1>1. active' = active /\ Credit \in Int
  <2>1. SenseArchiveVerified => active' = active
    BY ProofPrinted
  <2>2. ~SenseArchiveVerified => active' = active
    BY DEF SensePhotoBatch, SenseSessionObsolete, Sense, Daemon, LaunchCopy, LaunchNotify,
           LaunchReset, Launch, Starts, OperatorResets, KillDaemon, ChangeCard
  <2> QED
    BY <2>1, <2>2 DEF Credit, TypeOK
<1>2. SameSessions
  BY <1>1 DEF SameSessions
<1>3. known \in Given
  BY DEF TypeOK
<1>4. CASE SensePhotoBatch \/ SenseArchiveVerified
  <2>1. known'.token = known.token /\ UNCHANGED <<card, process, happened>>
    <3>1. CASE SensePhotoBatch
      BY <1>3, <3>1 DEF SensePhotoBatch, Sense, Given
    <3>2. CASE SenseArchiveVerified
      BY <3>2, ProofPrinted
    <3> QED
      BY <1>4, <3>1, <3>2
  <2>2. Tokens' = Tokens
    BY <2>1 DEF Tokens
  <2>3. CreditFrame
    BY <1>2, <2>1, <2>2 DEF CreditFrame, SameSessions, Credit
  <2> QED
    BY <2>3, CreditKept
<1>5. CASE SenseSessionObsolete
  <2>1. /\ known'.token = {a.id : a \in {a \in active : ~Matches(a)}}
        /\ UNCHANGED <<card, process, happened>>
    BY <1>3, <1>5 DEF SenseSessionObsolete, Sense, Given
  <2>2. Tokens' \subseteq Tokens \cup {a.id : a \in {a \in active : ~Matches(a)}}
    BY <2>1 DEF Tokens
  <2>3. Credit' = Credit /\ Batches' = Batches
    BY <2>1 DEF Credit, Batches
  <2>4. AtMostOne(active)
    BY DEF Disc, Single
  <2>5. ASSUME NEW a \in active', card' # {}, a.batch \notin Batches \/ a.id \in Tokens'
        PROVE  Credit' >= 1
    <3>1. a \in active
      BY <1>1, <2>5
    <3>2. a.id \in Tokens \/ ~Matches(a)
      BY <2>2, <2>4, <2>5, <3>1 DEF AtMostOne, Matches
    <3> QED
      BY <2>1, <2>3, <2>5, <3>1, <3>2 DEF CreditOK
  <2>6. \A t \in Slot : \A r \in process'[t] : CreditHere(r)'
    BY <2>1, <2>3 DEF CreditOK, CreditHere
  <2> QED
    BY <1>1, <2>1, <2>3, <2>5, <2>6 DEF CreditOK, Matches
<1>6. ASSUME NEW s \in Slot, NEW action, NEW g \in Given, Starts(s, action, g)
      PROVE  /\ Tokens' \subseteq Tokens \cup g.token
             /\ \A t \in Slot : \A r \in process'[t] : r.at = "allocate" =>
                   \E u \in Slot : \E o \in process[u] : o.at = "allocate" /\ r.given = o.given
             /\ UNCHANGED <<card, known>>
  <2>1. \A t \in Slot : process'[t] = IF t = s THEN {Started(action, g)} ELSE process[t]
    BY <1>6, StartsTo
  <2>2. Started(action, g).at = "start" /\ Started(action, g).given = g
    BY DEF Started
  <2>3. UNCHANGED <<card, known>>
    BY <1>6 DEF Starts
  <2>4. Tokens' \subseteq Tokens \cup g.token
    <3>1. \A t \in Slot : \A r \in process'[t] : r.given.token \subseteq Tokens \cup g.token
      BY <2>1, <2>2, GivenTokens
    <3>2. known'.token \subseteq Tokens \cup g.token
      BY <2>3, GivenTokens
    <3> QED
      BY <3>1, <3>2, TokensWithin
  <2>5. \A t \in Slot : \A r \in process'[t] : r.at = "allocate" =>
                   \E u \in Slot : \E o \in process[u] : o.at = "allocate" /\ r.given = o.given
    BY <2>1, <2>2
  <2> QED
    BY <2>3, <2>4, <2>5
<1>7. CASE Daemon
  <2>1. PICK action, g : Starts("child", action, g) /\ g = known /\ happened' = happened
    BY <1>7 DEF Daemon, LaunchCopy, LaunchNotify, LaunchReset, Launch
  <2>2. "child" \in Slot /\ g \in Given /\ g.token \subseteq Tokens
    BY <1>3, <2>1, GivenTokens DEF Slot
  <2>3. /\ Tokens' \subseteq Tokens
        /\ \A t \in Slot : \A r \in process'[t] : r.at = "allocate" =>
              \E u \in Slot : \E o \in process[u] : o.at = "allocate" /\ r.given = o.given
        /\ card' = card
    BY <1>6, <2>1, <2>2
  <2>4. Credit' = Credit
    BY <2>1 DEF Credit
  <2> QED
    BY <1>2, <2>3, <2>4, CreditKept DEF CreditFrame, SameSessions
<1>8. CASE OperatorResets
  <2>1. PICK a \in active : Starts("orphan", "reset", [Nothing EXCEPT !.token = {a.id}])
    BY <1>8 DEF OperatorResets, Trouble
  <2>2. PICK g : g = [Nothing EXCEPT !.token = {a.id}]
    OBVIOUS
  <2>3. "orphan" \in Slot /\ g \in Given
    BY <2>2 DEF Slot, Nothing, Given, TypeOK, Record
  <2>4. /\ \A t \in Slot : \A r \in process'[t] : r.at = "allocate" =>
              \E u \in Slot : \E o \in process[u] : o.at = "allocate" /\ r.given = o.given
        /\ card' = card
    BY <1>6, <2>1, <2>2, <2>3
  <2>5. Credit' = Credit + 1
    <3>1. happened' = [happened EXCEPT !.reset = @ + 1]
      BY <1>8 DEF OperatorResets, Trouble
    <3> QED
      BY <3>1 DEF Credit, TypeOK
  <2>6. Credit' >= 1
    BY <1>1, <2>5 DEF CreditOK
  <2>7. ASSUME NEW t \in Slot, NEW r \in process'[t] PROVE CreditHere(r)'
    <3>1. CASE r.at # "allocate"
      BY <3>1 DEF CreditHere
    <3>2. CASE r.at = "allocate"
      <4>1. PICK u \in Slot : \E o \in process[u] : o.at = "allocate" /\ r.given = o.given
        BY <2>4, <2>7, <3>2
      <4>2. PICK o \in process[u] : o.at = "allocate" /\ r.given = o.given
        BY <4>1
      <4>3. card # {} /\ (\E b \in r.given.batch : b \notin Batches) => Credit >= 2
        BY <4>2 DEF CreditOK, CreditHere
      <4>4. Batches' = Batches
        BY <2>4 DEF Batches
      <4> QED
        BY <1>1, <2>4, <2>5, <2>6, <4>3, <4>4 DEF CreditHere
    <3> QED
      BY <3>1, <3>2
  <2> QED
    BY <1>1, <2>5, <2>6, <2>7 DEF CreditOK
<1>9. CASE KillDaemon
  <2>1. /\ process'["orphan"] = process["child"] /\ process'["child"] = {}
        /\ known' = Nothing /\ card' = card
    BY <1>9, KillTo
  <2>2. \A t \in Slot : \A q \in process'[t] : \E u \in Slot : q \in process[u]
    BY <2>1 DEF Slot
  <2>3. Tokens' \subseteq Tokens
    <3>1. \A t \in Slot : \A r \in process'[t] : r.given.token \subseteq Tokens
      BY <2>2, GivenTokens
    <3>2. known'.token \subseteq Tokens
      BY <2>1 DEF Nothing
    <3> QED
      BY <3>1, <3>2, TokensWithin
  <2>4. Credit' = Credit
    <3>1. happened' = [happened EXCEPT !.cut = @ + 1]
      BY <1>9 DEF KillDaemon, Trouble
    <3> QED
      BY <3>1 DEF Credit, TypeOK
  <2> QED
    BY <1>2, <2>1, <2>2, <2>3, <2>4, CreditKept DEF CreditFrame, SameSessions
<1>10. CASE ChangeCard
  <2>1. /\ known' = known /\ process' = process /\ Tokens' = Tokens
    BY <1>10 DEF ChangeCard, Tokens
  <2>2. Credit' = IF Batches' \subseteq Batches THEN Credit ELSE Credit + 1
    <3>1. PICK n : /\ n = IF Batches' \subseteq Batches THEN happened.insert ELSE happened.insert + 1
                   /\ happened' = [happened EXCEPT !.change = @ + 1, !.insert = n,
                                                   !.disturbed = @ \cup BeingVerified]
      BY <1>10 DEF ChangeCard, Batches
    <3>2. /\ happened'.insert = n /\ happened'.reset = happened.reset
          /\ happened'.session = happened.session
      BY <3>1 DEF TypeOK
    <3>3. happened.insert \in Nat /\ happened.reset \in Nat /\ happened.session \in Nat
      BY DEF TypeOK
    <3>4. Credit' = n + happened.reset - happened.session
      BY <3>2 DEF Credit
    <3>5. Credit = happened.insert + happened.reset - happened.session
      BY DEF Credit
    <3>6. CASE Batches' \subseteq Batches
      BY <3>1, <3>4, <3>5, <3>6
    <3>7. CASE ~(Batches' \subseteq Batches)
      <4>1. n = happened.insert + 1
        BY <3>1, <3>7
      <4>2. Credit' = Credit + 1
        BY <3>3, <3>4, <3>5, <4>1
      <4> QED
        BY <3>7, <4>2
    <3> QED
      BY <3>6, <3>7
  <2>3. /\ \A b, c \in Batches : b = c
        /\ \A b, c \in Batches' : b = c
        /\ card' # {} => Batches' # {}
        /\ card = {} => Batches = {}
    <3>1. AtMostOne(card) /\ AtMostOne(card')
      BY <1>10 DEF Disc, Single, ChangeCard, AtMostOne
    <3> QED
      BY <3>1 DEF AtMostOne, Batches
  <2>4. Credit' >= Credit /\ Credit' \in Int
    BY <1>1, <2>2
  <2>5. card' # {} /\ card = {} => Credit' >= 1
    BY <1>1, <2>2, <2>3 DEF CreditOK
  <2>6. ASSUME NEW b, card' # {}, b \notin Batches'
        PROVE  /\ card # {} /\ b \notin Batches
               \/ Credit' = Credit + 1
    BY <2>2, <2>3, <2>6 DEF Batches
  <2>7. \A a \in active : card' # {} /\ (a.batch \notin Batches' \/ a.id \in Tokens) => Credit' >= 1
    BY <1>1, <2>4, <2>5, <2>6 DEF CreditOK, Matches
  <2>8. ASSUME NEW t \in Slot, NEW r \in process[t] PROVE CreditHere(r)'
    <3>1. CreditHere(r)
      BY DEF CreditOK
    <3> QED
      BY <1>1, <2>4, <2>6, <3>1 DEF CreditHere
  <2>9. Credit' >= 0 /\ (card' # {} /\ active = {} => Credit' >= 1)
    BY <1>1, <2>4, <2>5 DEF CreditOK
  <2> QED
    BY <1>1, <2>1, <2>7, <2>8, <2>9 DEF CreditOK, Matches
<1> QED
  BY <1>4, <1>5, <1>7, <1>8, <1>9, <1>10

LEMMA CreditInit == Init => CreditOK
<1>1. ASSUME Init PROVE CreditOK
  <2>1. \A s \in Slot : process[s] = {}
    BY <1>1 DEF Init
  <2>2. Credit = 0 /\ card = {} /\ active = {}
    BY <1>1 DEF Init, Credit
  <2> QED
    BY <2>1, <2>2 DEF CreditOK
<1> QED
  BY <1>1

LEMMA CreditNext ==
    TypeOK /\ TypeOK' /\ Disc /\ RecordsOK /\ CreditOK /\ [Next]_vars => CreditOK'
<1>1. CASE CreditOK /\ UNCHANGED vars
  BY <1>1 DEF vars, CreditOK, CreditHere, Credit, Batches, Matches, Tokens
<1>2. CASE TypeOK /\ TypeOK' /\ Disc /\ RecordsOK /\ CreditOK /\ Next
  BY <1>2, CreditOpen, CreditAllocate, CreditCopy, CreditEnd, CreditUnlink, CreditOthers
     DEF Next, Step
<1> QED
  BY <1>1, <1>2

-----------------------------------------------------------------------------
(* The notifications. *)

AtReceipt == \E s \in Slot : \E p \in process[s] : p.at = "receipt"

LEMMA SentSubmit ==
    ASSUME TypeOK, Disc, RecordsOK, SentOK, NEW s \in Slot, Submit(s)
    PROVE  SentOK'
<1>1. PICK p, a, q :
         /\ p \in process[s] /\ a \in p.session /\ p.at = "submit"
         /\ sent' = [sent EXCEPT ![a.id] = @ + 1]
         /\ q = [p EXCEPT !.at = "receipt"] /\ Goes(s, q)
  BY DEF Submit
<1>2. UNCHANGED <<active, archive, happened>>
  BY DEF Submit
<1>3. p \in Process /\ a.id \in SessionId /\ active = {a} /\ lock = {s} /\ process[s] = {p} /\ Fits(p)
  BY <1>1, AtHand DEF Disc, OpenAt, NotifyAt, Locked
<1>4. q.at = "receipt"
  BY <1>1, <1>3 DEF Process
<1>5. process'[s] = {q}
  BY <1>1, GoesTo
<1>6. AtWork(p, a) /\ p.action = "notify"
  BY <1>1, <1>3 DEF RecordsOK, WorkOK, WorkHere, OpenAt, NotifyAt, Fits
<1>7. ~AtReceipt
  <2>1. \A t \in Slot \ {s} : \A r \in process[t] : r.at \in {"start", "lock"}
    BY <1>1, Alone DEF Disc
  <2> QED
    BY <1>1, <1>3, <2>1 DEF AtReceipt
<1>8. sent[a.id] <= happened.cut
  BY <1>1, <1>3, <1>6, <1>7 DEF SentOK, AtWork, AtReceipt
<1>9. \A i \in SessionId : sent'[i] <= 1 + happened'.cut
  <2>1. sent \in [SessionId -> Nat] /\ happened.cut \in Nat
    BY DEF TypeOK
  <2>2. \A i \in SessionId : sent'[i] = IF i = a.id THEN sent[i] + 1 ELSE sent[i]
    BY <1>1, <2>1
  <2>3. sent[a.id] + 1 <= 1 + happened.cut
    BY <1>3, <1>8, <2>1
  <2> QED
    BY <1>2, <2>2, <2>3 DEF SentOK
<1> QED
  BY <1>4, <1>5, <1>9 DEF SentOK

(* The notifications do not change and the record does not become one that *)
(* is still to be announced.                                               *)
LEMMA SentKept ==
    ASSUME TypeOK, TypeOK', SentOK, sent' = sent, happened'.cut >= happened.cut,
           \A b \in active' : b.status = "copied" /\ archive'[b.id].receipt = {} =>
              \/ sent[b.id] = 0
              \/ \E a \in active : /\ a.id = b.id /\ a.status = "copied"
                                   /\ archive[a.id].receipt = {},
           \/ AtReceipt => AtReceipt'
           \/ happened'.cut > happened.cut
           \/ \A b \in active' : ~(b.status = "copied" /\ archive'[b.id].receipt = {})
    PROVE  SentOK'
<1>1. /\ happened.cut \in Nat /\ happened'.cut \in Nat /\ sent \in [SessionId -> Nat]
      /\ \A b \in active' : b.id \in SessionId
  BY DEF TypeOK, Record
<1>2. \A i \in SessionId : sent[i] <= 1 + happened'.cut
  BY <1>1 DEF SentOK
<1>3. ASSUME NEW b \in active', b.status = "copied", archive'[b.id].receipt = {}, ~AtReceipt'
      PROVE  sent[b.id] <= happened'.cut
  <2>1. CASE sent[b.id] = 0
    BY <1>1, <2>1
  <2>2. CASE \E a \in active : a.id = b.id /\ a.status = "copied" /\ archive[a.id].receipt = {}
    <3>1. sent[b.id] <= happened.cut \/ AtReceipt
      BY <2>2 DEF SentOK, AtReceipt
    <3>2. sent[b.id] <= 1 + happened.cut /\ sent[b.id] \in Nat
      BY <1>1 DEF SentOK
    <3> QED
      BY <1>1, <1>3, <3>1, <3>2
  <2> QED
    BY <1>3, <2>1, <2>2
<1> QED
  BY <1>2, <1>3 DEF SentOK, AtReceipt

LEMMA ReceiptStays ==
    ASSUME NEW s \in Slot, \A t \in Slot \ {s} : process'[t] = process[t],
           \A p \in process[s] : p.at # "receipt"
    PROVE  AtReceipt => AtReceipt'
BY DEF AtReceipt

(* Only the process that submits is at "receipt".                          *)
LEMMA SentProcess ==
    ASSUME TypeOK, TypeOK', Disc, RecordsOK, SentOK, NEW s \in Slot,
           Begin(s) \/ Open(s) \/ Allocate(s) \/ SkipPhoto(s) \/ StagePhoto(s)
             \/ Journal(s) \/ Publish(s) \/ WriteManifest(s) \/ VerifyPhoto(s) \/ VerifyAgain(s)
    PROVE  SentOK'
<1>1. sent' = sent
  BY DEF Begin, Open, Enter, Allocate, SkipPhoto, StagePhoto, Journal, Publish,
         WriteManifest, VerifyPhoto, VerifyAgain
<1>2. happened'.cut >= happened.cut
  <2>1. happened' = happened \/ happened' = [happened EXCEPT !.session = @ + 1]
    BY DEF Begin, Open, Enter, Allocate, SkipPhoto, StagePhoto, Journal, Publish,
           WriteManifest, VerifyPhoto, VerifyAgain
  <2> QED
    BY <2>1 DEF TypeOK
<1>3. PICK p \in process[s] : p.at \in {"start", "lock", "allocate", "photos", "journal", "publish",
                                       "verify", "verifyCopied"}
  BY DEF Begin, Open, Enter, Allocate, SkipPhoto, StagePhoto, IsNext, Journal, Publish,
         WriteManifest, VerifyPhoto, VerifyAgain
<1>4. AtReceipt => AtReceipt'
  <2>1. (\E q : Goes(s, q)) \/ Exits(s)
    BY DEF Begin, Open, Enter, Allocate, SkipPhoto, StagePhoto, Journal, Publish,
           WriteManifest, VerifyPhoto, VerifyAgain
  <2>2. \A t \in Slot \ {s} : process'[t] = process[t]
    BY <2>1, GoesTo, ExitsTo
  <2>3. \A r \in process[s] : r.at # "receipt"
    BY <1>3 DEF Disc, SingleProcess, AtMostOne
  <2> QED
    BY <2>2, <2>3, ReceiptStays
<1>5. ASSUME NEW b \in active', b.status = "copied", archive'[b.id].receipt = {}
      PROVE  \E a \in active : a.id = b.id /\ a.status = "copied" /\ archive[a.id].receipt = {}
  <2>1. CASE \/ Begin(s) \/ Open(s) \/ SkipPhoto(s) \/ StagePhoto(s)
             \/ VerifyPhoto(s) \/ VerifyAgain(s)
    <3>1. active' = active /\ archive' = archive
      BY <2>1 DEF Begin, Open, Enter, SkipPhoto, StagePhoto, VerifyPhoto, VerifyAgain
    <3> QED
      BY <1>5, <3>1
  <2>2. CASE Allocate(s)
    <3>1. PICK n, c : b = [id |-> n, batch |-> c, status |-> "copying",
                           files |-> <<>>, receipted |-> FALSE]
      BY <1>5, <2>2 DEF Allocate
    <3>2. b.status = "copying"
      BY <3>1
    <3> QED
      BY <1>5, <3>2
  <2>3. CASE Journal(s)
    <3>1. PICK o, a, f : /\ o \in process[s] /\ a \in o.session /\ o.at = "journal"
                         /\ active' = {[a EXCEPT !.files = f]}
      BY <2>3 DEF Journal
    <3>2. a \in Record /\ active = {a}
      BY <3>1, AtHand DEF Disc, OpenAt, CopyAt
    <3>3. a.status = "copying"
      BY <3>1, <3>2 DEF RecordsOK, WorkOK, WorkHere, AtWork, OpenAt, CopyAt
    <3>4. b.status = "copying"
      BY <3>1, <3>2, <3>3 DEF Record
    <3> QED
      BY <1>5, <3>4
  <2>4. CASE Publish(s) \/ WriteManifest(s)
    <3>1. active' = active
      BY <2>4 DEF Publish, WriteManifest
    <3>2. \A i \in SessionId : archive'[i].receipt = archive[i].receipt
      <4>1. PICK i, v : \/ archive' = [archive EXCEPT ![i].photos = v]
                        \/ archive' = [archive EXCEPT ![i].manifest = v]
        BY <2>4 DEF Publish, WriteManifest
      <4> QED
        BY <4>1 DEF TypeOK
    <3>3. b.id \in SessionId
      BY <1>5 DEF TypeOK, Record
    <3> QED
      BY <1>5, <3>1, <3>2, <3>3
  <2> QED
    BY <2>1, <2>2, <2>3, <2>4
<1> QED
  BY <1>1, <1>2, <1>4, <1>5, SentKept

LEMMA SentEnd ==
    ASSUME TypeOK, TypeOK', Disc, RecordsOK, SentOK, NEW s \in Slot,
           MarkCopied(s) \/ AlreadyCopied(s) \/ WriteReceipt(s) \/ RecordReceipt(s) \/ Unlink(s)
             \/ Fails(s) \/ IOError(s) \/ CutShort(s)
    PROVE  SentOK'
<1>1. sent' = sent
  BY DEF MarkCopied, AlreadyCopied, WriteReceipt, RecordReceipt, Unlink, Fails, IOError,
         MarkFailed, CutShort, EndsUnrecorded
<1>2. happened.cut \in Nat /\ happened'.cut >= happened.cut
  <2>1. \/ happened' = happened
        \/ happened' = [happened EXCEPT !.error = @ + 1]
        \/ happened' = [happened EXCEPT !.cut = @ + 1]
    BY DEF MarkCopied, AlreadyCopied, WriteReceipt, RecordReceipt, Unlink, Fails, IOError, Trouble,
           CutShort
  <2> QED
    BY <2>1 DEF TypeOK
<1>3. CASE MarkCopied(s)
  <2>1. PICK p, a, b : /\ p \in process[s] /\ a \in p.session /\ p.at = "markCopied"
                       /\ b = [a EXCEPT !.status = "copied"] /\ active' = {b}
    BY <1>3 DEF MarkCopied
  <2>2. a \in Record /\ active = {a} /\ process[s] = {p}
    BY <2>1, AtHand DEF Disc, OpenAt, CopyAt
  <2>3. a.status = "copying" /\ ActiveOK(a)
    BY <2>1, <2>2 DEF RecordsOK, WorkOK, WorkHere, AtWork, OpenAt, CopyAt
  <2>4. b.id = a.id /\ sent[b.id] = 0
    BY <2>1, <2>2, <2>3 DEF Record, ActiveOK
  <2>5. AtReceipt => AtReceipt'
    <3>1. \A t \in Slot \ {s} : process'[t] = process[t]
      BY <1>3, ExitsTo DEF MarkCopied
    <3> QED
      BY <2>1, <2>2, <3>1, ReceiptStays
  <2> QED
    BY <1>1, <1>2, <2>1, <2>4, <2>5, SentKept
<1>4. CASE AlreadyCopied(s)
  <2>1. PICK p : p \in process[s] /\ p.at = "verifyCopied"
    BY <1>4 DEF AlreadyCopied
  <2>2. process[s] = {p}
    BY <2>1 DEF Disc, SingleProcess, AtMostOne
  <2>3. AtReceipt => AtReceipt'
    <3>1. \A t \in Slot \ {s} : process'[t] = process[t]
      BY <1>4, ExitsTo DEF AlreadyCopied
    <3> QED
      BY <2>1, <2>2, <3>1, ReceiptStays
  <2>4. active' = active /\ archive' = archive
    BY <1>4 DEF AlreadyCopied
  <2> QED
    BY <1>1, <1>2, <2>3, <2>4, SentKept
<1>5. CASE WriteReceipt(s)
  <2>1. PICK p, a :
           /\ p \in process[s] /\ a \in p.session /\ p.at = "receipt"
           /\ archive' = [archive EXCEPT ![a.id].receipt = p.given.proof]
           /\ active' = active
    BY <1>5 DEF WriteReceipt
  <2>2. a.id \in SessionId /\ active = {a} /\ Fits(p)
    BY <2>1, AtHand DEF Disc, OpenAt, NotifyAt, Locked
  <2>3. AtWork(p, a) /\ p.action = "notify"
    BY <2>1, <2>2 DEF RecordsOK, WorkOK, WorkHere, OpenAt, NotifyAt, Fits
  <2>4. p.given.proof # {}
    BY <2>1, <2>2, <2>3, GivenProof
  <2>5. archive'[a.id].receipt # {}
    BY <2>1, <2>2, <2>4 DEF TypeOK
  <2> QED
    BY <1>1, <1>2, <2>1, <2>2, <2>5, SentKept
<1>6. CASE RecordReceipt(s)
  <2>1. PICK p, a, b :
           /\ p \in process[s] /\ a \in p.session /\ p.at \in {"record", "restore"}
           /\ b = [a EXCEPT !.receipted = TRUE] /\ active' = {b} /\ archive' = archive
    BY <1>6 DEF RecordReceipt
  <2>2. a \in Record /\ active = {a}
    BY <2>1, AtHand DEF Disc, OpenAt, NotifyAt
  <2>3. archive[a.id].receipt # {}
    BY <2>1, <2>2 DEF RecordsOK, WorkOK, WorkHere, AtWork, OpenAt, NotifyAt
  <2>4. b.id = a.id
    BY <2>1, <2>2 DEF Record
  <2> QED
    BY <1>1, <1>2, <2>1, <2>3, <2>4, SentKept
<1>7. CASE Unlink(s)
  BY <1>1, <1>2, <1>7, SentKept DEF Unlink
<1>8. CASE Fails(s) \/ IOError(s)
  <2> DEFINE F(a) == [a EXCEPT !.status = "failed", !.receipted = FALSE]
  <2>1. active' = {F(a) : a \in active}
    BY <1>8 DEF Fails, IOError, Trouble, MarkFailed
  <2>2. \A a \in active : F(a).status = "failed"
    BY DEF TypeOK, Record
  <2> HIDE DEF F
  <2>3. \A b \in active' : b.status # "copied"
    BY <2>1, <2>2
  <2> QED
    BY <1>1, <1>2, <2>3, SentKept
<1>9. CASE CutShort(s)
  <2>1. happened' = [happened EXCEPT !.cut = @ + 1] /\ active' = active /\ archive' = archive
    BY <1>9 DEF CutShort, Trouble, EndsUnrecorded
  <2>2. happened'.cut > happened.cut
    BY <1>2, <2>1 DEF TypeOK
  <2> QED
    BY <1>1, <1>2, <2>1, <2>2, SentKept
<1> QED
  BY <1>3, <1>4, <1>5, <1>6, <1>7, <1>8, <1>9

LEMMA SentOthers ==
    ASSUME TypeOK, TypeOK', SentOK,
           \/ SensePhotoBatch \/ SenseArchiveVerified \/ SenseSessionObsolete
           \/ Daemon \/ OperatorResets \/ KillDaemon \/ ChangeCard
    PROVE  SentOK'
<1>1. UNCHANGED <<active, archive, sent>>
  <2>1. SenseArchiveVerified => UNCHANGED <<active, archive, sent>>
    BY ProofPrinted
  <2>2. ~SenseArchiveVerified => UNCHANGED <<active, archive, sent>>
    BY DEF SensePhotoBatch, SenseSessionObsolete, Sense, Daemon, LaunchCopy, LaunchNotify,
           LaunchReset, Launch, Starts, OperatorResets, KillDaemon, ChangeCard
  <2> QED
    BY <2>1, <2>2
<1>2. happened.cut \in Nat /\ happened'.cut >= happened.cut
  <2>1. \/ happened' = happened
        \/ happened' = [happened EXCEPT !.reset = @ + 1]
        \/ happened' = [happened EXCEPT !.cut = @ + 1]
        \/ \E n, d : happened' = [happened EXCEPT !.change = @ + 1, !.insert = n, !.disturbed = d]
    <3>1. SenseArchiveVerified => happened' = happened
      BY ProofPrinted
    <3>2. ChangeCard => \E n, d : happened' = [happened EXCEPT !.change = @ + 1, !.insert = n,
                                                              !.disturbed = d]
      BY DEF ChangeCard
    <3>3. ~(SenseArchiveVerified \/ ChangeCard) => \/ happened' = happened
                                                  \/ happened' = [happened EXCEPT !.reset = @ + 1]
                                                  \/ happened' = [happened EXCEPT !.cut = @ + 1]
      BY DEF SensePhotoBatch, SenseSessionObsolete, Sense, Daemon, LaunchCopy, LaunchNotify,
             LaunchReset, Launch, OperatorResets, Trouble, KillDaemon
    <3> QED
      BY <3>1, <3>2, <3>3
  <2>2. happened.cut \in Nat /\ (happened'.cut = happened.cut \/ happened'.cut = happened.cut + 1)
    BY <2>1 DEF TypeOK
  <2> QED
    BY <2>2
<1>3. CASE KillDaemon
  <2>1. happened'.cut > happened.cut
    BY <1>2, <1>3 DEF KillDaemon, Trouble, TypeOK
  <2> QED
    BY <1>1, <1>2, <2>1, SentKept
<1>4. CASE process' = process
  <2>1. AtReceipt => AtReceipt'
    BY <1>4 DEF AtReceipt
  <2> QED
    BY <1>1, <1>2, <2>1, SentKept
<1>5. CASE Daemon \/ OperatorResets
  <2>1. PICK s \in Slot : \E action, g : Starts(s, action, g)
    BY <1>5 DEF Daemon, LaunchCopy, LaunchNotify, LaunchReset, Launch, OperatorResets, Trouble, Slot
  <2>2. process[s] = {} /\ \A t \in Slot \ {s} : process'[t] = process[t]
    BY <2>1, StartsTo DEF Starts
  <2>3. AtReceipt => AtReceipt'
    BY <2>2, ReceiptStays
  <2> QED
    BY <1>1, <1>2, <2>3, SentKept
<1>6. SensePhotoBatch \/ SenseArchiveVerified \/ SenseSessionObsolete \/ ChangeCard =>
         process' = process
  BY ProofPrinted DEF SensePhotoBatch, SenseSessionObsolete, Sense, ChangeCard
<1> QED
  BY <1>3, <1>4, <1>5, <1>6

LEMMA SentInit == Init => SentOK
<1>1. ASSUME Init PROVE SentOK
  <2>1. active = {} /\ happened.cut = 0 /\ \A i \in SessionId : sent[i] = 0
    BY <1>1 DEF Init
  <2> QED
    BY <2>1 DEF SentOK
<1> QED
  BY <1>1

LEMMA SentNext == TypeOK /\ TypeOK' /\ Disc /\ RecordsOK /\ SentOK /\ [Next]_vars => SentOK'
<1>1. CASE SentOK /\ UNCHANGED vars
  BY <1>1 DEF vars, SentOK
<1>2. CASE TypeOK /\ TypeOK' /\ Disc /\ RecordsOK /\ SentOK /\ Next
  BY <1>2, SentProcess, SentSubmit, SentEnd, SentOthers DEF Next, Step
<1> QED
  BY <1>1, <1>2

(* A batch is imported once per insertion and once more per reset that the *)
(* operator asks for, whatever tokens are stale; a session is announced    *)
(* once and once more per process that is killed, or fails without a       *)
(* record of that, a handler that cannot mark the session among them       *)
(* (scripts/session.py, actions.py, the README of the example).            *)
THEOREM ImportedOncePerInsertion == Spec => []OncePerInsertion
<1> DEFINE Inv == TypeOK /\ Disc /\ RecordsOK /\ CreditOK /\ SentOK
<1>1. Init => Inv
  BY TypeInit, DiscInit, RecordsInit, CreditInit, SentInit
<1>2. Inv /\ [Next]_vars => Inv'
  BY TypeNext, DiscNext, RecordsNext, CreditNext, SentNext
<1>3. Inv => OncePerInsertion
  <2>1. ASSUME TypeOK, CreditOK PROVE happened.session <= happened.insert + happened.reset
    BY <2>1 DEF TypeOK, CreditOK, Credit
  <2> QED
    BY <2>1 DEF OncePerInsertion, SentOK
<1> QED
  BY <1>1, <1>2, <1>3, PTL DEF Spec

-----------------------------------------------------------------------------
(* A card that is left alone: no check fails. *)

(* The data of the one card, photo by photo.                               *)
LEMMA OneSource ==
    ASSUME Disc, NEW c \in card, NEW i, NEW d, SourceIs(i, d)
    PROVE  i \in DOMAIN c.photos /\ d = c.photos[i].data
BY DEF Disc, Single, AtMostOne, SourceIs

LEMMA PhotosPass ==
    ASSUME TypeOK, NEW a \in active, ActiveOK(a), Disc, SameRecord(a), NEW i \in DOMAIN a.batch.metas
    PROVE  IF IsPublished(a, i) THEN IsIntact(a, i) ELSE IsReadable(a, i)
<1>1. CASE IsPublished(a, i)
  <2>1. i \in DOMAIN a.files /\ archive[a.id].photos[i] = a.files[i]
    BY <1>1 DEF ActiveOK, IsPublished
  <2>2. SourceIs(i, a.files[i])
    BY <2>1 DEF SameRecord
  <2>3. \E c \in card : i \in DOMAIN c.photos /\ c.photos[i].data = a.files[i]
    BY <2>2 DEF SourceIs
  <2> QED
    BY <1>1, <2>1, <2>3 DEF IsIntact, IsRecorded
<1>2. CASE ~IsPublished(a, i)
  <2>1. PICK c \in card : Batch(c) = a.batch
    BY DEF SameRecord, Matches, Batches
  <2>2. a.batch.metas = [p \in DOMAIN c.photos |-> c.photos[p].meta]
    BY <2>1 DEF Batch
  <2>3. i \in DOMAIN c.photos /\ c.photos[i].meta = a.batch.metas[i]
    BY <2>2
  <2>4. c.photos[i].data \in Source(i, a.batch.metas[i])
    BY <2>3 DEF Source
  <2>5. i \in DOMAIN a.files => a.files[i] = c.photos[i].data
    BY OneSource DEF SameRecord
  <2> QED
    BY <1>2, <2>4, <2>5 DEF IsReadable
<1> QED
  BY <1>1, <1>2

LEMMA CompletePasses ==
    ASSUME NEW a, ActiveOK(a), SameRecord(a), \A i \in DOMAIN a.batch.metas : IsPublished(a, i)
    PROVE  CanComplete(a)
<1>1. IsCurrent(a.batch)
  BY DEF SameRecord, Matches, IsCurrent, ActiveOK
<1>2. DOMAIN a.batch.metas \subseteq DOMAIN a.files
  BY DEF ActiveOK, IsPublished
<1> QED
  BY <1>1, <1>2 DEF CanComplete, ActiveOK

LEMMA VerifyPasses ==
    ASSUME TypeOK, Disc, ArchivesOK, NEW a \in active, ActiveOK(a), SameRecord(a),
           a.status = "copied"
    PROVE  Verified(a) /\ IsCurrent(a.batch)
<1>1. a.id \in SessionId /\ a.files \in Files
  BY DEF TypeOK, Record
<1>2. archive[a.id].manifest = {Evidence(a)} /\ ArchiveOK(a.id)
  BY <1>1 DEF ActiveOK, ArchivesOK
<1>3. archive[a.id].photos = a.files /\ DOMAIN a.files = DOMAIN a.batch.metas
  BY <1>2 DEF ArchiveOK, Evidence
<1>4. PICK c \in card : Batch(c) = a.batch
  BY DEF SameRecord, Matches, Batches
<1>5. DOMAIN a.batch.metas = DOMAIN c.photos
  BY <1>4 DEF Batch
<1>6. \A i \in DOMAIN a.files : a.files[i] = c.photos[i].data
  BY OneSource DEF SameRecord
<1>7. SameInventory(a)
  BY <1>4 DEF SameInventory
<1>8. \A i \in DOMAIN a.files : IsIntact(a, i)
  BY <1>3, <1>5, <1>6 DEF IsIntact, IsRecorded
<1>9. IsCurrent(a.batch)
  BY DEF SameRecord, Matches, IsCurrent, ActiveOK
<1> QED
  BY <1>2, <1>3, <1>7, <1>8, <1>9 DEF Verified, Agrees

(* The photo at hand, of those that are still to be hashed.                *)
LEMMA ComparesPasses ==
    ASSUME TypeOK, NEW a \in active, Verified(a), NEW T, T \subseteq DOMAIN a.batch.metas, T # {}
    PROVE  Compares(a, T)
<1>1. T \subseteq Nat
  <2>1. DOMAIN a.batch.metas \subseteq Numbers
    BY DataTypes DEF TypeOK, Record
  <2> QED
    BY <2>1, ArchiverAssumption DEF Numbers
<1>2. PICK m \in T : \A n \in T : m <= n
  BY <1>1, LeastNatural
<1>3. Min(T) \in T
  BY <1>2 DEF Min
<1>4. Agrees(a) /\ \A i \in DOMAIN a.batch.metas : IsIntact(a, i)
  BY DEF Verified, Agrees
<1> QED
  BY <1>3, <1>4 DEF Compares

LEMMA NothingRaises ==
    ASSUME TypeOK, Disc, RecordsOK, SameCard, LeftAlone, NEW s \in Slot, NEW p \in process[s],
           InTry(p)
    PROVE  ~Raises(p)
<1>1. ASSUME NEW a \in p.session
      PROVE  /\ \A i \in p.todo : IsNext(p, a, i) =>
                    IF IsPublished(a, i) THEN IsIntact(a, i) ELSE IsReadable(a, i)
             /\ p.at = "publish" => ~IsPublished(a, Min(p.todo))
             /\ p.at = "photos" /\ p.todo = {} => CanComplete(a)
             /\ p.at \in {"verify", "verifyCopied"} => /\ p.todo # {} => Compares(a, p.todo)
                                                      /\ SameInventory(a)
             /\ p.at = "verify" => Authorized(p, a)
             /\ p.at = "restore" => p.given.proof = archive[a.id].receipt
  <2>1. p.at \in OpenAt
    BY DEF InTry, TypeOK, Process
  <2>2. /\ a \in active /\ a \in Record /\ a.id \in SessionId /\ p \in Process /\ Fits(p)
        /\ p.at \notin {"start", "lock"}
    BY <1>1, <2>1, AtHand DEF Disc, Locked
  <2>3. AtWork(p, a) /\ ActiveOK(a) /\ ArchivesOK /\ SameRecord(a)
    BY <2>1, <2>2 DEF RecordsOK, WorkOK, WorkHere, SameCard
  <2>4. ASSUME NEW i \in p.todo, IsNext(p, a, i)
        PROVE  IF IsPublished(a, i) THEN IsIntact(a, i) ELSE IsReadable(a, i)
    <3>1. p.action = "copy"
      BY <2>2, <2>4 DEF IsNext, Fits, CopyAt
    <3>2. i \in DOMAIN a.batch.metas
      BY <2>3, <2>4, <3>1 DEF AtWork
    <3> QED
      BY <2>2, <2>3, <3>2, PhotosPass
  <2>5. ASSUME p.at = "photos", p.todo = {} PROVE CanComplete(a)
    <3>1. \A i \in DOMAIN a.batch.metas : IsPublished(a, i)
      BY <2>3, <2>5 DEF AtWork
    <3> QED
      BY <2>3, <3>1, CompletePasses
  <2>6. p.at = "publish" => ~IsPublished(a, Min(p.todo))
    BY <2>3 DEF AtWork
  <2>7. ASSUME p.at \in {"verifyCopied", "verify"}
        PROVE  /\ p.todo # {} => Compares(a, p.todo)
               /\ SameInventory(a) /\ IsCurrent(a.batch)
    <3>1. a.status = "copied" /\ p.action # "reset"
      BY <2>2, <2>3, <2>7 DEF AtWork, Fits, NotifyAt, CopyAt
    <3>2. Verified(a) /\ IsCurrent(a.batch)
      BY <2>2, <2>3, <3>1, VerifyPasses
    <3>3. p.todo \subseteq DOMAIN a.batch.metas
      BY <2>3, <3>1 DEF AtWork
    <3>4. p.todo # {} => Compares(a, p.todo)
      BY <2>2, <3>2, <3>3, ComparesPasses
    <3> QED
      BY <3>2, <3>4 DEF Verified
  <2>8. ASSUME p.at \in {"verify", "restore"}
        PROVE  p.given.proof = archive[a.id].manifest /\ p.given.proof # {}
    <3>1. p.action = "notify"
      BY <2>2, <2>8 DEF Fits, NotifyAt
    <3> QED
      BY <2>2, <2>3, <3>1, GivenProof
  <2>9. ASSUME p.at = "restore" PROVE p.given.proof = archive[a.id].receipt
    <3>1. archive[a.id].receipt # {} /\ archive[a.id].receipt \subseteq archive[a.id].manifest
      BY <2>2, <2>3, <2>9 DEF AtWork, ArchivesOK, ArchiveOK
    <3>2. AtMostOne(archive[a.id].manifest)
      BY <2>2 DEF Disc, Single
    <3>3. archive[a.id].receipt = archive[a.id].manifest
      BY <3>1, <3>2 DEF AtMostOne
    <3>4. p.at \in {"verify", "restore"}
      BY <2>9
    <3> QED
      BY <2>8, <3>3, <3>4
  <2>10. p.at = "verify" => Authorized(p, a)
    BY <2>7, <2>8 DEF Authorized
  <2> QED
    BY <2>4, <2>5, <2>6, <2>7, <2>9, <2>10
<1> QED
  BY <1>1 DEF Raises

(* What is to be shown of a step that leaves the card alone.               *)
LEMMA SameKept ==
    ASSUME TypeOK, TypeOK', SameCard, card' = card, happened'.change = happened.change,
           happened'.error >= happened.error,
           known' = known \/ known'.batch = {} \/ known'.batch \subseteq Batches,
           LeftAlone' => \A t \in Slot : \A q \in process'[t] : SameHere(q),
           LeftAlone' => \A a \in active' : SameRecord(a)
    PROVE  SameCard'
<1>1. LeftAlone' => LeftAlone
  <2>1. happened.error \in Nat /\ happened'.error \in Nat
    BY DEF TypeOK
  <2> QED
    BY <2>1 DEF LeftAlone
<1>2. Batches' = Batches
  BY DEF Batches
<1>3. ASSUME LeftAlone'
      PROVE  /\ happened'.change = 0 => card' = {}
             /\ known'.batch \subseteq Batches'
    BY <1>1, <1>2, <1>3 DEF SameCard
<1>4. ASSUME LeftAlone' PROVE \A t \in Slot : \A q \in process'[t] : SameHere(q)'
  BY <1>2, <1>4 DEF SameHere, SourceIs
<1>5. ASSUME LeftAlone' PROVE \A a \in active' : SameRecord(a)'
  BY <1>2, <1>5 DEF SameRecord, Matches, SourceIs
<1> QED
  BY <1>3, <1>4, <1>5 DEF SameCard

LEMMA SameGoes ==
    ASSUME TypeOK, TypeOK', SameCard, NEW s \in Slot, NEW q, Goes(s, q), LeftAlone => SameHere(q),
           UNCHANGED <<card, known>>, happened'.change = happened.change,
           happened'.error = happened.error,
           LeftAlone => \A a \in active' : SameRecord(a)
    PROVE  SameCard'
<1>1. \A t \in Slot : process'[t] = IF t = s THEN {q} ELSE process[t]
  BY GoesTo
<1>2. LeftAlone' = LeftAlone
  BY DEF LeftAlone
<1>3. LeftAlone => \A t \in Slot : \A r \in process'[t] : SameHere(r)
  BY <1>1 DEF SameCard
<1>4. happened'.error >= happened.error
  BY DEF TypeOK
<1> QED
  BY <1>2, <1>3, <1>4, SameKept

LEMMA SameExits ==
    ASSUME TypeOK, TypeOK', SameCard, NEW s \in Slot, Exits(s), card' = card,
           known' = known \/ known' = Nothing, happened'.change = happened.change,
           happened'.error >= happened.error,
           LeftAlone' => \A a \in active' : SameRecord(a)
    PROVE  SameCard'
<1>1. \A t \in Slot : process'[t] = IF t = s THEN {} ELSE process[t]
  BY ExitsTo
<1>2. LeftAlone' => LeftAlone
  <2>1. happened.error \in Nat /\ happened'.error \in Nat
    BY DEF TypeOK
  <2> QED
    BY <2>1 DEF LeftAlone
<1>3. LeftAlone' => \A t \in Slot : \A r \in process'[t] : SameHere(r)
  BY <1>1, <1>2 DEF SameCard
<1>4. known' = known \/ known'.batch = {}
  BY DEF Nothing
<1> QED
  BY <1>3, <1>4, SameKept

LEMMA SameMoves ==
    ASSUME TypeOK, TypeOK', Disc, RecordsOK, SameCard, NEW s \in Slot,
           SkipPhoto(s) \/ Publish(s) \/ WriteManifest(s) \/ VerifyPhoto(s) \/ VerifyAgain(s)
             \/ Submit(s) \/ WriteReceipt(s)
    PROVE  SameCard'
<1>1. UNCHANGED <<card, active, known, happened>>
  BY DEF SkipPhoto, Publish, WriteManifest, VerifyPhoto, VerifyAgain, Submit, WriteReceipt
<1>2. PICK p, q : /\ p \in process[s] /\ Goes(s, q) /\ q.given = p.given
                  /\ q.at \notin {"journal", "publish"}
  <2>1. CASE VerifyPhoto(s)
    <3>1. PICK p, q, t : /\ p \in process[s] /\ p.at \in {"verify", "verifyCopied"}
                         /\ q = [p EXCEPT !.todo = t] /\ Goes(s, q)
      BY <2>1 DEF VerifyPhoto
    <3>2. p \in Process
      BY <3>1 DEF TypeOK
    <3>3. q.at = p.at /\ q.given = p.given
      BY <3>1, <3>2 DEF Process
    <3> QED
      BY <3>1, <3>3
  <2>2. CASE SkipPhoto(s)
    <3>1. PICK p, q, t : /\ p \in process[s] /\ p.at = "photos"
                      /\ q = [p EXCEPT !.todo = t] /\ Goes(s, q)
      BY <2>2 DEF SkipPhoto, IsNext
    <3>2. p \in Process
      BY <3>1 DEF TypeOK
    <3>3. q.at = "photos" /\ q.given = p.given
      BY <3>1, <3>2 DEF Process
    <3> QED
      BY <3>1, <3>3
  <2>3. CASE Publish(s)
    <3>0. PICK p \in process[s] :
             Goes(s, [p EXCEPT !.at = "photos", !.todo = @ \ {Min(p.todo)}, !.entry = {}])
      BY <2>3 DEF Publish
    <3>1. PICK q : /\ q = [p EXCEPT !.at = "photos", !.todo = @ \ {Min(p.todo)}, !.entry = {}]
                   /\ Goes(s, q)
      BY <3>0
    <3>2. p \in Process
      BY <3>1 DEF TypeOK
    <3>3. q.at = "photos" /\ q.given = p.given
      BY <3>1, <3>2 DEF Process
    <3> QED
      BY <3>1, <3>3
  <2>4. CASE WriteManifest(s)
    <3>1. PICK p, q : /\ p \in process[s]
                      /\ q = [p EXCEPT !.at = "markCopied"] /\ Goes(s, q)
      BY <2>4 DEF WriteManifest
    <3>2. p \in Process
      BY <3>1 DEF TypeOK
    <3>3. q.at = "markCopied" /\ q.given = p.given
      BY <3>1, <3>2 DEF Process
    <3> QED
      BY <3>1, <3>3
  <2>5. CASE VerifyAgain(s)
    <3>1. PICK p, q : /\ p \in process[s]
                      /\ q = [p EXCEPT !.at = "submit"] /\ Goes(s, q)
      BY <2>5 DEF VerifyAgain
    <3>2. p \in Process
      BY <3>1 DEF TypeOK
    <3>3. q.at = "submit" /\ q.given = p.given
      BY <3>1, <3>2 DEF Process
    <3> QED
      BY <3>1, <3>3
  <2>6. CASE Submit(s)
    <3>1. PICK p, q : /\ p \in process[s]
                      /\ q = [p EXCEPT !.at = "receipt"] /\ Goes(s, q)
      BY <2>6 DEF Submit
    <3>2. p \in Process
      BY <3>1 DEF TypeOK
    <3>3. q.at = "receipt" /\ q.given = p.given
      BY <3>1, <3>2 DEF Process
    <3> QED
      BY <3>1, <3>3
  <2>7. CASE WriteReceipt(s)
    <3>1. PICK p, q : /\ p \in process[s]
                      /\ q = [p EXCEPT !.at = "record"] /\ Goes(s, q)
      BY <2>7 DEF WriteReceipt
    <3>2. p \in Process
      BY <3>1 DEF TypeOK
    <3>3. q.at = "record" /\ q.given = p.given
      BY <3>1, <3>2 DEF Process
    <3> QED
      BY <3>1, <3>3
  <2> QED
    BY <2>1, <2>2, <2>3, <2>4, <2>5, <2>6, <2>7
<1>3. LeftAlone => SameHere(q)
  BY <1>2 DEF SameCard, SameHere
<1>4. LeftAlone => \A a \in active' : SameRecord(a)
  BY <1>1 DEF SameCard
<1> QED
  BY <1>1, <1>2, <1>3, <1>4, SameGoes

LEMMA SameBegin ==
    ASSUME TypeOK, TypeOK', SameCard, NEW s \in Slot, Begin(s) \/ Open(s)
    PROVE  SameCard'
<1>1. UNCHANGED <<card, active, happened>>
  BY Entering DEF Begin
<1>2. happened'.error >= happened.error
  BY <1>1 DEF TypeOK
<1>3. LeftAlone => \A a \in active' : SameRecord(a)
  BY <1>1 DEF SameCard
<1>4. CASE Exits(s) /\ Forgets(s)
  <2>1. LeftAlone' => \A a \in active' : SameRecord(a)
    BY <1>1, <1>3 DEF LeftAlone
  <2>2. known' = known \/ known' = Nothing
    BY <1>4 DEF Forgets
  <2> QED
    BY <1>1, <1>2, <1>4, <2>1, <2>2, SameExits
<1>5. CASE ~(Exits(s) /\ Forgets(s))
  <2>1. CASE Begin(s)
    <3>1. PICK p, q : /\ p \in process[s] /\ q = [p EXCEPT !.at = "lock"] /\ Goes(s, q)
                      /\ known' = known
      BY <1>5, <2>1 DEF Begin
    <3>2. q.at = "lock" /\ q.given = p.given
      BY <3>1 DEF TypeOK, Process
    <3>3. LeftAlone => SameHere(q)
      BY <3>1, <3>2 DEF SameCard, SameHere
    <3> QED
      BY <1>1, <1>3, <3>1, <3>3, SameGoes
  <2>2. CASE Open(s)
    <3>0. PICK p \in process[s] : Goes(s, OpenedProcess(p)) /\ known' = known
      BY <1>5, <2>2, Entering
    <3>1. PICK q, o : o = Opened(p) /\ q = OpenedProcess(p) /\ Goes(s, q)
      BY <3>0
    <3>2. p \in Process
      BY <3>1 DEF TypeOK
    <3>3. q.at = o /\ q.given = p.given
      BY <3>1, <3>2 DEF Process, OpenedProcess
    <3>4. o \notin {"journal", "publish"}
      BY <3>1, <3>2 DEF Opened, Process
    <3>5. LeftAlone => SameHere(q)
      BY <3>1, <3>3, <3>4 DEF SameCard, SameHere
    <3> QED
      BY <1>1, <1>3, <3>0, <3>1, <3>5, SameGoes
  <2> QED
    BY <2>1, <2>2
<1> QED
  BY <1>4, <1>5

(* What is copied is what is on the card.                                  *)
LEMMA SameCopy ==
    ASSUME TypeOK, TypeOK', Disc, RecordsOK, SameCard, NEW s \in Slot,
           Allocate(s) \/ StagePhoto(s) \/ Journal(s)
    PROVE  SameCard'
<1>1. UNCHANGED <<card, known>>
  BY DEF Allocate, StagePhoto, Journal
<1>2. happened'.change = happened.change /\ happened'.error = happened.error
  <2>1. happened' = happened \/ happened' = [happened EXCEPT !.session = @ + 1]
    BY DEF Allocate, StagePhoto, Journal
  <2> QED
    BY <2>1 DEF TypeOK
<1>3. CASE Allocate(s)
  <2>1. PICK p, b, q, a :
           /\ p \in process[s] /\ b \in p.given.batch
           /\ a = [id |-> happened.session + 1, batch |-> b, status |-> "copying",
                   files |-> <<>>, receipted |-> FALSE]
           /\ active' = {a}
           /\ q = [p EXCEPT !.at = "photos", !.session = active']
           /\ Goes(s, q)
    BY <1>3 DEF Allocate
  <2>2. p \in Process
    BY <2>1 DEF TypeOK
  <2>3. q.at = "photos" /\ q.given = p.given
    BY <2>1, <2>2 DEF Process
  <2>4. LeftAlone => SameHere(q)
    BY <2>1, <2>3 DEF SameCard, SameHere
  <2>5. a.batch = b /\ a.status = "copying" /\ DOMAIN a.files = {}
    BY <2>1, EmptyFiles
  <2>6. LeftAlone => SameRecord(a)
    BY <2>1, <2>5 DEF SameCard, SameHere, SameRecord, Matches
  <2> QED
    BY <1>1, <1>2, <2>1, <2>4, <2>6, SameGoes
<1>4. CASE StagePhoto(s)
  <2>1. PICK p, a, i, q, e :
           /\ p \in process[s] /\ a \in p.session /\ i = Min(p.todo)
           /\ e = Source(i, a.batch.metas[i])
           /\ q = [p EXCEPT !.at = "journal", !.entry = e] /\ Goes(s, q)
    BY <1>4 DEF StagePhoto, IsNext
  <2>2. p \in Process /\ active' = active
    BY <1>4, <2>1 DEF TypeOK, StagePhoto
  <2>3. q.at = "journal" /\ q.given = p.given /\ q.entry = e /\ q.todo = p.todo
    BY <2>1, <2>2 DEF Process
  <2>4. \A d \in e : SourceIs(i, d)
    BY <2>1 DEF Source, SourceIs
  <2>5. LeftAlone => SameHere(q)
    BY <2>1, <2>3, <2>4 DEF SameCard, SameHere
  <2>6. LeftAlone => \A r \in active' : SameRecord(r)
    BY <2>2 DEF SameCard
  <2> QED
    BY <1>1, <1>2, <2>1, <2>5, <2>6, SameGoes
<1>5. CASE Journal(s)
  <2>1. PICK p, a, d, m, b, q :
           /\ p \in process[s] /\ a \in p.session /\ d \in p.entry /\ m = Min(p.todo)
           /\ p.at = "journal"
           /\ b = [a EXCEPT !.files = WithEntry(@, m, d)] /\ active' = {b}
           /\ q = [p EXCEPT !.at = "publish", !.session = {b}] /\ Goes(s, q)
    BY <1>5 DEF Journal
  <2>2. p \in Process /\ a \in Record /\ active = {a}
    BY <2>1, AtHand DEF Disc, OpenAt, CopyAt
  <2>3. /\ q.at = "publish" /\ q.given = p.given /\ q.entry = p.entry /\ q.todo = p.todo
    BY <2>1, <2>2 DEF Process
  <2>4. /\ b.batch = a.batch /\ b.status = a.status /\ b.files = WithEntry(a.files, m, d)
    BY <2>1, <2>2 DEF Record
  <2>5. /\ DOMAIN b.files = DOMAIN a.files \cup {m} /\ b.files[m] = d
        /\ \A j \in DOMAIN a.files \ {m} : b.files[j] = a.files[j]
    BY <2>4 DEF WithEntry
  <2>6. LeftAlone => SameHere(p) /\ SameRecord(a)
    BY <2>1, <2>2 DEF SameCard
  <2>7. LeftAlone => SameHere(q)
    BY <2>1, <2>3, <2>6 DEF SameHere
  <2>8. LeftAlone => SourceIs(m, d)
    BY <2>1, <2>6 DEF SameHere
  <2>9. LeftAlone => SameRecord(b)
    BY <2>4, <2>5, <2>6, <2>8 DEF SameRecord, Matches
  <2> QED
    BY <1>1, <1>2, <2>1, <2>7, <2>9, SameGoes
<1> QED
  BY <1>3, <1>4, <1>5

(* No step gives the import up: what would be damage does not occur.       *)
LEMMA SameEnd ==
    ASSUME TypeOK, TypeOK', Disc, RecordsOK, SameCard, NEW s \in Slot,
           MarkCopied(s) \/ AlreadyCopied(s) \/ RecordReceipt(s) \/ Unlink(s) \/ Fails(s)
             \/ IOError(s) \/ CutShort(s)
    PROVE  SameCard'
<1>1. /\ Exits(s) /\ card' = card
      /\ known' = known \/ known' = Nothing
  BY DEF MarkCopied, AlreadyCopied, RecordReceipt, Unlink, Fails, IOError, MarkFailed,
         CutShort, EndsUnrecorded, Forgets
<1>2. \/ happened' = happened
      \/ happened' = [happened EXCEPT !.error = @ + 1] /\ IOError(s)
      \/ happened' = [happened EXCEPT !.cut = @ + 1]
  BY DEF MarkCopied, AlreadyCopied, RecordReceipt, Unlink, Fails, IOError, Trouble, CutShort
<1>3. /\ happened'.change = happened.change
      /\ happened'.error = happened.error \/ happened'.error = happened.error + 1
      /\ happened.error \in Nat
  BY <1>2 DEF TypeOK
<1>4. LeftAlone' => LeftAlone /\ happened'.error = happened.error
  BY <1>3 DEF LeftAlone
<1>5. IOError(s) => ~LeftAlone'
  <2>1. ASSUME IOError(s) PROVE happened'.error = happened.error + 1
    <3>1. happened' = [happened EXCEPT !.error = @ + 1]
      BY <2>1 DEF IOError, Trouble
    <3> QED
      BY <3>1 DEF TypeOK
  <2> QED
    BY <1>3, <2>1 DEF LeftAlone
<1>6. Fails(s) => ~LeftAlone
  BY NothingRaises DEF Fails
<1>7. ASSUME LeftAlone', NEW b \in active' PROVE SameRecord(b)
  <2>1. \A a \in active : SameRecord(a)
    BY <1>4, <1>7 DEF SameCard
  <2>2. CASE AlreadyCopied(s) \/ CutShort(s)
    BY <1>7, <2>1, <2>2 DEF AlreadyCopied, CutShort, Trouble, EndsUnrecorded
  <2>3. CASE Unlink(s)
    BY <1>7, <2>3 DEF Unlink
  <2>4. CASE MarkCopied(s)
    <3>1. PICK p, a : /\ p \in process[s] /\ a \in p.session /\ p.at = "markCopied"
                      /\ b = [a EXCEPT !.status = "copied"]
      BY <1>7, <2>4 DEF MarkCopied
    <3>2. a \in Record /\ a \in active
      BY <3>1, AtHand DEF Disc, OpenAt, CopyAt
    <3>3. b.batch = a.batch /\ b.status = "copied" /\ b.files = a.files
      BY <3>1, <3>2 DEF Record
    <3> QED
      BY <2>1, <3>2, <3>3 DEF SameRecord, Matches
  <2>5. CASE RecordReceipt(s)
    <3>1. PICK p, a : /\ p \in process[s] /\ a \in p.session /\ p.at \in {"record", "restore"}
                      /\ b = [a EXCEPT !.receipted = TRUE]
      BY <1>7, <2>5 DEF RecordReceipt
    <3>2. a \in Record /\ a \in active
      BY <3>1, AtHand DEF Disc, OpenAt, NotifyAt
    <3>3. b.batch = a.batch /\ b.status = a.status /\ b.files = a.files
      BY <3>1, <3>2 DEF Record
    <3> QED
      BY <2>1, <3>2, <3>3 DEF SameRecord, Matches
  <2> QED
    BY <1>4, <1>5, <1>6, <1>7, <2>2, <2>3, <2>4, <2>5
<1>8. happened'.error >= happened.error
  BY <1>3
<1> QED
  BY <1>1, <1>3, <1>7, <1>8, SameExits

(* A card comes: there was none, so nothing was known of any.              *)
LEMMA SameChange ==
    ASSUME TypeOK, SameCard, ChangeCard
    PROVE  SameCard'
<1>1. UNCHANGED <<active, known, process>>
  BY DEF ChangeCard
<1>2. happened'.change = happened.change + 1 /\ happened'.error = happened.error
      /\ happened.change \in Nat
  <2>1. \E n, d : happened' = [happened EXCEPT !.change = @ + 1, !.insert = n, !.disturbed = d]
    BY DEF ChangeCard
  <2> QED
    BY <2>1 DEF TypeOK
<1>3. ASSUME LeftAlone'
      PROVE  /\ happened'.change # 0
             /\ known'.batch = {} /\ active' = {}
             /\ \A s \in Slot : \A p \in process'[s] :
                   /\ p.given.batch = {}
                   /\ p.at \in {"journal", "publish"} => p.entry = {}
  <2>1. LeftAlone /\ happened.change = 0 /\ happened'.change # 0
    BY <1>2, <1>3 DEF LeftAlone
  <2>2. card = {}
    BY <2>1 DEF SameCard
  <2>3. Batches = {} /\ \A i, d : ~SourceIs(i, d)
    BY <2>2 DEF Batches, SourceIs
  <2>4. active = {}
    BY <2>1, <2>3 DEF SameCard, SameRecord, Matches
  <2>5. known.batch = {}
    BY <2>1, <2>3 DEF SameCard
  <2>6. \A s \in Slot : \A p \in process[s] :
           /\ p.given.batch = {}
           /\ p.at \in {"journal", "publish"} => p.entry = {}
    BY <2>1, <2>3 DEF SameCard, SameHere
  <2> QED
    BY <1>1, <2>1, <2>4, <2>5, <2>6
<1>4. LeftAlone' => \A s \in Slot : \A p \in process'[s] : SameHere(p)'
  BY <1>3 DEF SameHere
<1> QED
  BY <1>3, <1>4 DEF SameCard

LEMMA SameOthers ==
    ASSUME TypeOK, TypeOK', SameCard,
           \/ SensePhotoBatch \/ SenseArchiveVerified \/ SenseSessionObsolete
           \/ Daemon \/ OperatorResets \/ KillDaemon
    PROVE  SameCard'
<1>1. UNCHANGED <<card, active>>
  <2>1. ~SenseArchiveVerified => UNCHANGED <<card, active>>
    BY DEF SensePhotoBatch, SenseSessionObsolete, Sense, Daemon, LaunchCopy, LaunchNotify,
           LaunchReset, Launch, Starts, OperatorResets, KillDaemon
  <2> QED
    BY <2>1, ProofPrinted
<1>2. happened'.change = happened.change /\ happened'.error = happened.error
  <2>1. \/ happened' = happened
        \/ happened' = [happened EXCEPT !.reset = @ + 1]
        \/ happened' = [happened EXCEPT !.cut = @ + 1]
    BY ProofPrinted DEF SensePhotoBatch, SenseSessionObsolete, Sense, Daemon, LaunchCopy,
       LaunchNotify, LaunchReset, Launch, OperatorResets, KillDaemon, Trouble
  <2> QED
    BY <2>1 DEF TypeOK
<1>3. (LeftAlone' => LeftAlone) /\ happened'.error >= happened.error
  BY <1>2 DEF LeftAlone, TypeOK
<1>4. LeftAlone => \A a \in active' : SameRecord(a)
  BY <1>1 DEF SameCard
<1>5. CASE SensePhotoBatch \/ SenseArchiveVerified \/ SenseSessionObsolete
  <2>1. process' = process
    BY <1>5, ProofPrinted DEF SensePhotoBatch, SenseSessionObsolete, Sense
  <2>2. known'.batch = known.batch \/ known'.batch \subseteq Batches
    <3>1. CASE SenseArchiveVerified
      BY <3>1, ProofPrinted
    <3>2. CASE SensePhotoBatch \/ SenseSessionObsolete
      <4>1. \/ known' = [known EXCEPT !.batch = {b \in Batches : IsCurrent(b)}]
            \/ \E v : known' = [known EXCEPT !.token = v]
        BY <3>2 DEF SensePhotoBatch, SenseSessionObsolete, Sense
      <4> QED
        BY <4>1 DEF TypeOK, Given
    <3> QED
      BY <1>5, <3>1, <3>2
  <2>3. LeftAlone' => \A t \in Slot : \A q \in process'[t] : SameHere(q)
    BY <1>3, <2>1 DEF SameCard
  <2>4. ASSUME LeftAlone' PROVE SameCard'
    <3>1. known.batch \subseteq Batches
      BY <1>3, <2>4 DEF SameCard
    <3>2. known'.batch \subseteq Batches
      BY <2>2, <3>1
    <3> QED
      BY <1>1, <1>2, <1>3, <1>4, <2>3, <3>2, SameKept
  <2> QED
    BY <2>4 DEF SameCard
<1>6. CASE Daemon \/ OperatorResets
  <2>1. PICK s, action, g :
           s \in Slot /\ Starts(s, action, g) /\ (g = known \/ g.batch = {})
    <3>1. CASE Daemon
      BY <3>1 DEF Daemon, LaunchCopy, LaunchNotify, LaunchReset, Launch, Slot
    <3>2. CASE OperatorResets
      <4>1. PICK a : Starts("orphan", "reset", [Nothing EXCEPT !.token = {a.id}])
        BY <3>2 DEF OperatorResets, Trouble
      <4>2. PICK g : g = [Nothing EXCEPT !.token = {a.id}]
        OBVIOUS
      <4>3. g.batch = {}
        BY <4>2 DEF Nothing
      <4> QED
        BY <4>1, <4>2, <4>3 DEF Slot
    <3> QED
      BY <1>6, <3>1, <3>2
  <2>2. \A t \in Slot : process'[t] = IF t = s THEN {Started(action, g)} ELSE process[t]
    BY <2>1, StartsTo
  <2>3. Started(action, g).at = "start" /\ Started(action, g).given = g
    BY DEF Started
  <2>4. LeftAlone => g.batch \subseteq Batches
    BY <2>1 DEF SameCard
  <2>5. LeftAlone => SameHere(Started(action, g))
    BY <2>3, <2>4 DEF SameHere
  <2>6. LeftAlone => \A t \in Slot : \A q \in process'[t] : SameHere(q)
    BY <2>2, <2>5 DEF SameCard
  <2>7. known' = known
    BY <2>1 DEF Starts
  <2> QED
    BY <1>1, <1>2, <1>3, <1>4, <2>6, <2>7, SameKept
<1>7. CASE KillDaemon
  <2>1. /\ process'["orphan"] = process["child"] /\ process'["child"] = {}
        /\ known' = Nothing
    BY <1>7, KillTo
  <2>2. LeftAlone => \A t \in Slot : \A q \in process'[t] : SameHere(q)
    BY <2>1 DEF Slot, SameCard
  <2>3. known'.batch = {}
    BY <2>1 DEF Nothing
  <2> QED
    BY <1>1, <1>2, <1>3, <1>4, <2>2, <2>3, SameKept
<1> QED
  BY <1>5, <1>6, <1>7

LEMMA SameInit == Init => SameCard
BY DEF Init, SameCard, Nothing

LEMMA SameNext == TypeOK /\ TypeOK' /\ Disc /\ RecordsOK /\ SameCard /\ [Next]_vars => SameCard'
<1>1. CASE SameCard /\ UNCHANGED vars
  <2>1. UNCHANGED <<card, active, known, process, happened>>
    BY <1>1 DEF vars
  <2> QED
    BY <1>1, <2>1 DEF SameCard, SameHere, SameRecord, SourceIs, Matches, Batches, LeftAlone
<1>2. CASE TypeOK /\ TypeOK' /\ Disc /\ RecordsOK /\ SameCard /\ Next
  BY <1>2, SameMoves, SameBegin, SameCopy, SameEnd, SameChange, SameOthers DEF Next, Step
<1> QED
  BY <1>1, <1>2

(* An import from a card that is left alone is never given up, whatever is *)
(* killed and restarted and whenever: what a killed process leaves behind  *)
(* is taken up, not taken for damage (actions.py, copy_photo, and the      *)
(* handler that marks a session as failed).                                *)
THEOREM ImportsSurviveCrashes == Spec => []CrashesAreResumed
<1> DEFINE Inv == TypeOK /\ Disc /\ RecordsOK /\ SameCard
<1>1. Init => Inv
  BY TypeInit, DiscInit, RecordsInit, SameInit
<1>2. Inv /\ [Next]_vars => Inv'
  BY TypeNext, DiscNext, RecordsNext, SameNext
<1>3. Inv => CrashesAreResumed
  BY DEF CrashesAreResumed, SameCard, LeftAlone, SameRecord
<1> QED
  BY <1>1, <1>2, <1>3, PTL DEF Spec

(* The lock does what the records need: of the action processes, an orphan *)
(* of a killed daemon among them, one at most has read the records and may *)
(* write them, and nobody else has written the active session since it was *)
(* read (scripts/session.py, session_lock).                                *)
THEOREM OneAtTheRecords == Spec => [](\A s \in Slot : \A p \in process[s] : p.at \in OpenAt =>
        /\ p.session = active
        /\ \A t \in Slot : \A q \in process[t] : q.at \in OpenAt => q = p)
<1>1. TypeOK /\ Disc => (\A s \in Slot : \A p \in process[s] : p.at \in OpenAt =>
        /\ p.session = active
        /\ \A t \in Slot : \A q \in process[t] : q.at \in OpenAt => q = p)
  <2>1. ASSUME Disc, NEW s \in Slot, NEW p \in process[s], p.at \in OpenAt,
               NEW t \in Slot, NEW q \in process[t], q.at \in OpenAt
        PROVE  q = p
    <3>1. p.at \notin {"start", "lock"} /\ q.at \notin {"start", "lock"}
      BY <2>1 DEF OpenAt, CopyAt, NotifyAt
    <3>2. lock = {s} /\ lock = {t}
      BY <2>1, <3>1 DEF Disc, Locked
    <3> QED
      BY <2>1, <3>2 DEF Disc, SingleProcess, AtMostOne
  <2> QED
    BY <2>1 DEF Disc, Locked
<1> QED
  BY <1>1, RecordsAlways, PTL

(* What an archive attests is for good: once a manifest is written no step *)
(* changes it, the photos or the receipt of that session, of whatever      *)
(* process, insertion or reset (actions.py, complete_copy and reset).      *)
THEOREM ManifestsAreForGood ==
    Spec => [][\A i \in SessionId : archive[i].manifest # {} =>
                  /\ archive'[i].manifest = archive[i].manifest
                  /\ archive'[i].photos = archive[i].photos
                  /\ archive[i].receipt # {} => archive'[i].receipt = archive[i].receipt]_vars
<1> DEFINE Inv == TypeOK /\ Disc /\ RecordsOK
           Kept(i) == archive[i].manifest # {} =>
                  /\ archive'[i].manifest = archive[i].manifest
                  /\ archive'[i].photos = archive[i].photos
                  /\ archive[i].receipt # {} => archive'[i].receipt = archive[i].receipt
<1>1. ASSUME Inv, Inv', Next, NEW i \in SessionId PROVE Kept(i)
  <2>1. \/ archive' = archive
        \/ \E s \in Slot : Publish(s) \/ WriteManifest(s) \/ WriteReceipt(s)
    <3>1. SenseArchiveVerified => archive' = archive
      BY <1>1, ProofPrinted
    <3>2. ASSUME NEW s \in Slot, Step(s) \/ IOError(s) \/ CutShort(s)
          PROVE  archive' = archive \/ Publish(s) \/ WriteManifest(s) \/ WriteReceipt(s)
      BY <3>2 DEF Step, Begin, Open, Enter, Allocate, SkipPhoto, StagePhoto, Journal, MarkCopied,
         AlreadyCopied, VerifyPhoto, VerifyAgain, Submit, RecordReceipt, Unlink, Fails, IOError,
         MarkFailed, CutShort, EndsUnrecorded
    <3>3. SensePhotoBatch \/ SenseSessionObsolete \/ Daemon => archive' = archive
      BY DEF SensePhotoBatch, SenseSessionObsolete, Sense, Daemon, LaunchCopy, LaunchNotify,
         LaunchReset, Launch, Starts
    <3>4. OperatorResets \/ KillDaemon \/ ChangeCard => archive' = archive
      BY DEF OperatorResets, Starts, KillDaemon, ChangeCard
    <3> QED
      BY <1>1, <3>1, <3>2, <3>3, <3>4 DEF Next
  <2>2. ASSUME NEW s \in Slot, Publish(s) PROVE Kept(i)
    <3>1. PICK p, a, d, m, q :
             /\ p \in process[s] /\ a \in p.session /\ d \in p.entry /\ m = Min(p.todo)
             /\ p.at = "publish" /\ ~IsPublished(a, m)
             /\ archive' = [archive EXCEPT ![a.id].photos = WithEntry(@, m, d)]
             /\ q = [p EXCEPT !.at = "photos", !.todo = @ \ {m}, !.entry = {}] /\ Goes(s, q)
      BY <2>2 DEF Publish
    <3>2. /\ p \in Process /\ a \in Record /\ a.id \in SessionId /\ a \in active /\ Fits(p)
      BY <1>1, <3>1, AtHand DEF Disc, OpenAt, CopyAt, Locked
    <3>3. AtWork(p, a) /\ p.action = "copy" /\ m \in p.todo
      BY <1>1, <3>1, <3>2 DEF RecordsOK, WorkOK, WorkHere, OpenAt, CopyAt, Fits, TypeOK
    <3>4. m \in DOMAIN a.batch.metas
      BY <3>3 DEF AtWork
    <3>5. archive[a.id].manifest = {}
      BY <1>1, <3>1, <3>2, <3>4, NoManifestYet
    <3> QED
      BY <1>1, <3>1, <3>2, <3>5 DEF TypeOK
  <2>3. ASSUME NEW s \in Slot, WriteManifest(s) PROVE Kept(i)
    <3>1. PICK p, a : /\ p \in process[s] /\ a \in p.session /\ p.at = "photos" /\ CanComplete(a)
                      /\ archive' = [archive EXCEPT ![a.id].manifest = {Evidence(a)}]
      BY <2>3 DEF WriteManifest
    <3>2. a.id \in SessionId
      BY <1>1, <3>1, AtHand DEF Disc, OpenAt, CopyAt
    <3>3. archive[a.id].manifest \subseteq {Evidence(a)}
      BY <3>1 DEF CanComplete
    <3>4. /\ archive'[i].photos = archive[i].photos
          /\ archive'[i].receipt = archive[i].receipt
          /\ archive'[i].manifest = IF i = a.id THEN {Evidence(a)} ELSE archive[i].manifest
      BY <1>1, <3>1, <3>2 DEF TypeOK
    <3> QED
      BY <3>3, <3>4
  <2>4. ASSUME NEW s \in Slot, WriteReceipt(s) PROVE Kept(i)
    <3>1. PICK p, a : /\ a \in p.session /\ p \in process[s] /\ p.at = "receipt"
                      /\ archive[a.id].receipt = {}
                      /\ archive' = [archive EXCEPT ![a.id].receipt = p.given.proof]
      BY <2>4 DEF WriteReceipt
    <3>2. a.id \in SessionId
      BY <1>1, <3>1, AtHand DEF Disc, OpenAt, NotifyAt
    <3> QED
      BY <1>1, <3>1, <3>2 DEF TypeOK
  <2> QED
    BY <1>1, <2>1, <2>2, <2>3, <2>4
<1>2. Inv /\ Inv' /\ [Next]_vars => [\A i \in SessionId : Kept(i)]_vars
  BY <1>1
<1> QED
  BY <1>2, RecordsAlways, PTL DEF Spec
=============================================================================
