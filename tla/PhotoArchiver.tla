--------------------------- MODULE PhotoArchiver ---------------------------
(***************************************************************************)
(* The photo archiver of uncharles/examples: short action processes that   *)
(* copy a card's photos and announce the copy (scripts/actions.py), over   *)
(* records on disk (scripts/session.py), launched by a daemon on what its  *)
(* sensors have printed (config.yaml, scripts/sensors.py).  A process may  *)
(* be killed between any two of its steps; a killed daemon leaves its      *)
(* action running beside those of the next; the card comes and goes.       *)
(*                                                                         *)
(* The values that sensors print may be stale when they are used.  The     *)
(* facts without a value only decide how often an action is tried: they    *)
(* are read when it is launched.  "Nothing" is the empty set.              *)
(***************************************************************************)
EXTENDS Integers, FiniteSets, FiniteSetsExt, Functions

CONSTANTS
    Cards,        \* what may be mounted: volume, and each photo's meta and data
    MaxSessions,  \* bounds: the sessions ever allocated,
    MaxChanges,   \* the changes of the card,
    MaxTroubles,  \* the processes cut short, failed operations and resets by hand,
    MaxOfAKind    \* together, and of each of the three

ASSUME ArchiverAssumption ==
    /\ \A c \in Cards : DOMAIN c.photos \subseteq Nat /\ IsFiniteSet(DOMAIN c.photos)
    /\ {MaxSessions, MaxChanges, MaxTroubles, MaxOfAKind} \subseteq Nat

SessionId == 1..MaxSessions
Slot      == {"child", "orphan"}   \* the daemon's action, and that of a killed daemon

VARIABLES
    card,      \* the mounted card, if any
    active,    \* active-session.json, if it exists
    archive,   \* per session: the photos in its destination, manifest and receipt
    sent,      \* per session: the notifications submitted
    known,     \* the batch, proof and token the daemon's sensors have printed
    look,      \* the verification that the archive_verified sensor is at, if any
    process,   \* the action process in each slot, if any
    lock,      \* the process that holds action.lock
    happened   \* how often the card has changed, been inserted, and so on;
               \* and the sessions it changed for while notify verified them

vars == <<card, active, archive, sent, known, look, process, lock, happened>>

Nothing == [batch |-> {}, proof |-> {}, token |-> {}]

Init ==
    /\ card = {} /\ active = {} /\ look = {} /\ lock = {}
    /\ archive = [i \in SessionId |-> [photos |-> <<>>, manifest |-> {}, receipt |-> {}]]
    /\ sent = [i \in SessionId |-> 0]
    /\ known = Nothing
    /\ process = [s \in Slot |-> {}]
    /\ happened = [change |-> 0, insert |-> 0, reset |-> 0, cut |-> 0, error |-> 0,
                   session |-> 0, disturbed |-> {}]

-----------------------------------------------------------------------------
(* Observations.                                                           *)

(* The identity of a batch has the metadata of the photos, not their data. *)
Batch(c) == [volume |-> c.volume,
             metas  |-> [p \in DOMAIN c.photos |-> c.photos[p].meta]]

Batches == {Batch(c) : c \in card}

IsCurrent(b) == b \in Batches /\ DOMAIN b.metas # {}

Matches(a) == a.batch \in Batches

(* The evidence of a copy, apart from the record of its notification.      *)
Evidence(a) == [session |-> a.id, batch |-> a.batch, files |-> a.files]

(* verify_archive reads the records and lists the destination, then hashes *)
(* photo after photo, and at last looks at the names and metadata of the   *)
(* source again.  The card may be exchanged at any moment between.         *)
Agrees(a) ==
    /\ a.status = "copied"
    /\ archive[a.id].manifest = {Evidence(a)}
    /\ DOMAIN archive[a.id].photos = DOMAIN a.files
    /\ DOMAIN a.files = DOMAIN a.batch.metas

IsRecorded(a, i) == i \in DOMAIN a.files /\ archive[a.id].photos[i] = a.files[i]

(* A photo is as the journal has it in the archive, and as it is on the    *)
(* card that is mounted at that moment, whatever its metadata there.       *)
IsIntact(a, i) ==
    /\ IsRecorded(a, i)
    /\ \E c \in card : i \in DOMAIN c.photos /\ c.photos[i].data = a.files[i]

SameInventory(a) == \E c \in card : Batch(c).metas = a.batch.metas

(* The photo at hand of those that are still to be hashed.                 *)
Compares(a, todo) == \E i \in todo : i = Min(todo) /\ Agrees(a) /\ IsIntact(a, i)

(* The sensors.  A receipt is evidence enough, without another look.       *)
PhotosCopied == \E a \in active : /\ Matches(a) /\ a.status = "copied"
                                  /\ archive[a.id].manifest = {Evidence(a)}
                                  /\ DOMAIN archive[a.id].photos = DOMAIN a.files
UserNotified == \E a \in active : /\ Matches(a) /\ a.status = "copied"
                                  /\ archive[a.id].receipt # {}
ImportFailed == \E a \in active : Matches(a) /\ a.status = "failed"
Idle == /\ \A a \in active : Matches(a)
        /\ \A b \in Batches : IsCurrent(b) =>
              \E a \in active : a.status = "failed" \/ archive[a.id].receipt # {}

Sense(capture, printed) ==
    /\ known[capture] # printed
    /\ known' = [known EXCEPT ![capture] = printed]
    /\ UNCHANGED <<card, active, archive, sent, look, process, lock, happened>>

SensePhotoBatch      == Sense("batch", {b \in Batches : IsCurrent(b)})
SenseSessionObsolete == Sense("token", {a.id : a \in {a \in active : ~Matches(a)}})

(* archive_verified prints the receipt if there is one, or else what its   *)
(* own verification finds, which takes no lock and may be late.            *)
Copied == {a \in active : Matches(a) /\ a.status = "copied"}

NothingToVerify ==
    /\ look = {} /\ \A a \in Copied : archive[a.id].receipt # {}
    /\ Sense("proof", UNION {archive[a.id].receipt : a \in Copied})

StartLook ==
    /\ look = {}
    /\ \E a \in Copied : /\ archive[a.id].receipt = {}
                         /\ look' = {[session |-> a, todo |-> DOMAIN a.batch.metas]}
    /\ UNCHANGED <<card, active, archive, sent, known, process, lock, happened>>

LookAtPhoto ==
    /\ \E l \in look : /\ Compares(l.session, l.todo)
                       /\ look' = {[l EXCEPT !.todo = @ \ {Min(@)}]}
    /\ UNCHANGED <<card, active, archive, sent, known, process, lock, happened>>

PrintProof ==
    /\ \E l \in look :
          LET a == l.session
          IN  /\ ~Compares(a, l.todo)
              /\ known' = [known EXCEPT !.proof = IF l.todo = {} /\ SameInventory(a)
                                                 THEN archive[a.id].manifest ELSE {}]
    /\ look' = {}
    /\ UNCHANGED <<card, active, archive, sent, process, lock, happened>>

SenseArchiveVerified == NothingToVerify \/ StartLook \/ LookAtPhoto \/ PrintProof

-----------------------------------------------------------------------------
(* The daemon launches an action that its configuration allows.            *)
Starts(s, action, given) ==
    /\ process["child"] = {} /\ process[s] = {}
    /\ process' = [process EXCEPT ![s] = {[action |-> action, at |-> "start", given |-> given,
                                           session |-> {}, todo |-> {}, entry |-> {}]}]
    /\ UNCHANGED <<card, active, archive, sent, known, look, lock>>

Launch(action) == Starts("child", action, known) /\ UNCHANGED happened

LaunchCopy ==
    /\ known.batch # {} /\ known.token = {}
    /\ ~PhotosCopied /\ ~ImportFailed /\ ~Idle
    /\ Launch("copy")

LaunchNotify ==
    /\ known.batch # {} /\ known.proof # {} /\ known.token = {}
    /\ PhotosCopied /\ ~UserNotified /\ ~ImportFailed /\ ~Idle
    /\ Launch("notify")

LaunchReset == known.token # {} /\ ~Idle /\ Launch("reset")

(* A process is cut short, an operation fails, or the operator interferes. *)
Trouble(kind) ==
    /\ happened[kind] < MaxOfAKind
    /\ happened.cut + happened.error + happened.reset < MaxTroubles
    /\ happened' = [happened EXCEPT ![kind] = @ + 1]

(* The operator, between two actions, resets a failed session by hand.     *)
OperatorResets ==
    /\ Trouble("reset")
    /\ \E a \in active : /\ a.status = "failed"
                         /\ Starts("orphan", "reset", [Nothing EXCEPT !.token = {a.id}])

-----------------------------------------------------------------------------
(* An action process.                                                      *)

Goes(s, p) == process' = [process EXCEPT ![s] = {p}]

Exits(s) == process' = [process EXCEPT ![s] = {}] /\ lock' = lock \ {s}

(* A reset that succeeds takes back what the sensors had printed; one that *)
(* fails has no on_failure, so that the daemon ends and starts afresh.     *)
IsReset(s) == s = "child" /\ \E p \in process[s] : p.action = "reset"

Forgets(s) == known' = IF IsReset(s) THEN Nothing ELSE known
Ends(s)    == look' = IF IsReset(s) THEN {} ELSE look

(* A batch given that is no longer there is refused before the lock is     *)
(* touched, and a reset without a session is done.                         *)
Begin(s) ==
    /\ \E p \in process[s] :
          /\ p.at = "start"
          /\ IF IF p.action = "reset" THEN active # {} ELSE \A b \in p.given.batch : IsCurrent(b)
             THEN Goes(s, [p EXCEPT !.at = "lock"]) /\ UNCHANGED <<lock, known>>
             ELSE Exits(s) /\ Forgets(s)
    /\ UNCHANGED <<card, active, archive, sent, look, happened>>

(* Under the lock everything is read again.                                *)
CopyRefused(p) ==
    \/ \E b \in p.given.batch : ~IsCurrent(b)
    \/ \E a \in active : ~Matches(a) \/ a.status = "failed"

NotifyRefused(p) ==
    \/ \E b \in p.given.batch : ~IsCurrent(b)
    \/ ~\E a \in active : /\ Matches(a) /\ a.status = "copied"
                          /\ \E e \in p.given.proof : e.session = a.id

(* Where an action goes on once it holds the lock; "exit" if it may not.   *)
Opened(p) ==
    CASE p.action = "copy" ->
            IF CopyRefused(p) THEN "exit"
            ELSE IF active = {} THEN "allocate"
            ELSE IF \E a \in active : a.status = "copied" THEN "verifyCopied" ELSE "photos"
      [] p.action = "notify" ->
            IF NotifyRefused(p) THEN "exit"
            ELSE IF \E a \in active : archive[a.id].receipt # {} THEN "restore" ELSE "verify"
      [] p.action = "reset" ->
            IF \E a \in active : a.id \in p.given.token THEN "unlink" ELSE "exit"

Enter(s, p) ==
    /\ IF Opened(p) = "exit"
       THEN Exits(s) /\ Forgets(s) /\ (IF active = {} THEN UNCHANGED look ELSE Ends(s))
       ELSE /\ lock' = {s}
            /\ Goes(s, [p EXCEPT !.at = Opened(p), !.session = active,
                                 !.todo = UNION {DOMAIN b.metas : b \in p.given.batch}])
            /\ UNCHANGED <<known, look>>
    /\ UNCHANGED <<card, active, archive, sent, happened>>

(* Mutant of Open: the lock is not waited for.                             *)
OpenAnyway(s) == \E p \in process[s] : p.at = "lock" /\ Enter(s, p)

(* Taking the lock and reading the records under it are one step: what may *)
(* come between, a kill or another card, may as well come before.          *)
Open(s) == lock = {} /\ \E p \in process[s] : p.at = "lock" /\ Enter(s, p)

-----------------------------------------------------------------------------
(* copy: allocate a session or resume one, then photo after photo.         *)

Allocate(s) ==
    /\ happened.session < MaxSessions
    /\ \E p \in process[s] : \E b \in p.given.batch :
          /\ p.at = "allocate"
          /\ active' = {[id |-> happened.session + 1, batch |-> b, status |-> "copying",
                         files |-> <<>>, receipted |-> FALSE]}
          /\ Goes(s, [p EXCEPT !.at = "photos", !.session = active'])
    /\ happened' = [happened EXCEPT !.session = @ + 1]
    /\ UNCHANGED <<card, archive, sent, known, look, lock>>

(* The data of photo i on the card, if it is there with metadata m.        *)
Source(i, m) == {c.photos[i].data : c \in {c \in card : i \in DOMAIN c.photos /\ c.photos[i].meta = m}}

(* The photo at hand: p has session a, and i is the next of its photos.    *)
IsNext(p, a, i) == p.at = "photos" /\ a \in p.session /\ p.todo # {} /\ i = Min(p.todo)

IsPublished(a, i) == i \in DOMAIN archive[a.id].photos

(* A published photo is skipped if it is intact (_verify_copied_photo).    *)
SkipPhoto(s) ==
    /\ \E p \in process[s] : \E a \in p.session : \E i \in p.todo :
          /\ IsNext(p, a, i) /\ IsPublished(a, i) /\ IsIntact(a, i)
          /\ Goes(s, [p EXCEPT !.todo = @ \ {i}])
    /\ UNCHANGED <<card, active, archive, sent, known, look, lock, happened>>

(* What is read must be what the journal has, if it has the photo.         *)
IsReadable(a, i) == \E d \in Source(i, a.batch.metas[i]) : i \in DOMAIN a.files => a.files[i] = d

StagePhoto(s) ==
    /\ \E p \in process[s] : \E a \in p.session : \E i \in p.todo :
          /\ IsNext(p, a, i) /\ ~IsPublished(a, i) /\ IsReadable(a, i)
          /\ Goes(s, [p EXCEPT !.at = "journal", !.entry = Source(i, a.batch.metas[i])])
    /\ UNCHANGED <<card, active, archive, sent, known, look, lock, happened>>

WithEntry(files, i, d) == [j \in DOMAIN files \cup {i} |-> IF j = i THEN d ELSE files[j]]

(* Mutant of Journal: the photo is published before it is journaled.       *)
JournalAfterwards(s) ==
    /\ \E p \in process[s] : \E a \in p.session, d \in p.entry :
          LET i == Min(p.todo)
          IN  /\ p.at = "journal"
              /\ IF IsPublished(a, i)
                 THEN LET b == [a EXCEPT !.files = WithEntry(@, i, d)]
                      IN  /\ active' = {b}
                          /\ Goes(s, [p EXCEPT !.at = "photos", !.session = {b},
                                               !.todo = @ \ {i}, !.entry = {}])
                          /\ UNCHANGED archive
                 ELSE /\ archive' = [archive EXCEPT ![a.id].photos = WithEntry(@, i, d)]
                      /\ UNCHANGED <<active, process>>
    /\ UNCHANGED <<card, sent, known, look, lock, happened>>

(* The photo is staged in a temporary: its digest is journaled first.      *)
Journal(s) ==
    /\ \E p \in process[s] : \E a \in p.session, d \in p.entry :
          LET b == [a EXCEPT !.files = WithEntry(@, Min(p.todo), d)]
          IN  /\ p.at = "journal"
              /\ active' = {b}
              /\ Goes(s, [p EXCEPT !.at = "publish", !.session = {b}])
    /\ UNCHANGED <<card, archive, sent, known, look, lock, happened>>

(* A link does not replace a file: a name that is taken is an error.       *)
Publish(s) ==
    /\ \E p \in process[s] : \E a \in p.session, d \in p.entry :
          LET i == Min(p.todo)
          IN  /\ p.at = "publish" /\ ~IsPublished(a, i)
              /\ archive' = [archive EXCEPT ![a.id].photos = WithEntry(@, i, d)]
              /\ Goes(s, [p EXCEPT !.at = "photos", !.todo = @ \ {i}, !.entry = {}])
    /\ UNCHANGED <<card, active, sent, known, look, lock, happened>>

(* complete_copy: the source is still the batch and every photo is there.  *)
CanComplete(a) ==
    /\ IsCurrent(a.batch)
    /\ DOMAIN a.files = DOMAIN a.batch.metas
    /\ archive[a.id].manifest \subseteq {Evidence(a)}

WriteManifest(s) ==
    /\ \E p \in process[s] : \E a \in p.session :
          /\ p.at = "photos" /\ p.todo = {} /\ CanComplete(a)
          /\ archive' = [archive EXCEPT ![a.id].manifest = {Evidence(a)}]
          /\ Goes(s, [p EXCEPT !.at = "markCopied"])
    /\ UNCHANGED <<card, active, sent, known, look, lock, happened>>

MarkCopied(s) ==
    /\ \E p \in process[s] : \E a \in p.session :
          /\ p.at = "markCopied"
          /\ active' = {[a EXCEPT !.status = "copied"]}
    /\ Exits(s)
    /\ UNCHANGED <<card, archive, sent, known, look, happened>>

(* A copied session, in copy and in notify: photo after photo.             *)
VerifyPhoto(s) ==
    /\ \E p \in process[s] : \E a \in p.session :
          /\ p.at \in {"verify", "verifyCopied"} /\ Compares(a, p.todo)
          /\ Goes(s, [p EXCEPT !.todo = @ \ {Min(@)}])
    /\ UNCHANGED <<card, active, archive, sent, known, look, lock, happened>>

AlreadyCopied(s) ==
    /\ \E p \in process[s] : \E a \in p.session :
          p.at = "verifyCopied" /\ p.todo = {} /\ SameInventory(a)
    /\ Exits(s)
    /\ UNCHANGED <<card, active, archive, sent, known, look, happened>>

-----------------------------------------------------------------------------
(* notify: verify once more, submit, then record it.                       *)

(* What a proof says: the session and the bytes of its manifest.  The      *)
(* whole identity of the source is looked at once more, volume included.   *)
Authorized(p, a) == IsCurrent(a.batch) /\ p.given.proof = archive[a.id].manifest

VerifyAgain(s) ==
    /\ \E p \in process[s] : \E a \in p.session :
          /\ p.at = "verify" /\ p.todo = {} /\ Authorized(p, a)
          /\ Goes(s, [p EXCEPT !.at = "submit"])
    /\ UNCHANGED <<card, active, archive, sent, known, look, lock, happened>>

Submit(s) ==
    /\ \E p \in process[s] : \E a \in p.session :
          /\ p.at = "submit"
          /\ sent' = [sent EXCEPT ![a.id] = @ + 1]
          /\ Goes(s, [p EXCEPT !.at = "receipt"])
    /\ UNCHANGED <<card, active, archive, known, look, lock, happened>>

WriteReceipt(s) ==
    /\ \E p \in process[s] : \E a \in p.session :
          /\ p.at = "receipt" /\ archive[a.id].receipt = {}
          /\ archive' = [archive EXCEPT ![a.id].receipt = p.given.proof]
          /\ Goes(s, [p EXCEPT !.at = "record"])
    /\ UNCHANGED <<card, active, sent, known, look, lock, happened>>

RecordReceipt(s) ==
    /\ \E p \in process[s] : \E a \in p.session :
          /\ \/ p.at = "record"
             \/ p.at = "restore" /\ p.given.proof = archive[a.id].receipt
          /\ active' = {[a EXCEPT !.receipted = TRUE]}
    /\ Exits(s)
    /\ UNCHANGED <<card, archive, sent, known, look, happened>>

-----------------------------------------------------------------------------
(* reset: the active record goes, every archive stays.                     *)
Unlink(s) ==
    /\ \E p \in process[s] : p.at = "unlink"
    /\ active' = {}
    /\ Exits(s) /\ Forgets(s)
    /\ UNCHANGED <<card, archive, sent, look, happened>>

-----------------------------------------------------------------------------
(* What may go wrong.                                                      *)

(* A check inside the try fails.                                           *)
Raises(p) ==
    \E a \in p.session :
        \/ \E i \in p.todo : /\ IsNext(p, a, i)
                             /\ IF IsPublished(a, i) THEN ~IsIntact(a, i) ELSE ~IsReadable(a, i)
        \/ p.at = "publish" /\ IsPublished(a, Min(p.todo))
        \/ p.at = "photos" /\ p.todo = {} /\ ~CanComplete(a)
        \/ /\ p.at \in {"verify", "verifyCopied"}
           /\ p.todo # {} /\ ~Compares(a, p.todo)
        \/ p.at = "verifyCopied" /\ p.todo = {} /\ ~SameInventory(a)
        \/ p.at = "verify" /\ p.todo = {} /\ ~Authorized(p, a)
        \/ p.at = "restore" /\ p.given.proof # archive[a.id].receipt

InTry(p) == p.at \notin {"start", "lock", "unlink"}

(* The process is gone and has recorded nothing.                           *)
EndsUnrecorded(s) ==
    /\ Exits(s) /\ Forgets(s) /\ Ends(s)
    /\ UNCHANGED <<card, active, archive, sent>>

(* The handlers: a session of this batch is marked as failed.              *)
MarkFailed(s) ==
    /\ active' = {[a EXCEPT !.status = "failed", !.receipted = FALSE] : a \in active}
    /\ Exits(s)
    /\ UNCHANGED <<card, archive, sent, known, look>>

Fails(s) ==
    /\ \E p \in process[s] : InTry(p) /\ Raises(p)
    /\ MarkFailed(s)
    /\ UNCHANGED happened

IOError(s) ==
    /\ Trouble("error")
    /\ \E p \in process[s] : InTry(p)
    /\ MarkFailed(s)

(* A process is killed; or it fails outside a try, or in a way that copy   *)
(* does not catch (a diskutil that times out), or so badly that the write  *)
(* of its handler fails as well.                                           *)
CutShort(s) ==
    /\ Trouble("cut")
    /\ process[s] # {}
    /\ EndsUnrecorded(s)

(* The daemon is killed; the action it has started goes on.                *)
KillDaemon ==
    /\ Trouble("cut")
    /\ process["orphan"] = {}
    /\ process' = [process EXCEPT !["orphan"] = process["child"], !["child"] = {}]
    /\ lock' = IF "child" \in lock THEN {"orphan"} ELSE lock
    /\ known' = Nothing /\ look' = {}
    /\ UNCHANGED <<card, active, archive, sent>>

(* The sessions that notify is verifying.                                  *)
BeingVerified ==
    {a.id : a \in UNION {p.session : p \in {p \in UNION {process[s] : s \in Slot} : p.at = "verify"}}}

(* The card is inserted, removed, exchanged or written to.                 *)
ChangeCard ==
    /\ happened.change < MaxChanges
    /\ card' \in {{}} \cup {{c} : c \in Cards}
    /\ card' # card
    /\ happened' = [happened EXCEPT !.change = @ + 1,
                                    !.insert = IF {Batch(c) : c \in card'} \subseteq Batches
                                               THEN @ ELSE @ + 1,
                                    !.disturbed = @ \cup BeingVerified]
    /\ UNCHANGED <<active, archive, sent, known, look, process, lock>>

-----------------------------------------------------------------------------
Step(s) ==
    \/ Begin(s) \/ Open(s)
    \/ Allocate(s) \/ SkipPhoto(s) \/ StagePhoto(s) \/ Journal(s) \/ Publish(s)
    \/ WriteManifest(s) \/ MarkCopied(s)
    \/ VerifyPhoto(s) \/ AlreadyCopied(s)
    \/ VerifyAgain(s) \/ Submit(s) \/ WriteReceipt(s) \/ RecordReceipt(s)
    \/ Unlink(s)
    \/ Fails(s)

Daemon == LaunchCopy \/ LaunchNotify \/ LaunchReset

Next ==
    \/ SensePhotoBatch \/ SenseArchiveVerified \/ SenseSessionObsolete
    \/ Daemon
    \/ \E s \in Slot : Step(s) \/ IOError(s) \/ CutShort(s)
    \/ OperatorResets \/ KillDaemon \/ ChangeCard

(* The sensors are polled for ever, the daemon launches what it may, and   *)
(* the processes run; nothing has to go wrong.                             *)
Fairness ==
    /\ WF_vars(SensePhotoBatch) /\ WF_vars(SenseArchiveVerified)
    /\ WF_vars(SenseSessionObsolete)
    /\ WF_vars(Daemon)
    /\ \A s \in Slot : WF_vars(Step(s))

Spec == Init /\ [][Next]_vars /\ Fairness

-----------------------------------------------------------------------------
IsOfSomeCard(p, m, d) ==
    \E c \in Cards : p \in DOMAIN c.photos /\ c.photos[p].meta = m /\ c.photos[p].data = d

IsOfOneCard(e) ==
    \E c \in Cards : /\ Batch(c) = e.batch
                     /\ e.files = [p \in DOMAIN c.photos |-> c.photos[p].data]

(* The archives are true.  Once a manifest is written, its destination has *)
(* every photo of the batch with the bytes it records, for good, and each  *)
(* was the photo of a card that looked like the batch.  No mixture of two  *)
(* cards that look alike is announced, whatever was exchanged while it was *)
(* copied, if the card is left alone while notify hashes it photo after    *)
(* photo (actions.py, complete_copy; common.py, verify_archive).           *)
ArchivesAreTrue ==
    \A i \in SessionId : LET m == archive[i].manifest IN
        /\ \A e \in m : /\ archive[i].photos = e.files
                       /\ DOMAIN e.files = DOMAIN e.batch.metas
                       /\ \A p \in DOMAIN e.files : IsOfSomeCard(p, e.batch.metas[p], e.files[p])
        /\ archive[i].receipt \subseteq m
        /\ sent[i] > 0 => \E e \in m : i \notin happened.disturbed => IsOfOneCard(e)

(* One import per insertion of a batch, unless the operator asks for       *)
(* another, and one notification of each, unless a process is cut short    *)
(* between submitting it and recording that (the README of the example).   *)
OncePerInsertion ==
    /\ happened.session <= happened.insert + happened.reset
    /\ \A i \in SessionId : sent[i] <= 1 + happened.cut

(* Whatever is killed and restarted and whenever, an import from a card    *)
(* that is left alone is resumed and never given up: what a killed process *)
(* leaves is never taken for damage (actions.py, copy_photo).              *)
CrashesAreResumed ==
    happened.error = 0 /\ happened.change <= 1 => \A a \in active : a.status # "failed"

(* What a verification finds that nothing disturbs.                        *)
Verified(a) == Agrees(a) /\ SameInventory(a) /\ \A i \in DOMAIN a.files : IsIntact(a, i)

(* The archiver comes to rest: everything imported and announced, or given *)
(* up, or left unverified because the source is not what was copied; it    *)
(* does not go on trying, nor does it forget an insertion.                 *)
ImportSettles ==
    <>[](Idle \/ \E a \in active : Matches(a) /\ a.status = "copied" /\ ~Verified(a))

=============================================================================
