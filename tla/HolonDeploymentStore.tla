------------------------ MODULE HolonDeploymentStore ------------------------
(***************************************************************************)
(* The durable state of a holon deployment: open, load and commit of       *)
(*                                                                         *)
(*   ai-organ-logic/src/organization/HolonDeploymentRuntimeStore.ts        *)
(*                                                                         *)
(* Every operation takes a lock file, rolls interrupted transactions       *)
(* forward, reads the head and, to commit, writes record, tree, receipt,   *)
(* prepared transaction, head and committed transaction, in this order.    *)
(* Any process may die, and any call may throw, between two file           *)
(* operations; each file is put in place atomically (link or rename).      *)
(*                                                                         *)
(* Digests are injective and the tree digest covers its predecessor's, so  *)
(* a head stands for its chain of snapshots, a sequence.  A lock file is   *)
(* known by the worker that made it.  Dead workers stay dead: a restarted  *)
(* process is another worker.  Process ids are not reused.                 *)
(***************************************************************************)
EXTENDS Integers, Sequences, FiniteSets

CONSTANTS
    Worker,       \* callers of the store, each in a process of its own
    Fact,         \* coordinators, members, sessions, subscriptions
    MaxRevision,  \* bound: the last revision a caller asks for
    MaxFaults,    \* bound: failed file operations and deaths of processes
    None          \* no worker, no lock

ASSUME StoreAssumption ==
    /\ None \notin Worker \cup [by : Worker, signed : BOOLEAN]
    /\ MaxRevision \in Nat
    /\ MaxFaults \in Nat

VARIABLES
    lock,         \* runtime.lock: [by, signed], or None
    pc,           \* where each worker is; "dead" when its process is gone
    request,      \* the operation the worker was called for
    stale,        \* the owner in the lock bytes that the worker read, or None
    head,         \* the chain the head file stands for, <<>> without one
    records, trees, receipts,   \* the immutable files, content-addressed
    prepared,     \* prepared transactions: [by, next]
    committed,    \* those with a committed file
    todo,         \* transactions that the worker's recovery still has to look at
    tx,           \* the worker's transaction in hand; .next is also what a read returns
    outcome,      \* "none", "ok", "error": how the body under the lock ended
    answer,       \* what the worker's last operation returned, or <<>>
    faults        \* failed file operations and deaths so far

files == <<head, records, trees, receipts, prepared, committed>>
vars == <<lock, pc, request, stale, files, todo, tx, outcome, answer, faults>>

Snapshot == SUBSET Fact
Chain == Seq(Snapshot)
\* expectedRevision, and the revision and the facts of the snapshot to commit
Request == [kind : {"open", "load", "commit"}, expected : Nat, revision : Nat, next : Snapshot]
Transaction == [by : Worker, next : Chain]
NoRequest == [kind |-> "load", expected |-> 0, revision |-> 0, next |-> {}]
NoTransaction(w) == [by |-> w, next |-> <<>>]

Acquiring == {"create", "sign", "peek", "link", "compare", "steal"}
Recovering == {"scan", "examine", "rollHead", "rollCommit"}
Writing == {"record", "tree", "receipt", "prepare", "publish", "seal"}
Critical == Recovering \cup {"read"} \cup Writing
Releasing == {"inspect", "unlock"}

\* Mutant: every other owner is taken for dead.
PidUnknown(w) == FALSE
PidAlive(w) == pc[w] # "dead"
\* The expectedHeadDigest of a transaction: the head its next head follows.
ExpectedHead(t) == SubSeq(t.next, 1, Len(t.next) - 1)
Last(c) == c[Len(c)]
HasMaterials(c) ==
    /\ <<Len(c), Last(c)>> \in records      \* a record holds its revision and its facts
    /\ c \in trees
    /\ c \in receipts
------------------------------------------------------------------------------
Goto(w, l) == pc' = [pc EXCEPT ![w] = l]
CountFault == faults < MaxFaults /\ faults' = faults + 1

\* The call is over, and with it its local variables; l is "idle" or "dead".
Leave(w, l) ==
    /\ Goto(w, l)
    /\ request' = [request EXCEPT ![w] = NoRequest]
    /\ stale' = [stale EXCEPT ![w] = None]
    /\ todo' = [todo EXCEPT ![w] = {}]
    /\ tx' = [tx EXCEPT ![w] = NoTransaction(w)]
    /\ outcome' = [outcome EXCEPT ![w] = "none"]
\* The body under the lock throws.
Fail(w) == Goto(w, "inspect") /\ outcome' = [outcome EXCEPT ![w] = "error"]

Init ==
    /\ lock = None
    /\ pc = [w \in Worker |-> "idle"]
    /\ request = [w \in Worker |-> NoRequest]
    /\ stale = [w \in Worker |-> None]
    /\ head = <<>>
    /\ records = {} /\ trees = {} /\ receipts = {}
    /\ prepared = {} /\ committed = {}
    /\ todo = [w \in Worker |-> {}]
    /\ tx = [w \in Worker |-> NoTransaction(w)]
    /\ outcome = [w \in Worker |-> "none"]
    /\ answer = [w \in Worker |-> <<>>]
    /\ faults = 0

\* A call of open, load or commit.
Call(w) ==
    /\ pc[w] = "idle"
    /\ \E k \in {"open", "load", "commit"}, e, r \in 0..MaxRevision, n \in Snapshot :
          /\ k # "commit" => e = 0 /\ r = 0 /\ n = {}
          /\ k = "commit" => e < MaxRevision
          /\ request' = [request EXCEPT ![w] =
                           [kind |-> k, expected |-> e, revision |-> r, next |-> n]]
    /\ Goto(w, "create")
    /\ answer' = [answer EXCEPT ![w] = <<>>]
    /\ UNCHANGED <<lock, stale, files, todo, tx, outcome, faults>>

-----------------------------------------------------------------------------
(* acquireLock *)

\* open(lock, "wx"): the file exists from here on, and is empty.
CreateLock(w) ==
    /\ pc[w] = "create"
    /\ IF lock = None
       THEN lock' = [by |-> w, signed |-> FALSE] /\ Goto(w, "sign")
       ELSE lock' = lock /\ Goto(w, "peek")
    /\ UNCHANGED <<request, stale, files, todo, tx, outcome, answer, faults>>

\* handle.writeFile(owner): the bytes go to the file that was opened.  When the sync or
\* the stat after it throws, the call fails and the lock stays.
SignLock(w) ==
    /\ pc[w] = "sign"
    /\ lock' = IF lock # None /\ lock.by = w THEN [lock EXCEPT !.signed = TRUE] ELSE lock
    /\ \/ Goto(w, "scan") /\ UNCHANGED <<request, stale, todo, tx, outcome, faults>>
       \/ Leave(w, "idle") /\ CountFault
    /\ UNCHANGED <<files, answer>>

\* Reads the lock of another owner: retries when it is gone or its owner lives.
PeekLock(w) ==
    /\ pc[w] = "peek"
    /\ lock # None => lock.signed
    /\ IF lock # None /\ ~PidAlive(lock.by)
       THEN stale' = [stale EXCEPT ![w] = lock.by] /\ Goto(w, "link")
       ELSE stale' = stale /\ Goto(w, "create")
    /\ UNCHANGED <<lock, request, files, todo, tx, outcome, answer, faults>>

\* The lock file is empty (RECORD_INVALID) or its owner lives past the deadline (LOCK_TIMEOUT).
GiveUp(w) ==
    /\ pc[w] = "peek"
    /\ lock # None
    /\ ~lock.signed \/ PidAlive(lock.by)
    /\ Leave(w, "idle")
    /\ UNCHANGED <<lock, files, answer, faults>>

\* link(lock, claim): the claim names whatever file is the lock now.
LinkClaim(w) ==
    /\ pc[w] = "link"
    /\ Goto(w, IF lock = None THEN "create" ELSE "compare")
    /\ stale' = [stale EXCEPT ![w] = IF lock # None /\ lock.by = stale[w] THEN @ ELSE None]
    /\ UNCHANGED <<lock, request, files, todo, tx, outcome, answer, faults>>

\* The lock is still the claimed file, and that holds the bytes that were read.
CompareClaim(w) ==
    /\ pc[w] = "compare"
    /\ IF lock # None /\ lock.by = stale[w]
       THEN Goto(w, "steal") /\ stale' = stale
       ELSE Goto(w, "create") /\ stale' = [stale EXCEPT ![w] = None]
    /\ UNCHANGED <<lock, request, files, todo, tx, outcome, answer, faults>>

\* unlink(lock): removes the file of that name, whosever it has become.
StealLock(w) ==
    /\ pc[w] = "steal"
    /\ lock' = None
    /\ stale' = [stale EXCEPT ![w] = None]
    /\ Goto(w, "create")
    /\ UNCHANGED <<request, files, todo, tx, outcome, answer, faults>>

-----------------------------------------------------------------------------
(* recover *)

\* Mutant: an operation does not look at interrupted transactions.
ScanNothing(w) ==
    /\ pc[w] = "scan"
    /\ todo' = [todo EXCEPT ![w] = {}]
    /\ Goto(w, "examine")
    /\ UNCHANGED <<lock, request, stale, files, tx, outcome, answer, faults>>
ScanTransactions(w) ==
    /\ pc[w] = "scan"
    /\ todo' = [todo EXCEPT ![w] = prepared]
    /\ Goto(w, "examine")
    /\ UNCHANGED <<lock, request, stale, files, tx, outcome, answer, faults>>

\* One prepared transaction; their names are random, so any of them may be next.
SkipCommitted(w) ==
    /\ pc[w] = "examine"
    /\ \E t \in todo[w] \cap committed : todo' = [todo EXCEPT ![w] = @ \ {t}]
    /\ UNCHANGED <<lock, pc, request, stale, files, tx, outcome, answer, faults>>

RollForward(w) ==
    /\ pc[w] = "examine"
    /\ \E t \in todo[w] \ committed :
          /\ tx' = [tx EXCEPT ![w] = t]
          /\ \/ /\ HasMaterials(t.next) /\ head \in {ExpectedHead(t), t.next}
                /\ Goto(w, IF head = t.next THEN "rollCommit" ELSE "rollHead")
                /\ outcome' = outcome
             \/ /\ ~HasMaterials(t.next) \/ head \notin {ExpectedHead(t), t.next}
                /\ Fail(w)          \* TRANSACTION_MATERIAL_INVALID, TRANSACTION_AMBIGUOUS
    /\ UNCHANGED <<lock, request, stale, files, todo, answer, faults>>

RollHead(w) ==
    /\ pc[w] = "rollHead"
    /\ head' = tx[w].next
    /\ Goto(w, "rollCommit")
    /\ UNCHANGED <<lock, request, stale, records, trees, receipts, prepared, committed,
                   todo, tx, outcome, answer, faults>>

RollCommit(w) ==
    /\ pc[w] = "rollCommit"
    /\ committed' = committed \cup {tx[w]}
    /\ todo' = [todo EXCEPT ![w] = @ \ {tx[w]}]
    /\ tx' = [tx EXCEPT ![w] = NoTransaction(w)]
    /\ Goto(w, "examine")
    /\ UNCHANGED <<lock, request, stale, head, records, trees, receipts, prepared,
                   outcome, answer, faults>>

EndRecovery(w) ==
    /\ pc[w] = "examine"
    /\ todo[w] = {}
    /\ Goto(w, "read")
    /\ UNCHANGED <<lock, request, stale, files, todo, tx, outcome, answer, faults>>

-----------------------------------------------------------------------------
(* readCurrent, and what open, load and commit do with it *)

\* The next chain that the request makes of the head, if it is one to write.
Admits(w) ==
    \/ request[w].kind = "open" /\ head = <<>>
    \/ /\ request[w].kind = "commit"
       /\ Len(head) = request[w].expected + 1
       /\ request[w].revision = Len(head)
       /\ Last(head) \subseteq request[w].next
NextChain(w) == Append(head, IF request[w].kind = "open" THEN {} ELSE request[w].next)
Readable(w) == request[w].kind # "commit" /\ head # <<>>

ReadCurrent(w) ==
    /\ pc[w] = "read"
    /\ \/ /\ Admits(w)
          /\ head # <<>> => HasMaterials(head)
          /\ tx' = [tx EXCEPT ![w] = [by |-> w, next |-> NextChain(w)]]
          /\ Goto(w, "record") /\ outcome' = outcome
       \/ /\ Readable(w) /\ HasMaterials(head)
          /\ tx' = [tx EXCEPT ![w] = [by |-> w, next |-> head]]
          /\ Goto(w, "inspect") /\ outcome' = [outcome EXCEPT ![w] = "ok"]
       \/ \* a missing head or file, CAS_CONFLICT, REVISION_CONFLICT, or a removed fact
          /\ (head # <<>> /\ ~HasMaterials(head)) \/ ~(Admits(w) \/ Readable(w))
          /\ Fail(w) /\ tx' = tx
    /\ UNCHANGED <<lock, request, stale, files, todo, answer, faults>>

-----------------------------------------------------------------------------
(* commitLocked *)

WriteRecord(w) ==
    /\ pc[w] = "record"
    /\ records' = records \cup {<<Len(tx[w].next), Last(tx[w].next)>>}
    /\ Goto(w, "tree")
    /\ UNCHANGED <<lock, request, stale, head, trees, receipts, prepared, committed,
                   todo, tx, outcome, answer, faults>>

\* Mutant: the transaction is prepared before its receipt is written.
WriteTreeOnly(w) ==
    /\ pc[w] = "tree"
    /\ trees' = trees \cup {tx[w].next}
    /\ Goto(w, "prepare")
    /\ UNCHANGED <<lock, request, stale, head, records, receipts, prepared, committed,
                   todo, tx, outcome, answer, faults>>
WriteTree(w) ==
    /\ pc[w] = "tree"
    /\ trees' = trees \cup {tx[w].next}
    /\ Goto(w, "receipt")
    /\ UNCHANGED <<lock, request, stale, head, records, receipts, prepared, committed,
                   todo, tx, outcome, answer, faults>>

WriteReceipt(w) ==
    /\ pc[w] = "receipt"
    /\ receipts' = receipts \cup {tx[w].next}
    /\ Goto(w, "prepare")
    /\ UNCHANGED <<lock, request, stale, head, records, trees, prepared, committed,
                   todo, tx, outcome, answer, faults>>

\* Mutants: the head is replaced without a prepared transaction; a prepared transaction
\* is acknowledged before the head is replaced.
PrepareNothing(w) ==
    /\ pc[w] = "prepare"
    /\ Goto(w, "publish")
    /\ UNCHANGED <<lock, request, stale, files, todo, tx, outcome, answer, faults>>
PrepareAndReturn(w) ==
    /\ pc[w] = "prepare"
    /\ prepared' = prepared \cup {tx[w]}
    /\ Goto(w, "inspect")
    /\ outcome' = [outcome EXCEPT ![w] = "ok"]
    /\ UNCHANGED <<lock, request, stale, head, records, trees, receipts, committed,
                   todo, tx, answer, faults>>
Prepare(w) ==
    /\ pc[w] = "prepare"
    /\ prepared' = prepared \cup {tx[w]}
    /\ Goto(w, "publish")
    /\ UNCHANGED <<lock, request, stale, head, records, trees, receipts, committed,
                   todo, tx, outcome, answer, faults>>

WriteHead(w) ==
    /\ pc[w] = "publish"
    /\ head' = tx[w].next
    /\ Goto(w, "seal")
    /\ UNCHANGED <<lock, request, stale, records, trees, receipts, prepared, committed,
                   todo, tx, outcome, answer, faults>>

CommitTransaction(w) ==
    /\ pc[w] = "seal"
    /\ committed' = committed \cup {tx[w]}
    /\ Goto(w, "inspect")
    /\ outcome' = [outcome EXCEPT ![w] = "ok"]
    /\ UNCHANGED <<lock, request, stale, head, records, trees, receipts, prepared,
                   todo, tx, answer, faults>>

\* The committed file is in place, and the sync of its directory throws.
CommitUnsynced(w) ==
    /\ pc[w] = "seal"
    /\ committed' = committed \cup {tx[w]}
    /\ Fail(w)
    /\ CountFault
    /\ UNCHANGED <<lock, request, stale, head, records, trees, receipts, prepared,
                   todo, tx, answer>>

-----------------------------------------------------------------------------
(* releaseLock, faults and crashes *)

Finish(w) ==
    /\ Leave(w, "idle")
    /\ answer' = [answer EXCEPT ![w] = IF outcome[w] = "ok" THEN tx[w].next ELSE <<>>]

\* The lock is removed only while it is still the worker's own file.
InspectLock(w) ==
    /\ pc[w] = "inspect"
    /\ IF lock # None /\ lock.by = w
       THEN Goto(w, "unlock") /\ UNCHANGED <<request, stale, todo, tx, outcome, answer>>
       ELSE Finish(w)
    /\ UNCHANGED <<lock, files, faults>>

Unlock(w) ==
    /\ pc[w] = "unlock"
    /\ lock' = None
    /\ Finish(w)
    /\ UNCHANGED <<files, faults>>

\* The lock is gone, and the sync of its directory throws: so does the operation.
UnlockUnsynced(w) ==
    /\ pc[w] = "unlock"
    /\ lock' = None
    /\ Leave(w, "idle")
    /\ CountFault
    /\ UNCHANGED <<files, answer>>

\* A file operation throws.  Under the lock, the lock is released; a lock that was made
\* but could not be signed stays; a failed release fails the operation.  Throwing after
\* another write than those above is throwing before the operation that follows it.
Fault(w) ==
    /\ \/ pc[w] \in Critical /\ Fail(w) /\ UNCHANGED <<request, stale, todo, tx>>
       \/ pc[w] \in Acquiring \cup Releasing /\ Leave(w, "idle")
    /\ CountFault
    /\ UNCHANGED <<lock, files, answer>>

Crash(w) ==
    /\ pc[w] # "dead"
    /\ Leave(w, "dead")
    /\ CountFault
    /\ UNCHANGED <<lock, files, answer>>

-----------------------------------------------------------------------------
Step(w) ==
    \/ Call(w)
    \/ CreateLock(w) \/ SignLock(w) \/ PeekLock(w) \/ GiveUp(w)
    \/ LinkClaim(w) \/ CompareClaim(w) \/ StealLock(w)
    \/ ScanTransactions(w) \/ SkipCommitted(w) \/ RollForward(w) \/ RollHead(w)
    \/ RollCommit(w) \/ EndRecovery(w)
    \/ ReadCurrent(w)
    \/ WriteRecord(w) \/ WriteTree(w) \/ WriteReceipt(w) \/ Prepare(w) \/ WriteHead(w)
    \/ CommitTransaction(w) \/ CommitUnsynced(w)
    \/ InspectLock(w) \/ Unlock(w) \/ UnlockUnsynced(w) \/ Fault(w) \/ Crash(w)

Next == \E w \in Worker : Step(w)

Spec == Init /\ [][Next]_vars

\* At most one worker is between acquireLock and releaseLock: the lock of a live owner is
\* never taken away, and that of a dead one is taken over once.
LockExclusive == \A v, w \in Worker : pc[v] \in Critical /\ pc[w] \in Critical => v = w

\* At most one worker is between the comparison of a stale lock with its claim and the unlink.
OneTaker == \A v, w \in Worker : pc[v] = "steal" /\ pc[w] = "steal" => v = w

\* The behaviours in which no two workers take over the same stale lock at once.
TakeoverSpec == Init /\ [][Next /\ OneTaker']_vars

-----------------------------------------------------------------------------
(* Properties *)

\* Every variable has its type; what is committed, and what a recovery still has to look
\* at, was prepared (commitLocked writes the prepared file before the head, recover reads
\* the prepared files first).
TypeOK ==
    /\ lock \in [by : Worker, signed : BOOLEAN] \cup {None}
    /\ pc \in [Worker -> {"idle", "dead"} \cup Acquiring \cup Critical \cup Releasing]
    /\ request \in [Worker -> Request]
    /\ stale \in [Worker -> Worker \cup {None}]
    /\ head \in Chain
    /\ records \subseteq Nat \X Snapshot
    /\ trees \subseteq Chain /\ receipts \subseteq Chain
    /\ prepared \subseteq Transaction /\ committed \subseteq prepared
    /\ todo \in [Worker -> SUBSET prepared]
    /\ tx \in [Worker -> Transaction]
    /\ outcome \in [Worker -> {"none", "ok", "error"}]
    /\ answer \in [Worker -> Chain]
    /\ faults \in 0..MaxFaults

Open == prepared \ committed

\* Wherever a process died, the next recovery succeeds: at most one transaction is open,
\* its files are there, and the head is the one it expects or the one it makes
\* (recover, verifyTransactionMaterials; TRANSACTION_AMBIGUOUS is never thrown).
Recoverable ==
    /\ \A t, u \in Open : t = u
    /\ \A t \in Open : HasMaterials(t.next) /\ head \in {ExpectedHead(t), t.next}
    /\ head # <<>> => HasMaterials(head)

\* A snapshot that open, load or commit returned stays in the history of the head,
\* whatever crashes, faults and commits of other workers follow.
PartOf(p, h) == Len(p) <= Len(h) /\ \A i \in 1..Len(p) : p[i] = h[i]
AnswersKept == \A w \in Worker : PartOf(answer[w], head)

-----------------------------------------------------------------------------
(* Refinement *)

\* A transaction is decided when it is prepared: any later operation rolls it forward.
History == IF Open = {} THEN head ELSE (CHOOSE t \in Open : TRUE).next

Phase(w) ==
    CASE pc[w] \in Acquiring \cup Recovering \cup {"read", "record", "tree", "receipt", "prepare"} -> "called"
      [] pc[w] \in {"publish", "seal"} -> "taken"
      [] pc[w] \in Releasing /\ outcome[w] = "ok" -> "taken"
      [] OTHER -> "idle"

Register == INSTANCE AtomicRevisionStore WITH
    history <- History,
    phase <- [w \in Worker |-> Phase(w)],
    request <- [w \in Worker |-> IF Phase(w) = "idle" THEN NoRequest ELSE request[w]],
    effect <- [w \in Worker |-> IF Phase(w) = "taken" THEN tx[w].next ELSE <<>>]

\* The store is an atomic register of revisions: every operation takes effect at one point
\* between its call and its return, a failed or crashed one once or never, and no revision
\* is lost, repeated or skipped (open, load, commit with their lock, recovery and journal).
Refinement == Register!Spec
==============================================================================
