--------------------- MODULE HolonDeploymentStoreProofs ---------------------
(***************************************************************************)
(* Proofs about HolonDeploymentStore, for every set of workers and facts   *)
(* and all bounds.  Types hold of every behaviour; the lock, the recovery  *)
(* and the refinement of the atomic register hold of the behaviours in     *)
(* which no two workers are taking over one stale lock (TakeoverSpec).     *)
(***************************************************************************)
EXTENDS HolonDeploymentStore, TLAPS

(***************************************************************************)
(* What the types rest on: a worker that publishes or rolls forward has a  *)
(* prepared transaction in hand, one that writes has a chain to write.     *)
(***************************************************************************)
InHand(w) ==
    /\ pc[w] \in {"rollHead", "rollCommit", "publish", "seal"} => tx[w] \in prepared
    /\ pc[w] = "record" => tx[w].next # <<>>

TypeInv == TypeOK /\ \A w \in Worker : InHand(w)

(***************************************************************************)
(* The lock: whoever is under it made it, and whoever is about to remove a *)
(* stale one sees the lock of a dead worker.                               *)
(***************************************************************************)
Holding == {"sign"} \cup Critical \cup Releasing

LockInv(w) ==
    /\ pc[w] \in Holding => lock # None /\ lock.by = w
    /\ pc[w] \in {"link", "compare", "steal"} /\ stale[w] # None => pc[stale[w]] = "dead"
    /\ pc[w] = "steal" => lock # None /\ lock.by = stale[w] /\ stale[w] # None

(***************************************************************************)
(* The files: what is prepared can be rolled forward, one transaction is   *)
(* open at most, and committed ones and answers are in the head's history. *)
(***************************************************************************)
FilesInv ==
    /\ \A t \in prepared : t.next # <<>> /\ HasMaterials(t.next)
    /\ \A t, u \in Open : t = u
    /\ \A t \in Open : head \in {ExpectedHead(t), t.next}
    /\ \A t \in committed : PartOf(t.next, head)
    /\ head # <<>> => HasMaterials(head)

(***************************************************************************)
(* What a worker knows at each point of an operation.  Nothing is open     *)
(* between the end of the recovery and the prepared file; from there on    *)
(* the open transaction is the worker's own.                               *)
(***************************************************************************)
Drafting == {"record", "tree", "receipt", "prepare"}

WorkerInv(w) ==
    /\ pc[w] \in {"examine", "rollHead", "rollCommit"} => Open \subseteq todo[w]
    /\ pc[w] \in {"rollHead", "publish"} => tx[w] \in Open /\ head = ExpectedHead(tx[w])
    /\ pc[w] \in {"rollCommit", "seal"} => tx[w] \in Open /\ head = tx[w].next
    /\ pc[w] \in Drafting \cup {"read"} => Open = {}
    /\ pc[w] \in Drafting => Admits(w) /\ tx[w] = [by |-> w, next |-> NextChain(w)]
    /\ pc[w] \in {"tree", "receipt", "prepare"} => <<Len(tx[w].next), Last(tx[w].next)>> \in records
    /\ pc[w] \in {"receipt", "prepare"} => tx[w].next \in trees
    /\ pc[w] = "prepare" => tx[w].next \in receipts
    /\ pc[w] \in Releasing /\ outcome[w] = "ok" => tx[w].next # <<>> /\ PartOf(tx[w].next, head)
    /\ pc[w] \notin {"idle", "dead"} => answer[w] = <<>>
    /\ PartOf(answer[w], head)

IInv == TypeInv /\ FilesInv /\ \A w \in Worker : LockInv(w) /\ WorkerInv(w)
------------------------------------------------------------------------------
(* Chains *)

\* The head that a chain follows is an earlier part of it; appending undoes taking it.
LEMMA ChainFacts ==
    ASSUME NEW c \in Chain, NEW s \in Snapshot
    PROVE  /\ Append(c, s) \in Chain /\ Append(c, s) # <<>>
           /\ Last(Append(c, s)) = s /\ Len(Append(c, s)) = Len(c) + 1
           /\ SubSeq(Append(c, s), 1, Len(Append(c, s)) - 1) = c
  <1>1. /\ Append(c, s) \in Chain /\ Len(Append(c, s)) = Len(c) + 1 /\ Len(c) \in Nat
        /\ Append(c, s)[Len(c) + 1] = s
        /\ \A i \in 1..Len(c) : Append(c, s)[i] = c[i]
    BY DEF Chain
  <1>2. Append(c, s) # <<>>
    BY <1>1
  <1>3. /\ SubSeq(Append(c, s), 1, Len(c)) \in Chain /\ Len(SubSeq(Append(c, s), 1, Len(c))) = Len(c)
        /\ \A i \in 1..Len(c) : SubSeq(Append(c, s), 1, Len(c))[i] = c[i]
    BY <1>1 DEF Chain
  <1>4. SubSeq(Append(c, s), 1, Len(c)) = c
    BY <1>1, <1>3 DEF Chain
  <1>5. Len(Append(c, s)) - 1 = Len(c)
    BY <1>1
  <1> QED BY <1>1, <1>2, <1>4, <1>5 DEF Last

LEMMA PrefixFacts ==
    ASSUME NEW c \in Chain, c # <<>>
    PROVE  /\ Len(c) \in Nat \ {0} /\ Last(c) \in Snapshot
           /\ SubSeq(c, 1, Len(c) - 1) \in Chain
           /\ Len(SubSeq(c, 1, Len(c) - 1)) = Len(c) - 1
           /\ PartOf(SubSeq(c, 1, Len(c) - 1), c)
  <1>1. Len(c) \in Nat \ {0}
    BY DEF Chain
  <1>2. Last(c) \in Snapshot
    BY <1>1 DEF Chain, Last
  <1>3. /\ SubSeq(c, 1, Len(c) - 1) \in Chain /\ Len(SubSeq(c, 1, Len(c) - 1)) = Len(c) - 1
        /\ \A i \in 1..(Len(c) - 1) : SubSeq(c, 1, Len(c) - 1)[i] = c[i]
    BY <1>1, SMTT(30) DEF Chain
  <1> QED BY <1>1, <1>2, <1>3 DEF PartOf

\* PartOf is a partial order with least element <<>>.
LEMMA PartFacts ==
    ASSUME NEW c \in Chain
    PROVE  /\ PartOf(c, c) /\ PartOf(<<>>, c) /\ Len(c) \in Nat /\ <<>> \in Chain
           /\ PartOf(c, <<>>) => c = <<>>
           /\ \A d, e \in Chain : PartOf(c, d) /\ PartOf(d, e) => PartOf(c, e)
  <1>1. PartOf(c, c) /\ PartOf(<<>>, c) /\ Len(c) \in Nat /\ <<>> \in Chain
    BY DEF Chain, PartOf
  <1>2. PartOf(c, <<>>) => c = <<>>
    BY DEF Chain, PartOf
  <1>3. ASSUME NEW d \in Chain, NEW e \in Chain, PartOf(c, d), PartOf(d, e)
        PROVE  PartOf(c, e)
    <2>1. Len(c) \in Nat /\ Len(d) \in Nat /\ Len(e) \in Nat
      BY DEF Chain
    <2>2. Len(c) <= Len(d) /\ Len(d) <= Len(e)
      BY <1>3 DEF PartOf
    <2>3. \A i \in 1..Len(c) : c[i] = e[i]
      BY <1>3, <2>1, <2>2 DEF PartOf
    <2> QED BY <2>1, <2>2, <2>3 DEF PartOf
  <1> QED BY <1>1, <1>2, <1>3
------------------------------------------------------------------------------
(* Types *)

\* Every control location is one of the declared ones.
LEMMA Locations ==
    {"idle", "dead"} \cup Acquiring \cup Critical \cup Releasing =
        {"idle", "dead", "create", "sign", "peek", "link", "compare", "steal",
         "scan", "examine", "rollHead", "rollCommit", "read",
         "record", "tree", "receipt", "prepare", "publish", "seal", "inspect", "unlock"}
  BY DEF Acquiring, Critical, Releasing, Recovering, Writing

\* The values that a worker's local variables get when a call ends.
LEMMA NoValues ==
    ASSUME NEW w \in Worker
    PROVE  /\ NoRequest \in Request /\ NoTransaction(w) \in Transaction
           /\ <<>> \in Chain /\ NoTransaction(w).next = <<>> /\ NoTransaction(w).by = w
  BY DEF NoRequest, Request, NoTransaction, Transaction, Chain, Snapshot

\* The transaction in hand, and the two that a worker can take in hand.
LEMMA HandFacts ==
    ASSUME TypeOK, NEW w \in Worker
    PROVE  /\ tx[w] \in Transaction /\ tx[w].next \in Chain
           /\ tx[w].next # <<>> => <<Len(tx[w].next), Last(tx[w].next)>> \in Nat \X Snapshot
           /\ NextChain(w) \in Chain /\ NextChain(w) # <<>>
           /\ [by |-> w, next |-> NextChain(w)] \in Transaction
           /\ [by |-> w, next |-> head] \in Transaction
  <1>1. tx[w] \in Transaction /\ tx[w].next \in Chain
    BY DEF TypeOK, Transaction
  <1>2. tx[w].next # <<>> => <<Len(tx[w].next), Last(tx[w].next)>> \in Nat \X Snapshot
    BY <1>1, PrefixFacts
  <1>3. head \in Chain /\ request[w].next \in Snapshot /\ {} \in Snapshot
    BY DEF TypeOK, Request, Snapshot
  <1>4. NextChain(w) \in Chain /\ NextChain(w) # <<>>
    BY <1>3, ChainFacts DEF NextChain
  <1> QED BY <1>1, <1>2, <1>3, <1>4 DEF Transaction

\* Every step keeps the types.
LEMMA KeepsTypes ==
    ASSUME TypeInv, NEW w \in Worker, Step(w)
    PROVE  TypeInv'
  <1> USE Locations, StoreAssumption DEF Goto, files, TypeInv
  <1>1. CASE Call(w)
    <2>1. \A k \in {"open", "load", "commit"}, e, r \in 0..MaxRevision, n \in Snapshot :
              [kind |-> k, expected |-> e, revision |-> r, next |-> n] \in Request
      BY DEF Request
    <2>2. request' \in [Worker -> Request]
      <3>1. PICK k \in {"open", "load", "commit"}, e, r \in 0..MaxRevision, n \in Snapshot :
                request' = [request EXCEPT ![w] =
                              [kind |-> k, expected |-> e, revision |-> r, next |-> n]]
        BY <1>1 DEF Call
      <3> QED BY <2>1, <3>1 DEF TypeOK
    <2>3. TypeOK'
      BY <1>1, <2>2, NoValues DEF Call, TypeOK
    <2> QED BY <1>1, <2>3 DEF Call, TypeOK, InHand
  <1>2. CASE CreateLock(w)
    <2>1. TypeOK'
      <3>1. [by |-> w, signed |-> FALSE] \in [by : Worker, signed : BOOLEAN]
        OBVIOUS
      <3> QED BY <1>2, <3>1 DEF CreateLock, TypeOK
    <2> QED BY <1>2, <2>1 DEF CreateLock, TypeOK, InHand
  <1>3. CASE SignLock(w)
    <2>1. TypeOK'
      <3>1. lock' \in [by : Worker, signed : BOOLEAN] \cup {None}
        BY <1>3 DEF SignLock, TypeOK
      <3>2. CASE Goto(w, "scan") /\ UNCHANGED <<request, stale, todo, tx, outcome, faults>>
        BY <1>3, <3>1, <3>2 DEF SignLock, TypeOK
      <3>3. CASE Leave(w, "idle") /\ CountFault
        BY <1>3, <3>1, <3>3, NoValues DEF SignLock, Leave, CountFault, TypeOK
      <3> QED BY <1>3, <3>2, <3>3 DEF SignLock
    <2> QED BY <1>3, <2>1 DEF SignLock, Leave, CountFault, TypeOK, InHand
  <1>4. CASE PeekLock(w)
    <2>1. TypeOK'
      BY <1>4 DEF PeekLock, TypeOK
    <2> QED BY <1>4, <2>1 DEF PeekLock, TypeOK, InHand
  <1>5. CASE GiveUp(w)
    <2>1. TypeOK'
      BY <1>5, NoValues DEF GiveUp, Leave, TypeOK
    <2> QED BY <1>5, <2>1 DEF GiveUp, Leave, TypeOK, InHand
  <1>6. CASE LinkClaim(w)
    <2>1. TypeOK'
      BY <1>6 DEF LinkClaim, TypeOK
    <2> QED BY <1>6, <2>1 DEF LinkClaim, TypeOK, InHand
  <1>7. CASE CompareClaim(w)
    <2>1. TypeOK'
      BY <1>7 DEF CompareClaim, TypeOK
    <2> QED BY <1>7, <2>1 DEF CompareClaim, TypeOK, InHand
  <1>8. CASE StealLock(w)
    <2>1. TypeOK'
      BY <1>8 DEF StealLock, TypeOK
    <2> QED BY <1>8, <2>1 DEF StealLock, TypeOK, InHand
  <1>9. CASE ScanTransactions(w)
    <2>1. TypeOK'
      BY <1>9 DEF ScanTransactions, TypeOK
    <2> QED BY <1>9, <2>1 DEF ScanTransactions, TypeOK, InHand
  <1>10. CASE SkipCommitted(w)
    <2>1. TypeOK'
      BY <1>10 DEF SkipCommitted, TypeOK
    <2> QED BY <1>10, <2>1 DEF SkipCommitted, TypeOK, InHand
  <1>11. CASE RollForward(w)
    <2>1. TypeOK'
      BY <1>11 DEF RollForward, Fail, TypeOK
    <2> QED BY <1>11, <2>1 DEF RollForward, Fail, TypeOK, InHand
  <1>12. CASE RollHead(w)
    <2>1. TypeOK'
      <3>1. tx[w] \in prepared
        BY <1>12 DEF RollHead, InHand
      <3> QED BY <1>12, <3>1, NoValues, HandFacts DEF RollHead, TypeOK
    <2> QED BY <1>12, <2>1 DEF RollHead, TypeOK, InHand
  <1>13. CASE RollCommit(w)
    <2>1. TypeOK'
      <3>1. tx[w] \in prepared
        BY <1>13 DEF RollCommit, InHand
      <3> QED BY <1>13, <3>1, NoValues, HandFacts DEF RollCommit, TypeOK
    <2> QED BY <1>13, <2>1 DEF RollCommit, TypeOK, InHand
  <1>14. CASE EndRecovery(w)
    <2>1. TypeOK'
      BY <1>14 DEF EndRecovery, TypeOK
    <2> QED BY <1>14, <2>1 DEF EndRecovery, TypeOK, InHand
  <1>15. CASE ReadCurrent(w)
    <2>1. TypeOK'
      <3>1. tx' \in [Worker -> Transaction]
        BY <1>15, HandFacts, ZenonT(60) DEF ReadCurrent, Fail, TypeOK
      <3> QED BY <1>15, <3>1 DEF ReadCurrent, Fail, TypeOK
    <2>2. ASSUME NEW v \in Worker PROVE InHand(v)'
      <3>1. pc'[v] # pc[v] => v = w /\ (pc'[w] = "record" => tx'[w].next = NextChain(w))
        BY <1>15 DEF ReadCurrent, Fail, TypeOK
      <3>2. pc'[v] \in {"rollHead", "rollCommit", "publish", "seal"} => v # w
        BY <1>15 DEF ReadCurrent, Fail, TypeOK
      <3>3. v # w => tx'[v] = tx[v]
        BY <1>15 DEF ReadCurrent, Fail, TypeOK
      <3>4. tx'[v].next = NextChain(w) => tx'[v].next # <<>>
        BY HandFacts
      <3> QED BY <1>15, <3>1, <3>2, <3>3, <3>4 DEF ReadCurrent, InHand
    <2> QED BY <2>1, <2>2
  <1>16. CASE WriteRecord(w)
    <2>1. TypeOK'
      <3>1. tx[w].next # <<>>
        BY <1>16 DEF WriteRecord, InHand
      <3>2. <<Len(tx[w].next), Last(tx[w].next)>> \in Nat \X Snapshot
        BY <3>1, HandFacts
      <3> QED BY <1>16, <3>2 DEF WriteRecord, TypeOK
    <2> QED BY <1>16, <2>1 DEF WriteRecord, TypeOK, InHand
  <1>17. CASE WriteTree(w)
    <2>1. TypeOK'
      BY <1>17, HandFacts DEF WriteTree, TypeOK
    <2> QED BY <1>17, <2>1 DEF WriteTree, TypeOK, InHand
  <1>18. CASE WriteReceipt(w)
    <2>1. TypeOK'
      BY <1>18, HandFacts DEF WriteReceipt, TypeOK
    <2> QED BY <1>18, <2>1 DEF WriteReceipt, TypeOK, InHand
  <1>19. CASE Prepare(w)
    <2>1. TypeOK'
      BY <1>19, HandFacts DEF Prepare, TypeOK
    <2> QED BY <1>19, <2>1 DEF Prepare, TypeOK, InHand
  <1>20. CASE WriteHead(w)
    <2>1. TypeOK'
      <3>1. tx[w] \in prepared
        BY <1>20 DEF WriteHead, InHand
      <3> QED BY <1>20, <3>1, NoValues, HandFacts DEF WriteHead, TypeOK
    <2> QED BY <1>20, <2>1 DEF WriteHead, TypeOK, InHand
  <1>21. CASE CommitTransaction(w)
    <2>1. TypeOK'
      <3>1. tx[w] \in prepared
        BY <1>21 DEF CommitTransaction, InHand
      <3> QED BY <1>21, <3>1, NoValues, HandFacts DEF CommitTransaction, TypeOK
    <2> QED BY <1>21, <2>1 DEF CommitTransaction, TypeOK, InHand
  <1>22. CASE InspectLock(w)
    <2>1. TypeOK'
      <3>1. tx[w].next \in Chain /\ <<>> \in Chain
        BY HandFacts, NoValues
      <3>2. answer' \in [Worker -> Chain]
        BY <1>22, <3>1 DEF InspectLock, Finish, Leave, TypeOK
      <3>3. CASE Leave(w, "idle")
        BY <1>22, <3>2, <3>3, NoValues DEF InspectLock, Leave, TypeOK
      <3>4. CASE pc' = [pc EXCEPT ![w] = "unlock"] /\ UNCHANGED <<request, stale, todo, tx, outcome>>
        BY <1>22, <3>2, <3>4 DEF InspectLock, TypeOK
      <3> QED BY <1>22, <3>3, <3>4 DEF InspectLock, Finish
    <2> QED BY <1>22, <2>1 DEF InspectLock, Finish, Leave, TypeOK, InHand
  <1>23. CASE Unlock(w)
    <2>1. TypeOK'
      <3>1. tx[w].next \in Chain /\ <<>> \in Chain
        BY HandFacts, NoValues
      <3>2. answer' \in [Worker -> Chain]
        BY <1>23, <3>1 DEF Unlock, Finish, Leave, TypeOK
      <3> QED BY <1>23, <3>2, NoValues DEF Unlock, Finish, Leave, TypeOK
    <2> QED BY <1>23, <2>1 DEF Unlock, Finish, Leave, TypeOK, InHand
  <1>24. CASE Fault(w)
    <2>1. TypeOK'
      BY <1>24, NoValues DEF Fault, Fail, Leave, CountFault, TypeOK
    <2> QED BY <1>24, <2>1 DEF Fault, Fail, Leave, CountFault, TypeOK, InHand
  <1>25. CASE Crash(w)
    <2>1. TypeOK'
      BY <1>25, NoValues DEF Crash, Leave, CountFault, TypeOK
    <2> QED BY <1>25, <2>1 DEF Crash, Leave, CountFault, TypeOK, InHand
  <1>26. CASE CommitUnsynced(w)
    <2>1. TypeOK'
      <3>1. tx[w] \in prepared
        BY <1>26 DEF CommitUnsynced, InHand
      <3>2. committed' \subseteq prepared' /\ prepared' = prepared /\ faults' \in 0..MaxFaults
        BY <1>26, <3>1 DEF CommitUnsynced, CountFault, TypeOK
      <3>3. /\ pc' = [pc EXCEPT ![w] = "inspect"] /\ outcome' = [outcome EXCEPT ![w] = "error"]
            /\ UNCHANGED <<lock, request, stale, head, records, trees, receipts, todo, tx, answer>>
        BY <1>26 DEF CommitUnsynced, Fail
      <3> QED BY <3>2, <3>3 DEF TypeOK
    <2> QED BY <1>26, <2>1 DEF CommitUnsynced, Fail, TypeOK, InHand
  <1>27. CASE UnlockUnsynced(w)
    <2>1. TypeOK'
      BY <1>27, NoValues DEF UnlockUnsynced, Leave, CountFault, TypeOK
    <2> QED BY <1>27, <2>1 DEF UnlockUnsynced, Leave, TypeOK, InHand
  <1> QED
    BY <1>1, <1>2, <1>3, <1>4, <1>5, <1>6, <1>7, <1>8, <1>9, <1>10, <1>11, <1>12, <1>13,
       <1>14, <1>15, <1>16, <1>17, <1>18, <1>19, <1>20, <1>21, <1>22, <1>23, <1>24, <1>25,
       <1>26, <1>27
    DEF Step
------------------------------------------------------------------------------
(* Steps of one worker and what they leave alone *)

\* Nothing that belongs to another worker changes.
Local(w) ==
    \A v \in Worker \ {w} :
        /\ pc'[v] = pc[v] /\ request'[v] = request[v] /\ stale'[v] = stale[v]
        /\ todo'[v] = todo[v] /\ tx'[v] = tx[v] /\ outcome'[v] = outcome[v]
        /\ answer'[v] = answer[v]

\* A step is a worker's own, and a dead worker takes none.
LEMMA StepIsLocal ==
    ASSUME TypeOK, NEW w \in Worker, Step(w)
    PROVE  Local(w) /\ pc[w] # "dead"
  <1> USE Locations DEF Goto, Local, TypeOK
  <1>1. CASE Call(w)
    BY <1>1 DEF Call
  <1>2. CASE CreateLock(w)
    BY <1>2 DEF CreateLock
  <1>3. CASE SignLock(w)
    BY <1>3 DEF SignLock, Leave, CountFault
  <1>4. CASE PeekLock(w)
    BY <1>4 DEF PeekLock
  <1>5. CASE GiveUp(w)
    BY <1>5 DEF GiveUp, Leave
  <1>6. CASE LinkClaim(w)
    BY <1>6 DEF LinkClaim
  <1>7. CASE CompareClaim(w)
    BY <1>7 DEF CompareClaim
  <1>8. CASE StealLock(w)
    BY <1>8 DEF StealLock
  <1>9. CASE ScanTransactions(w)
    BY <1>9 DEF ScanTransactions
  <1>10. CASE SkipCommitted(w)
    BY <1>10 DEF SkipCommitted
  <1>11. CASE RollForward(w)
    BY <1>11 DEF RollForward, Fail
  <1>12. CASE RollHead(w)
    BY <1>12 DEF RollHead
  <1>13. CASE RollCommit(w)
    BY <1>13 DEF RollCommit
  <1>14. CASE EndRecovery(w)
    BY <1>14 DEF EndRecovery
  <1>15. CASE ReadCurrent(w)
    BY <1>15 DEF ReadCurrent, Fail
  <1>16. CASE WriteRecord(w)
    BY <1>16 DEF WriteRecord
  <1>17. CASE WriteTree(w)
    BY <1>17 DEF WriteTree
  <1>18. CASE WriteReceipt(w)
    BY <1>18 DEF WriteReceipt
  <1>19. CASE Prepare(w)
    BY <1>19 DEF Prepare
  <1>20. CASE WriteHead(w)
    BY <1>20 DEF WriteHead
  <1>21. CASE CommitTransaction(w)
    BY <1>21 DEF CommitTransaction
  <1>22. CASE InspectLock(w)
    BY <1>22 DEF InspectLock, Finish, Leave
  <1>23. CASE Unlock(w)
    BY <1>23 DEF Unlock, Finish, Leave
  <1>24. CASE Fault(w)
    <2>1. CASE pc[w] \in Critical /\ Fail(w) /\ UNCHANGED <<request, stale, todo, tx>>
      BY <1>24, <2>1 DEF Fault, Fail, Acquiring, Critical, Releasing, Recovering, Writing
    <2>2. CASE pc[w] \in Acquiring \cup Releasing /\ Leave(w, "idle")
      BY <1>24, <2>2 DEF Fault, Leave, Acquiring, Critical, Releasing, Recovering, Writing
    <2> QED BY <1>24, <2>1, <2>2 DEF Fault
  <1>25. CASE Crash(w)
    BY <1>25 DEF Crash, Leave, CountFault
  <1>26. CASE CommitUnsynced(w)
    BY <1>26 DEF CommitUnsynced, Fail
  <1>27. CASE UnlockUnsynced(w)
    BY <1>27 DEF UnlockUnsynced, Leave
  <1> QED
    BY <1>1, <1>2, <1>3, <1>4, <1>5, <1>6, <1>7, <1>8, <1>9, <1>10, <1>11, <1>12, <1>13,
       <1>14, <1>15, <1>16, <1>17, <1>18, <1>19, <1>20, <1>21, <1>22, <1>23, <1>24, <1>25,
       <1>26, <1>27
    DEF Step

\* The lock of a worker that is under it has no other holder.
LEMMA OneHolder ==
    ASSUME IInv, NEW v \in Worker, NEW w \in Worker, pc[v] \in Holding, pc[w] \in Holding
    PROVE  v = w
  BY DEF IInv, LockInv

\* The lock changes hands only from a dead worker, and from one that releases it.
LEMMA LockEffect ==
    ASSUME IInv, OneTaker, NEW w \in Worker, Step(w), NEW v \in Worker, v # w,
           pc[v] \in Holding \cup {"steal"}
    PROVE  lock' # None /\ lock # None /\ lock'.by = lock.by
  <1>1. lock # None /\ (pc[v] \in Holding => lock.by = v) /\ (pc[v] = "steal" => pc[lock.by] = "dead")
    BY DEF IInv, LockInv
  <1>2. lock \in [by : Worker, signed : BOOLEAN] /\ lock.by \in Worker
    BY <1>1 DEF IInv, TypeInv, TypeOK
  <1>3. ~StealLock(w)
    BY <1>1 DEF StealLock, OneTaker, IInv, LockInv, Holding, Critical, Releasing, Recovering, Writing
  <1>4. ~Unlock(w) /\ ~UnlockUnsynced(w)
    BY <1>1 DEF Unlock, UnlockUnsynced, IInv, LockInv, Holding, Critical, Releasing, Recovering, Writing
  <1>5. CASE lock' = lock
    BY <1>1, <1>5
  <1>6. CASE CreateLock(w)
    BY <1>1, <1>6 DEF CreateLock
  <1>7. CASE SignLock(w)
    BY <1>1, <1>2, <1>7, StoreAssumption DEF SignLock
  <1>8. \/ lock' = lock \/ CreateLock(w) \/ SignLock(w) \/ StealLock(w)
        \/ Unlock(w) \/ UnlockUnsynced(w)
    BY DEF Step, Call, PeekLock, GiveUp, LinkClaim, CompareClaim, ScanTransactions, SkipCommitted,
           RollForward, RollHead, RollCommit, EndRecovery, ReadCurrent, WriteRecord, WriteTree,
           WriteReceipt, Prepare, WriteHead, CommitTransaction, CommitUnsynced, InspectLock, Fault, Crash
  <1> QED BY <1>3, <1>4, <1>5, <1>6, <1>7, <1>8

\* The lock invariant of the workers that do not move.
LEMMA OtherLocks ==
    ASSUME IInv, OneTaker, NEW w \in Worker, Step(w), NEW v \in Worker, v # w
    PROVE  LockInv(v)'
  <1>1. pc'[v] = pc[v] /\ stale'[v] = stale[v]
    BY StepIsLocal DEF IInv, TypeInv, Local
  <1>2. \A u \in Worker : pc[u] = "dead" => pc'[u] = "dead"
    BY StepIsLocal DEF IInv, TypeInv, Local
  <1>3. stale[v] \in Worker \cup {None}
    BY DEF IInv, TypeInv, TypeOK
  <1>4. LockInv(v)
    BY DEF IInv
  <1>5. CASE pc[v] \in Holding \cup {"steal"}
    <2>1. lock' # None /\ lock # None /\ lock'.by = lock.by
      BY <1>5, LockEffect
    <2> QED BY <1>1, <1>2, <1>3, <1>4, <2>1 DEF LockInv
  <1>6. CASE pc[v] \notin Holding \cup {"steal"}
    BY <1>1, <1>2, <1>3, <1>4, <1>6 DEF LockInv
  <1> QED BY <1>5, <1>6

\* The lock invariant of the worker that moves.
LEMMA OwnLock ==
    ASSUME IInv, NEW w \in Worker, Step(w)
    PROVE  LockInv(w)'
  <1> DEFINE Names == {"idle", "dead", "create", "sign", "peek", "link", "compare", "steal",
                       "scan", "examine", "rollHead", "rollCommit", "read", "record", "tree",
                       "receipt", "prepare", "publish", "seal", "inspect", "unlock"}
  <1>a. TypeOK /\ LockInv(w) /\ pc[w] \in Names
    BY Locations DEF IInv, TypeInv, TypeOK
  <1>b. \A l \in Names : l \in Holding <=> l \notin {"idle", "dead", "create", "peek", "link", "compare", "steal"}
    BY DEF Holding, Critical, Releasing, Recovering, Writing
  <1>c. \A u \in Worker : pc[u] = "dead" => pc'[u] = "dead"
    BY StepIsLocal, <1>a DEF Local
  <1>d. stale[w] \in Worker \cup {None} /\ (lock # None => lock \in [by : Worker, signed : BOOLEAN])
    BY <1>a DEF TypeOK
  <1>e. pc'[w] \in Names
    BY KeepsTypes, Locations DEF IInv, TypeInv, TypeOK
  <1> HIDE DEF Names
  <1>1. CASE Call(w)
    BY <1>1, <1>a, <1>b, <1>c, <1>d, <1>e, StoreAssumption
    DEF Call, Goto, LockInv, PidAlive, TypeOK
  <1>2. CASE CreateLock(w)
    <2>1. CASE lock = None
      <3>1. lock' = [by |-> w, signed |-> FALSE] /\ pc'[w] = "sign"
        BY <1>2, <2>1, <1>a DEF CreateLock, Goto, TypeOK
      <3>2. lock' \in [by : Worker, signed : BOOLEAN] /\ lock'.by = w
        BY <3>1
      <3> QED BY <3>1, <3>2, StoreAssumption DEF LockInv
    <2>2. CASE lock # None
      <3>1. pc'[w] = "peek"
        BY <1>2, <2>2, <1>a DEF CreateLock, Goto, TypeOK
      <3> QED BY <3>1, <1>b, <1>e DEF LockInv
    <2> QED BY <2>1, <2>2
  <1>3. CASE SignLock(w)
    <2>1. lock' \in [by : Worker, signed : BOOLEAN] \cup {None}
      BY KeepsTypes DEF IInv, TypeInv, TypeOK
    <2>2. CASE Leave(w, "idle")
      <3>1. pc'[w] = "idle"
        BY <1>a, <2>2 DEF Leave, Goto, TypeOK
      <3> QED BY <1>b, <1>e, <3>1 DEF LockInv
    <2>3. CASE Goto(w, "scan")
      <3>1. pc'[w] = "scan" /\ lock # None /\ lock.by = w
        BY <1>3, <1>a, <1>b, <2>3 DEF SignLock, Goto, TypeOK, LockInv, Holding
      <3>2. lock' # None /\ lock'.by = w
        BY <1>3, <1>d, <2>1, <3>1, StoreAssumption DEF SignLock
      <3> QED BY <3>1, <3>2 DEF LockInv
    <2> QED BY <1>3, <2>2, <2>3 DEF SignLock
  <1>4. CASE PeekLock(w)
    BY <1>4, <1>a, <1>b, <1>c, <1>d, <1>e, StoreAssumption
    DEF PeekLock, Goto, LockInv, PidAlive, TypeOK
  <1>5. CASE GiveUp(w)
    BY <1>5, <1>a, <1>b, <1>c, <1>d, <1>e, StoreAssumption
    DEF GiveUp, Leave, Goto, LockInv, PidAlive, TypeOK
  <1>6. CASE LinkClaim(w)
    BY <1>6, <1>a, <1>b, <1>c, <1>d, <1>e, StoreAssumption
    DEF LinkClaim, Goto, LockInv, PidAlive, TypeOK
  <1>7. CASE CompareClaim(w)
    BY <1>7, <1>a, <1>b, <1>c, <1>d, <1>e, StoreAssumption
    DEF CompareClaim, Goto, LockInv, PidAlive, TypeOK
  <1>8. CASE StealLock(w)
    BY <1>8, <1>a, <1>b, <1>c, <1>d, <1>e, StoreAssumption
    DEF StealLock, Goto, LockInv, PidAlive, TypeOK
  <1>9. CASE ScanTransactions(w)
    BY <1>9, <1>a, <1>b, <1>c, <1>d, <1>e, StoreAssumption
    DEF ScanTransactions, Goto, LockInv, PidAlive, TypeOK
  <1>10. CASE SkipCommitted(w)
    BY <1>10, <1>a, <1>b, <1>c, <1>d, <1>e, StoreAssumption
    DEF SkipCommitted, Goto, LockInv, PidAlive, TypeOK
  <1>11. CASE RollForward(w)
    BY <1>11, <1>a, <1>b, <1>c, <1>d, <1>e, StoreAssumption
    DEF RollForward, Fail, Goto, LockInv, PidAlive, TypeOK
  <1>12. CASE RollHead(w)
    BY <1>12, <1>a, <1>b, <1>c, <1>d, <1>e, StoreAssumption
    DEF RollHead, Goto, LockInv, PidAlive, TypeOK
  <1>13. CASE RollCommit(w)
    BY <1>13, <1>a, <1>b, <1>c, <1>d, <1>e, StoreAssumption
    DEF RollCommit, Goto, LockInv, PidAlive, TypeOK
  <1>14. CASE EndRecovery(w)
    BY <1>14, <1>a, <1>b, <1>c, <1>d, <1>e, StoreAssumption
    DEF EndRecovery, Goto, LockInv, PidAlive, TypeOK
  <1>15. CASE ReadCurrent(w)
    BY <1>15, <1>a, <1>b, <1>c, <1>d, <1>e, StoreAssumption
    DEF ReadCurrent, Fail, Goto, LockInv, PidAlive, TypeOK
  <1>16. CASE WriteRecord(w)
    BY <1>16, <1>a, <1>b, <1>c, <1>d, <1>e, StoreAssumption
    DEF WriteRecord, Goto, LockInv, PidAlive, TypeOK
  <1>17. CASE WriteTree(w)
    BY <1>17, <1>a, <1>b, <1>c, <1>d, <1>e, StoreAssumption
    DEF WriteTree, Goto, LockInv, PidAlive, TypeOK
  <1>18. CASE WriteReceipt(w)
    BY <1>18, <1>a, <1>b, <1>c, <1>d, <1>e, StoreAssumption
    DEF WriteReceipt, Goto, LockInv, PidAlive, TypeOK
  <1>19. CASE Prepare(w)
    BY <1>19, <1>a, <1>b, <1>c, <1>d, <1>e, StoreAssumption
    DEF Prepare, Goto, LockInv, PidAlive, TypeOK
  <1>20. CASE WriteHead(w)
    BY <1>20, <1>a, <1>b, <1>c, <1>d, <1>e, StoreAssumption
    DEF WriteHead, Goto, LockInv, PidAlive, TypeOK
  <1>21. CASE CommitTransaction(w)
    BY <1>21, <1>a, <1>b, <1>c, <1>d, <1>e, StoreAssumption
    DEF CommitTransaction, Goto, LockInv, PidAlive, TypeOK
  <1>22. CASE InspectLock(w)
    BY <1>22, <1>a, <1>b, <1>c, <1>d, <1>e, StoreAssumption
    DEF InspectLock, Finish, Leave, Goto, LockInv, PidAlive, TypeOK
  <1>23. CASE Unlock(w)
    BY <1>23, <1>a, <1>b, <1>c, <1>d, <1>e, StoreAssumption
    DEF Unlock, Finish, Leave, Goto, LockInv, PidAlive, TypeOK
  <1>24. CASE Fault(w)
    <2>1. CASE pc[w] \in Critical /\ Fail(w) /\ UNCHANGED <<request, stale, todo, tx>>
      BY <1>24, <2>1, <1>a, <1>b, <1>c, <1>d, <1>e DEF Fault, Fail, Goto, LockInv, Holding, TypeOK
    <2>2. CASE pc[w] \in Acquiring \cup Releasing /\ Leave(w, "idle")
      BY <1>24, <2>2, <1>a, <1>b, <1>c, <1>d, <1>e DEF Fault, Leave, Goto, LockInv, Holding, TypeOK
    <2> QED BY <1>24, <2>1, <2>2 DEF Fault
  <1>25. CASE Crash(w)
    BY <1>25, <1>a, <1>b, <1>c, <1>d, <1>e, StoreAssumption
    DEF Crash, Leave, CountFault, Goto, LockInv, PidAlive, TypeOK
  <1>26. CASE CommitUnsynced(w)
    BY <1>26, <1>a, <1>b, <1>c, <1>d, <1>e, StoreAssumption
    DEF CommitUnsynced, Fail, Goto, LockInv, PidAlive, TypeOK
  <1>27. CASE UnlockUnsynced(w)
    BY <1>27, <1>a, <1>b, <1>c, <1>d, <1>e, StoreAssumption
    DEF UnlockUnsynced, Leave, Goto, LockInv, PidAlive, TypeOK
  <1> QED
    BY <1>1, <1>2, <1>3, <1>4, <1>5, <1>6, <1>7, <1>8, <1>9, <1>10, <1>11, <1>12, <1>13,
       <1>14, <1>15, <1>16, <1>17, <1>18, <1>19, <1>20, <1>21, <1>22, <1>23, <1>24, <1>25,
       <1>26, <1>27
    DEF Step

------------------------------------------------------------------------------
(* The files *)

\* What the transaction in hand is, at each point where the files change.
LEMMA InHandFacts ==
    ASSUME IInv, NEW w \in Worker
    PROVE  /\ head \in Chain /\ tx[w] \in Transaction /\ tx[w].next \in Chain
           /\ \A t \in prepared : t \in Transaction /\ t.next \in Chain /\ t.next # <<>>
           /\ pc[w] \in {"rollHead", "publish", "rollCommit", "seal"} => tx[w] \in Open /\ tx[w] \in prepared
           /\ pc[w] \in {"rollHead", "publish"} => head = ExpectedHead(tx[w])
           /\ pc[w] \in {"rollCommit", "seal"} => head = tx[w].next
           /\ pc[w] \in Drafting => /\ Open = {} /\ tx[w].next = NextChain(w) /\ tx[w].next # <<>>
                                    /\ ExpectedHead(tx[w]) = head /\ Len(tx[w].next) = Len(head) + 1
  <1>1. head \in Chain /\ tx[w] \in Transaction /\ tx[w].next \in Chain
    BY HandFacts DEF IInv, TypeInv, TypeOK
  <1>2. \A t \in prepared : t \in Transaction /\ t.next \in Chain /\ t.next # <<>>
    BY DEF IInv, TypeInv, TypeOK, Transaction, FilesInv
  <1>3. /\ pc[w] \in {"rollHead", "publish", "rollCommit", "seal"} => tx[w] \in Open /\ tx[w] \in prepared
        /\ pc[w] \in {"rollHead", "publish"} => head = ExpectedHead(tx[w])
        /\ pc[w] \in {"rollCommit", "seal"} => head = tx[w].next
    BY DEF IInv, WorkerInv, Open
  <1>4. ASSUME pc[w] \in Drafting
        PROVE  /\ Open = {} /\ tx[w].next = NextChain(w) /\ tx[w].next # <<>>
               /\ ExpectedHead(tx[w]) = head /\ Len(tx[w].next) = Len(head) + 1
    <2>a. WorkerInv(w)
      BY DEF IInv
    <2>b. Open = {} /\ tx[w] = [by |-> w, next |-> NextChain(w)]
      BY <1>4, <2>a DEF WorkerInv
    <2>1. Open = {} /\ tx[w].next = NextChain(w)
      BY <2>b
    <2>2. request[w].next \in Snapshot /\ {} \in Snapshot
      BY DEF IInv, TypeInv, TypeOK, Request, Snapshot
    <2>3. PICK s \in Snapshot : tx[w].next = Append(head, s)
      BY <2>1, <2>2 DEF NextChain
    <2> QED BY <1>1, <2>1, <2>3, ChainFacts DEF ExpectedHead
  <1> QED BY <1>1, <1>2, <1>3, <1>4

\* The files change under the lock only, and the head only grows.
LEMMA HeadGrows ==
    ASSUME IInv, NEW w \in Worker, Step(w)
    PROVE  /\ head' \in Chain /\ PartOf(head, head')
           /\ pc[w] \notin Critical => UNCHANGED files
  <1>1. head' \in Chain
    BY KeepsTypes DEF IInv, TypeInv, TypeOK
  <1>2. CASE RollHead(w) \/ WriteHead(w)
    <2>1. /\ head' = tx[w].next /\ tx[w].next \in Chain /\ tx[w].next # <<>>
          /\ head = ExpectedHead(tx[w])
      BY <1>2, InHandFacts DEF RollHead, WriteHead
    <2>2. pc[w] \in Critical
      BY <1>2 DEF RollHead, WriteHead, Critical, Recovering, Writing
    <2> QED BY <1>1, <2>1, <2>2, PrefixFacts DEF ExpectedHead
  <1>3. CASE UNCHANGED files
    BY <1>1, <1>3, PartFacts DEF files
  <1>4. CASE \/ RollCommit(w) \/ WriteRecord(w) \/ WriteTree(w) \/ WriteReceipt(w)
             \/ Prepare(w) \/ CommitTransaction(w) \/ CommitUnsynced(w)
    <2>1. pc[w] \in Critical /\ head' = head
      BY <1>4 DEF RollCommit, WriteRecord, WriteTree, WriteReceipt, Prepare, CommitTransaction,
                  CommitUnsynced, Critical, Recovering, Writing
    <2> QED BY <1>1, <2>1, PartFacts
  <1> QED BY <1>2, <1>3, <1>4
          DEF Step, Call, CreateLock, SignLock, PeekLock, GiveUp, LinkClaim, CompareClaim, StealLock,
              ScanTransactions, SkipCommitted, RollForward, EndRecovery, ReadCurrent,
              InspectLock, Unlock, UnlockUnsynced, Fault, Crash

\* The head becomes that of the open transaction.
LEMMA PublishKeepsFiles ==
    ASSUME IInv, NEW w \in Worker, RollHead(w) \/ WriteHead(w)
    PROVE  FilesInv'
  <1>1. /\ head' = tx[w].next /\ tx[w] \in Open /\ tx[w] \in prepared /\ head = ExpectedHead(tx[w])
        /\ head \in Chain /\ tx[w].next \in Chain /\ tx[w].next # <<>>
        /\ UNCHANGED <<records, trees, receipts, prepared, committed>>
    BY InHandFacts DEF RollHead, WriteHead
  <1>2. PartOf(head, head')
    BY <1>1, PrefixFacts DEF ExpectedHead
  <1>3. \A c : HasMaterials(c) => HasMaterials(c)'
    BY <1>1 DEF HasMaterials
  <1>4. \A t \in committed : t.next \in Chain
    BY InHandFacts DEF IInv, TypeInv, TypeOK
  <1>5. \A t \in committed' : PartOf(t.next, head')
    BY <1>1, <1>2, <1>4, PartFacts DEF IInv, FilesInv
  <1>6. Open' = Open
    BY <1>1 DEF Open
  <1>7. \A t \in Open' : head' \in {ExpectedHead(t), t.next}
    BY <1>1, <1>6 DEF IInv, FilesInv
  <1>8. (head # <<>> => HasMaterials(head))'
    BY <1>1, <1>3 DEF IInv, FilesInv
  <1> QED BY <1>1, <1>3, <1>5, <1>6, <1>7, <1>8 DEF IInv, FilesInv

\* The open transaction is marked as committed once the head is its own.
LEMMA SealKeepsFiles ==
    ASSUME IInv, NEW w \in Worker, RollCommit(w) \/ CommitTransaction(w) \/ CommitUnsynced(w)
    PROVE  FilesInv' /\ Open' = {}
  <1>1. /\ committed' = committed \cup {tx[w]} /\ tx[w] \in Open /\ head = tx[w].next
        /\ head \in Chain /\ UNCHANGED <<head, records, trees, receipts, prepared>>
    BY InHandFacts DEF RollCommit, CommitTransaction, CommitUnsynced
  <1>2. Open' = {}
    BY <1>1 DEF Open, IInv, FilesInv
  <1>3. \A c : HasMaterials(c) => HasMaterials(c)'
    BY <1>1 DEF HasMaterials
  <1>4. PartOf(tx[w].next, head)
    BY <1>1, PartFacts
  <1> QED BY <1>1, <1>2, <1>3, <1>4 DEF IInv, FilesInv, PartOf

\* A prepared transaction is new, and its files were written before it.
LEMMA PrepareKeepsFiles ==
    ASSUME IInv, NEW w \in Worker, Prepare(w)
    PROVE  FilesInv' /\ Open' = {tx[w]}
  <1>1. /\ pc[w] = "prepare" /\ prepared' = prepared \cup {tx[w]}
        /\ UNCHANGED <<head, records, trees, receipts, committed>>
    BY DEF Prepare
  <1>2. /\ Open = {} /\ tx[w].next # <<>> /\ ExpectedHead(tx[w]) = head
        /\ Len(tx[w].next) = Len(head) + 1 /\ head \in Chain
    BY <1>1, InHandFacts DEF Drafting
  <1>3. tx[w] \notin committed
    <2>1. Len(head) \in Nat
      BY <1>2, PartFacts
    <2> QED BY <1>2, <2>1 DEF IInv, FilesInv, PartOf
  <1>4. Open' = {tx[w]}
    BY <1>1, <1>2, <1>3 DEF Open
  <1>5. \A c : HasMaterials(c) => HasMaterials(c)'
    BY <1>1 DEF HasMaterials
  <1>6. HasMaterials(tx[w].next)
    BY <1>1 DEF IInv, WorkerInv, HasMaterials
  <1> QED BY <1>1, <1>2, <1>4, <1>5, <1>6 DEF IInv, FilesInv

\* Every step keeps the files recoverable.
LEMMA KeepsFiles ==
    ASSUME IInv, NEW w \in Worker, Step(w)
    PROVE  FilesInv'
  <1>1. CASE UNCHANGED files
    BY <1>1 DEF files, IInv, FilesInv, Open, HasMaterials, PartOf
  <1>2. CASE WriteRecord(w) \/ WriteTree(w) \/ WriteReceipt(w)
    <2>1. /\ records \subseteq records' /\ trees \subseteq trees' /\ receipts \subseteq receipts'
          /\ UNCHANGED <<head, prepared, committed>>
      BY <1>2 DEF WriteRecord, WriteTree, WriteReceipt
    <2>2. \A c : HasMaterials(c) => HasMaterials(c)'
      BY <2>1 DEF HasMaterials
    <2> QED BY <2>1, <2>2 DEF IInv, FilesInv, Open, PartOf
  <1> QED
    BY <1>1, <1>2, PublishKeepsFiles, SealKeepsFiles, PrepareKeepsFiles
    DEF Step, Call, CreateLock, SignLock, PeekLock, GiveUp, LinkClaim, CompareClaim, StealLock,
        ScanTransactions, SkipCommitted, RollForward, EndRecovery, ReadCurrent,
        InspectLock, Unlock, UnlockUnsynced, Fault, Crash

------------------------------------------------------------------------------
(* What the workers know *)

\* The workers that do not move: another one under the lock sees no file change.
LEMMA OtherWorkers ==
    ASSUME IInv, NEW w \in Worker, Step(w), NEW v \in Worker, v # w
    PROVE  WorkerInv(v)'
  <1>1. /\ pc'[v] = pc[v] /\ request'[v] = request[v] /\ todo'[v] = todo[v]
        /\ tx'[v] = tx[v] /\ outcome'[v] = outcome[v] /\ answer'[v] = answer[v]
    BY StepIsLocal DEF IInv, TypeInv, Local
  <1>2. WorkerInv(v)
    BY DEF IInv
  <1>3. CASE pc[w] \notin Critical
    <2>1. UNCHANGED files
      BY <1>3, HeadGrows
    <2>2. /\ Admits(v)' = Admits(v) /\ NextChain(v)' = NextChain(v) /\ Open' = Open
          /\ head' = head /\ records' = records /\ trees' = trees /\ receipts' = receipts
      BY <1>1, <2>1 DEF files, Admits, NextChain, Open
    <2> QED BY <1>1, <1>2, <2>2 DEF WorkerInv, PartOf, ExpectedHead
  <1>4. CASE pc[w] \in Critical
    <2>1. pc[v] \notin Critical \cup Releasing
      BY <1>4, OneHolder DEF Holding
    <2>2. PartOf(answer[v], head')
      <3>1. head \in Chain /\ head' \in Chain /\ PartOf(head, head') /\ answer[v] \in Chain
        BY HeadGrows DEF IInv, TypeInv, TypeOK
      <3> QED BY <1>2, <3>1, PartFacts DEF WorkerInv
    <2>3. pc[v] \notin {"examine", "rollHead", "rollCommit", "publish", "seal", "read"} \cup Drafting
      BY <2>1 DEF Critical, Recovering, Writing, Drafting
    <2> QED BY <1>1, <1>2, <2>1, <2>2, <2>3 DEF WorkerInv, PartOf, Drafting
  <1> QED BY <1>3, <1>4

\* What an operation returns is in the history, and is forgotten by the next call.
LEMMA KeepsAnswer ==
    ASSUME IInv, NEW w \in Worker, Step(w)
    PROVE  /\ PartOf(answer'[w], head')
           /\ pc'[w] \notin {"idle", "dead"} => answer'[w] = <<>>
  <1>1. /\ TypeOK /\ head \in Chain /\ head' \in Chain /\ PartOf(head, head')
        /\ answer[w] \in Chain /\ tx[w].next \in Chain
    BY HeadGrows, HandFacts DEF IInv, TypeInv, TypeOK
  <1>2. /\ PartOf(answer[w], head)
        /\ pc[w] \notin {"idle", "dead"} => answer[w] = <<>>
        /\ pc[w] \in Releasing /\ outcome[w] = "ok" => PartOf(tx[w].next, head)
    BY DEF IInv, WorkerInv
  <1>3. PartOf(answer[w], head') /\ PartOf(<<>>, head')
    BY <1>1, <1>2, PartFacts
  <1>4. CASE Call(w)
    BY <1>1, <1>3, <1>4 DEF Call, TypeOK
  <1>5. CASE Finish(w) /\ pc[w] \in Releasing
    <2>1. pc'[w] = "idle" /\ answer'[w] = IF outcome[w] = "ok" THEN tx[w].next ELSE <<>>
      BY <1>1, <1>5 DEF Finish, Leave, Goto, TypeOK
    <2>2. outcome[w] = "ok" => PartOf(tx[w].next, head')
      BY <1>1, <1>2, <1>5, PartFacts
    <2> QED BY <1>3, <2>1, <2>2
  <1>6. CASE answer'[w] = answer[w] /\ (pc[w] = "idle" => pc'[w] \in {"idle", "dead"})
    BY <1>2, <1>3, <1>6, StepIsLocal, <1>1
  <1>7. InspectLock(w) => (Finish(w) /\ pc[w] \in Releasing) \/ (answer' = answer /\ pc[w] # "idle")
    BY DEF InspectLock, Releasing
  <1>8. Unlock(w) => Finish(w) /\ pc[w] \in Releasing
    BY DEF Unlock, Releasing
  <1>9. Crash(w) => answer' = answer /\ pc'[w] = "dead"
    BY <1>1 DEF Crash, Leave, Goto, TypeOK
  <1>10. Fault(w) => answer' = answer /\ pc[w] # "idle"
    BY DEF Fault, Critical, Recovering, Writing, Acquiring, Releasing
  <1>11. ~(Call(w) \/ InspectLock(w) \/ Unlock(w) \/ Fault(w) \/ Crash(w)) => answer' = answer /\ pc[w] # "idle"
    BY DEF Step, CreateLock, SignLock, PeekLock, GiveUp, LinkClaim, CompareClaim, StealLock,
           ScanTransactions, SkipCommitted, RollForward, RollHead, RollCommit, EndRecovery,
           ReadCurrent, WriteRecord, WriteTree, WriteReceipt, Prepare, WriteHead, CommitTransaction,
           CommitUnsynced, UnlockUnsynced
  <1> QED BY <1>4, <1>5, <1>6, <1>7, <1>8, <1>9, <1>10, <1>11

\* A worker that is not under the lock knows nothing but its answer.
LEMMA Outside ==
    ASSUME IInv, NEW w \in Worker, Step(w),
           pc'[w] \in {"idle", "dead", "scan"} \cup Acquiring
           \/ (pc'[w] \in Releasing /\ outcome'[w] # "ok")
    PROVE  WorkerInv(w)'
  <1>1. pc'[w] \notin Drafting \cup {"examine", "rollHead", "rollCommit", "publish", "seal", "read"}
    BY DEF Acquiring, Releasing, Drafting
  <1>2. ~(pc'[w] \in Releasing /\ outcome'[w] = "ok")
    BY DEF Acquiring, Releasing
  <1> QED BY <1>1, <1>2, KeepsAnswer DEF WorkerInv, Drafting, PartOf

\* The worker that moves.
LEMMA OwnWorker ==
    ASSUME IInv, NEW w \in Worker, Step(w)
    PROVE  WorkerInv(w)'
  <1>a. TypeOK /\ WorkerInv(w) /\ FilesInv
    BY DEF IInv, TypeInv
  <1>b. /\ PartOf(answer[w], head)'
        /\ (pc[w] \notin {"idle", "dead"} => answer[w] = <<>>)'
    BY KeepsAnswer DEF PartOf
  <1> USE DEF Drafting, Releasing
  <1>1. CASE \/ Call(w) \/ CreateLock(w) \/ SignLock(w) \/ PeekLock(w) \/ GiveUp(w)
             \/ LinkClaim(w) \/ CompareClaim(w) \/ StealLock(w)
             \/ Unlock(w) \/ Fault(w) \/ Crash(w) \/ CommitUnsynced(w) \/ UnlockUnsynced(w)
    <2>1. \/ pc'[w] \in {"idle", "dead", "scan"} \cup Acquiring
          \/ (pc'[w] \in Releasing /\ outcome'[w] # "ok")
      BY <1>1, <1>a DEF Call, CreateLock, SignLock, PeekLock, GiveUp, LinkClaim, CompareClaim,
           StealLock, Unlock, Fault, Crash, CommitUnsynced, UnlockUnsynced, Finish, Leave, Fail, Goto,
           TypeOK, Acquiring
    <2> QED BY <2>1, Outside
  <1>2. CASE ScanTransactions(w)
    <2>1. pc'[w] = "examine" /\ todo'[w] = prepared /\ Open' \subseteq prepared
      BY <1>2, <1>a DEF ScanTransactions, Goto, TypeOK, Open, files
    <2> QED BY <2>1, <1>b DEF WorkerInv
  <1>3. CASE SkipCommitted(w)
    <2>1. pc'[w] = "examine" /\ Open' = Open /\ Open \subseteq todo'[w]
      BY <1>3, <1>a DEF SkipCommitted, TypeOK, WorkerInv, Open, files
    <2> QED BY <2>1, <1>b DEF WorkerInv
  <1>4. CASE RollForward(w)
    <2>1. PICK t \in todo[w] \ committed :
              /\ tx' = [tx EXCEPT ![w] = t]
              /\ \/ /\ HasMaterials(t.next) /\ head \in {ExpectedHead(t), t.next}
                    /\ Goto(w, IF head = t.next THEN "rollCommit" ELSE "rollHead")
                    /\ outcome' = outcome
                 \/ Fail(w)
      BY <1>4 DEF RollForward
    <2>2. t \in Open /\ tx'[w] = t
      BY <1>a, <2>1 DEF TypeOK, Open
    <2>3. Open' = Open /\ head' = head /\ todo'[w] = todo[w] /\ Open \subseteq todo[w]
      BY <1>4, <1>a DEF RollForward, files, Open, WorkerInv
    <2>4. CASE Fail(w)
      <3>1. pc'[w] \in Releasing /\ outcome'[w] # "ok"
        BY <1>a, <2>4 DEF Fail, Goto, TypeOK
      <3> QED BY <3>1, Outside
    <2>5. CASE ~Fail(w)
      <3>1. /\ head \in {ExpectedHead(t), t.next}
            /\ pc'[w] = IF head = t.next THEN "rollCommit" ELSE "rollHead"
        BY <1>a, <2>1, <2>5 DEF Goto, TypeOK
      <3>2. ExpectedHead(tx[w])' = ExpectedHead(t)
        BY <2>2 DEF ExpectedHead
      <3> QED BY <1>b, <2>2, <2>3, <3>1, <3>2 DEF WorkerInv
    <2> QED BY <2>4, <2>5
  <1>5. CASE RollHead(w)
    <2>1. /\ pc'[w] = "rollCommit" /\ head' = tx[w].next /\ tx'[w] = tx[w]
          /\ Open' = Open /\ tx[w] \in Open /\ todo'[w] = todo[w] /\ Open \subseteq todo[w]
      BY <1>5, <1>a DEF RollHead, Goto, TypeOK, WorkerInv, Open
    <2> QED BY <2>1, <1>b DEF WorkerInv
  <1>6. CASE RollCommit(w)
    <2>1. pc'[w] = "examine" /\ Open' = {}
      BY <1>6, <1>a, SealKeepsFiles DEF RollCommit, Goto, TypeOK
    <2> QED BY <2>1, <1>b DEF WorkerInv
  <1>7. CASE EndRecovery(w)
    <2>1. pc'[w] = "read" /\ Open' = {}
      BY <1>7, <1>a DEF EndRecovery, Goto, TypeOK, WorkerInv, Open, files
    <2> QED BY <2>1, <1>b DEF WorkerInv
  <1>8. CASE ReadCurrent(w)
    <2>1. Open' = {} /\ head' = head /\ request' = request /\ UNCHANGED <<records, trees, receipts>>
      BY <1>8, <1>a DEF ReadCurrent, files, WorkerInv, Open
    <2>2. CASE /\ Admits(w) /\ tx' = [tx EXCEPT ![w] = [by |-> w, next |-> NextChain(w)]]
               /\ Goto(w, "record")
      <3>1. pc'[w] = "record" /\ tx'[w] = [by |-> w, next |-> NextChain(w)]
        BY <1>a, <2>2 DEF Goto, TypeOK
      <3>2. Admits(w)' /\ NextChain(w)' = NextChain(w)
        BY <2>1, <2>2 DEF Admits, NextChain
      <3> QED BY <1>b, <2>1, <3>1, <3>2 DEF WorkerInv
    <2>3. CASE /\ Readable(w) /\ tx' = [tx EXCEPT ![w] = [by |-> w, next |-> head]]
               /\ Goto(w, "inspect")
      <3>1. pc'[w] = "inspect" /\ tx'[w].next = head /\ head # <<>> /\ head \in Chain
        BY <1>a, <2>3 DEF Goto, TypeOK, Readable
      <3>2. PartOf(tx[w].next, head)'
        BY <2>1, <3>1, PartFacts DEF PartOf
      <3> QED BY <1>b, <3>1, <3>2 DEF WorkerInv
    <2>4. CASE Fail(w)
      <3>1. pc'[w] \in Releasing /\ outcome'[w] # "ok"
        BY <1>a, <2>4 DEF Fail, Goto, TypeOK
      <3> QED BY <3>1, Outside
    <2> QED BY <1>8, <2>2, <2>3, <2>4 DEF ReadCurrent
  <1>9. CASE WriteRecord(w)
    <2>1. /\ pc'[w] = "tree" /\ pc[w] = "record" /\ tx'[w] = tx[w] /\ Open' = Open
          /\ Admits(w)' = Admits(w) /\ NextChain(w)' = NextChain(w)
      BY <1>9, <1>a DEF WriteRecord, Goto, TypeOK, Open, Admits, NextChain
    <2>2. /\ records \subseteq records' /\ trees \subseteq trees' /\ receipts \subseteq receipts'
          /\ <<Len(tx[w].next), Last(tx[w].next)>> \in records'
      BY <1>9 DEF WriteRecord
    <2> QED BY <1>a, <1>b, <2>1, <2>2 DEF WorkerInv
  <1>10. CASE WriteTree(w)
    <2>1. /\ pc'[w] = "receipt" /\ pc[w] = "tree" /\ tx'[w] = tx[w] /\ Open' = Open
          /\ Admits(w)' = Admits(w) /\ NextChain(w)' = NextChain(w)
      BY <1>10, <1>a DEF WriteTree, Goto, TypeOK, Open, Admits, NextChain
    <2>2. /\ records \subseteq records' /\ trees \subseteq trees' /\ receipts \subseteq receipts'
          /\ tx[w].next \in trees'
      BY <1>10 DEF WriteTree
    <2> QED BY <1>a, <1>b, <2>1, <2>2 DEF WorkerInv
  <1>11. CASE WriteReceipt(w)
    <2>1. /\ pc'[w] = "prepare" /\ pc[w] = "receipt" /\ tx'[w] = tx[w] /\ Open' = Open
          /\ Admits(w)' = Admits(w) /\ NextChain(w)' = NextChain(w)
      BY <1>11, <1>a DEF WriteReceipt, Goto, TypeOK, Open, Admits, NextChain
    <2>2. /\ records \subseteq records' /\ trees \subseteq trees' /\ receipts \subseteq receipts'
          /\ tx[w].next \in receipts'
      BY <1>11 DEF WriteReceipt
    <2> QED BY <1>a, <1>b, <2>1, <2>2 DEF WorkerInv
  <1>12. CASE Prepare(w)
    <2>1. /\ pc'[w] = "publish" /\ pc[w] = "prepare" /\ tx'[w] = tx[w] /\ head' = head
      BY <1>12, <1>a DEF Prepare, Goto, TypeOK
    <2>2. Open' = {tx[w]} /\ head = ExpectedHead(tx[w])
      BY <1>12, <2>1, PrepareKeepsFiles, InHandFacts
    <2> QED BY <1>b, <2>1, <2>2 DEF WorkerInv, ExpectedHead
  <1>13. CASE WriteHead(w)
    <2>1. /\ pc'[w] = "seal" /\ head' = tx[w].next /\ tx'[w] = tx[w] /\ Open' = Open /\ tx[w] \in Open
      BY <1>13, <1>a DEF WriteHead, Goto, TypeOK, WorkerInv, Open
    <2> QED BY <2>1, <1>b DEF WorkerInv
  <1>14. CASE CommitTransaction(w)
    <2>1. pc[w] = "seal" /\ pc'[w] = "inspect" /\ tx'[w] = tx[w] /\ head' = head
      BY <1>14, <1>a DEF CommitTransaction, Goto, TypeOK
    <2>2. head = tx[w].next /\ tx[w].next # <<>> /\ head \in Chain
      BY <2>1, InHandFacts
    <2>3. PartOf(tx[w].next, head)'
      BY <2>1, <2>2, PartFacts DEF PartOf
    <2> QED BY <1>b, <2>1, <2>2, <2>3 DEF WorkerInv
  <1>15. CASE InspectLock(w)
    <2>1. CASE pc'[w] = "idle"
      BY <2>1, Outside
    <2>2. CASE pc'[w] # "idle"
      <3>1. /\ pc[w] = "inspect" /\ pc'[w] = "unlock" /\ tx'[w] = tx[w] /\ outcome'[w] = outcome[w]
            /\ head' = head
        BY <1>15, <1>a, <2>2 DEF InspectLock, Finish, Leave, Goto, TypeOK, files
      <3> QED BY <1>a, <1>b, <3>1 DEF WorkerInv, PartOf
    <2> QED BY <2>1, <2>2
  <1> QED
    BY <1>1, <1>2, <1>3, <1>4, <1>5, <1>6, <1>7, <1>8, <1>9, <1>10, <1>11, <1>12, <1>13, <1>14, <1>15
    DEF Step

------------------------------------------------------------------------------
(* The invariants *)

LEMMA InitTypes == Init => TypeInv
  BY NoValues, StoreAssumption
  DEF Init, TypeInv, TypeOK, InHand, Acquiring, Critical, Releasing, Recovering, Writing, Chain

LEMMA InitInv == Init => IInv /\ OneTaker
  <1> SUFFICES ASSUME Init PROVE IInv /\ OneTaker
    OBVIOUS
  <1>1. TypeInv
    BY InitTypes
  <1>2. FilesInv
    BY DEF Init, FilesInv, Open
  <1>3. ASSUME NEW w \in Worker PROVE LockInv(w) /\ WorkerInv(w)
    <2>1. pc[w] = "idle" /\ answer[w] = <<>> /\ head = <<>>
      BY DEF Init
    <2>2. PartOf(answer[w], head)
      BY <2>1 DEF PartOf
    <2> QED BY <2>1, <2>2
            DEF LockInv, WorkerInv, Holding, Critical, Releasing, Recovering, Writing, Drafting
  <1>4. OneTaker
    BY DEF Init, OneTaker
  <1> QED BY <1>1, <1>2, <1>3, <1>4 DEF IInv

LEMMA NextKeeps ==
    ASSUME IInv, OneTaker, Next
    PROVE  IInv'
  <1>1. PICK w \in Worker : Step(w)
    BY DEF Next
  <1>2. ASSUME NEW v \in Worker PROVE LockInv(v)' /\ WorkerInv(v)'
    BY <1>1, OtherLocks, OwnLock, OtherWorkers, OwnWorker
  <1> QED BY <1>1, <1>2, KeepsTypes, KeepsFiles DEF IInv

LEMMA StutterKeeps ==
    ASSUME IInv, UNCHANGED vars
    PROVE  IInv'
  <1>1. UNCHANGED <<lock, pc, request, stale, head, records, trees, receipts, prepared, committed,
                    todo, tx, outcome, answer, faults>>
    BY DEF vars, files
  <1>2. TypeInv'
    BY <1>1 DEF IInv, TypeInv, TypeOK, InHand
  <1>3. FilesInv'
    BY <1>1 DEF IInv, FilesInv, Open, HasMaterials, PartOf
  <1>4. ASSUME NEW w \in Worker PROVE LockInv(w)' /\ WorkerInv(w)'
    <2>1. LockInv(w)'
      BY <1>1 DEF IInv, LockInv
    <2>2. Admits(w)' = Admits(w) /\ NextChain(w)' = NextChain(w) /\ Open' = Open
      BY <1>1 DEF Admits, NextChain, Open
    <2>3. WorkerInv(w) /\ ExpectedHead(tx[w])' = ExpectedHead(tx[w])
      BY <1>1 DEF IInv, ExpectedHead
    <2>4. WorkerInv(w)'
      BY <1>1, <2>2, <2>3 DEF WorkerInv, PartOf
    <2> QED BY <2>1, <2>4
  <1> QED BY <1>2, <1>3, <1>4 DEF IInv

LEMMA Inductive == TakeoverSpec => [](IInv /\ OneTaker)
  <1>1. IInv /\ OneTaker /\ [Next /\ OneTaker']_vars => (IInv /\ OneTaker)'
    <2>1. OneTaker /\ UNCHANGED vars => OneTaker'
      BY DEF OneTaker, vars
    <2> QED BY <2>1, NextKeeps, StutterKeeps
  <1> QED BY <1>1, InitInv, PTL DEF TakeoverSpec

\* Every variable of the store keeps its type, in every behaviour: what is committed, and
\* what a recovery still has to look at, was prepared.
THEOREM TypeCorrect == Spec => []TypeOK
  <1>1. TypeInv /\ [Next]_vars => TypeInv'
    <2>1. TypeInv /\ UNCHANGED vars => TypeInv'
      BY DEF TypeInv, TypeOK, InHand, vars, files
    <2> QED BY <2>1, KeepsTypes DEF Next
  <1>2. TypeInv => TypeOK
    BY DEF TypeInv
  <1> QED BY <1>1, <1>2, InitTypes, PTL DEF Spec

\* While no two workers take over one stale lock at once, at most one worker is between
\* acquireLock and releaseLock, wherever processes die.
THEOREM LockIsExclusive == TakeoverSpec => []LockExclusive
  <1>1. IInv => LockExclusive
    BY OneHolder DEF LockExclusive, Holding
  <1> QED BY <1>1, Inductive, PTL

\* Under the same condition, a recovery succeeds wherever the operation before it stopped:
\* recover never throws TRANSACTION_AMBIGUOUS or TRANSACTION_MATERIAL_INVALID.
THEOREM AlwaysRecoverable == TakeoverSpec => []Recoverable
  <1>1. IInv => Recoverable
    BY DEF IInv, FilesInv, Recoverable, Open
  <1> QED BY <1>1, Inductive, PTL

\* Under the same condition, what open, load and commit returned stays in the history.
THEOREM AnswersAreKept == TakeoverSpec => []AnswersKept
  <1>1. IInv => AnswersKept
    BY DEF IInv, WorkerInv, AnswersKept
  <1> QED BY <1>1, Inductive, PTL

------------------------------------------------------------------------------
(* The refinement *)

\* The phase of an operation, by the place it has reached.
PhaseAt(w) ==
    /\ pc[w] \in Acquiring \cup Recovering \cup {"read"} \cup Drafting => Phase(w) = "called"
    /\ pc[w] \in {"publish", "seal"} => Phase(w) = "taken"
    /\ pc[w] \in Releasing => Phase(w) = IF outcome[w] = "ok" THEN "taken" ELSE "idle"
    /\ pc[w] \in {"idle", "dead"} => Phase(w) = "idle"

LEMMA PhaseFacts ==
    ASSUME NEW w \in Worker
    PROVE  PhaseAt(w) /\ PhaseAt(w)'
  BY DEF PhaseAt, Phase, Acquiring, Recovering, Drafting, Releasing

\* The history with one open transaction, and without.
LEMMA HistoryIs ==
    /\ Open = {} => History = head
    /\ \A t : Open = {t} => History = t.next
  <1>1. ASSUME NEW t, Open = {t} PROVE History = t.next
    <2>1. (CHOOSE u \in Open : TRUE) \in Open
      BY <1>1
    <2> QED BY <1>1, <2>1 DEF History
  <1> QED BY <1>1 DEF History

LEMMA HistoryWillBe ==
    /\ Open' = {} => History' = head'
    /\ \A t : Open' = {t} => History' = t.next
  <1>1. ASSUME NEW t, Open' = {t} PROVE History' = t.next
    <2>1. (CHOOSE u \in Open' : TRUE) \in Open'
      BY <1>1
    <2> QED BY <1>1, <2>1 DEF History
  <1> QED BY <1>1 DEF History

\* The history changes when a transaction is prepared, and by its one revision.
LEMMA HistoryStep ==
    ASSUME IInv, NEW w \in Worker, Step(w)
    PROVE  IF Prepare(w) THEN History = head /\ History' = NextChain(w)
           ELSE History' = History
  <1>1. CASE Prepare(w)
    <2>1. pc[w] = "prepare"
      BY <1>1 DEF Prepare
    <2>2. Open = {} /\ Open' = {tx[w]} /\ tx[w].next = NextChain(w)
      BY <1>1, <2>1, InHandFacts, PrepareKeepsFiles DEF Drafting
    <2> QED BY <1>1, <2>1, <2>2, HistoryIs, HistoryWillBe
  <1>2. CASE RollHead(w) \/ WriteHead(w)
    <2>1. tx[w] \in Open /\ Open' = Open /\ ~Prepare(w)
      BY <1>2, InHandFacts DEF RollHead, WriteHead, Open, Prepare
    <2>2. Open = {tx[w]}
      BY <2>1 DEF IInv, FilesInv
    <2> QED BY <2>1, <2>2, HistoryIs, HistoryWillBe
  <1>3. CASE RollCommit(w) \/ CommitTransaction(w) \/ CommitUnsynced(w)
    <2>1. tx[w] \in Open /\ head = tx[w].next /\ head' = head /\ ~Prepare(w)
      BY <1>3, InHandFacts DEF RollCommit, CommitTransaction, CommitUnsynced, Prepare
    <2>2. Open = {tx[w]} /\ Open' = {}
      BY <1>3, <2>1, SealKeepsFiles DEF IInv, FilesInv
    <2> QED BY <2>1, <2>2, HistoryIs, HistoryWillBe
  <1>4. CASE UNCHANGED <<head, prepared, committed>>
    <2>1. History' = History
      BY <1>4 DEF History, Open
    <2> QED BY <1>1, <2>1
  <1>5. \/ Prepare(w) \/ RollHead(w) \/ WriteHead(w) \/ RollCommit(w) \/ CommitTransaction(w)
        \/ CommitUnsynced(w) \/ UNCHANGED <<head, prepared, committed>>
    BY DEF Step, Call, CreateLock, SignLock, PeekLock, GiveUp, LinkClaim, CompareClaim, StealLock,
        ScanTransactions, SkipCommitted, RollForward, EndRecovery, ReadCurrent,
        WriteRecord, WriteTree, WriteReceipt, InspectLock, Unlock, UnlockUnsynced, Fault, Crash, files
  <1> QED BY <1>1, <1>2, <1>3, <1>4, <1>5

\* The mapped request and effect of a worker.
MappedRequest(w) == IF Phase(w) = "idle" THEN NoRequest ELSE request[w]
MappedEffect(w) == IF Phase(w) = "taken" THEN tx[w].next ELSE <<>>

\* A step of one worker changes the register's variables at that worker only.
LEMMA MappedLocal ==
    ASSUME NEW w \in Worker, Local(w), NEW v \in Worker, v # w
    PROVE  /\ Phase(v)' = Phase(v) /\ MappedRequest(v)' = MappedRequest(v)
           /\ MappedEffect(v)' = MappedEffect(v)
  <1>1. Phase(v)' = Phase(v)
    BY DEF Local, Phase
  <1> QED BY <1>1 DEF Local, MappedRequest, MappedEffect

\* A step that changes nothing of the operation leaves the register alone.
LEMMA Stutters ==
    ASSUME NEW w \in Worker, Local(w), History' = History, answer' = answer,
           Phase(w)' = Phase(w), Phase(w) # "idle" => request'[w] = request[w],
           Phase(w) = "taken" => tx'[w].next = tx[w].next
    PROVE  UNCHANGED Register!vars
  <1>1. \A v \in Worker : /\ Phase(v)' = Phase(v) /\ MappedRequest(v)' = MappedRequest(v)
                          /\ MappedEffect(v)' = MappedEffect(v)
    BY MappedLocal DEF MappedRequest, MappedEffect
  <1>2. [v \in Worker |-> Phase(v)]' = [v \in Worker |-> Phase(v)]
    BY <1>1
  <1>3. /\ [v \in Worker |-> IF Phase(v) = "idle" THEN NoRequest ELSE request[v]]'
             = [v \in Worker |-> IF Phase(v) = "idle" THEN NoRequest ELSE request[v]]
        /\ [v \in Worker |-> IF Phase(v) = "taken" THEN tx[v].next ELSE <<>>]'
             = [v \in Worker |-> IF Phase(v) = "taken" THEN tx[v].next ELSE <<>>]
    BY <1>1 DEF MappedRequest, MappedEffect
  <1> QED BY <1>2, <1>3 DEF Register!vars

\* An operation that ends without an answer is abandoned, or had been.
LEMMA Abandons ==
    ASSUME NEW w \in Worker, Local(w), History' = History, answer' = answer, Phase(w)' = "idle"
    PROVE  Register!Abandon(w) \/ UNCHANGED Register!vars
  <1>1. CASE Phase(w) = "idle"
    BY <1>1, Stutters
  <1>2. CASE Phase(w) # "idle"
    <2>1. MappedRequest(w)' = NoRequest /\ MappedEffect(w)' = <<>>
      BY DEF MappedRequest, MappedEffect
    <2>2. [v \in Worker |-> Phase(v)]' = [[v \in Worker |-> Phase(v)] EXCEPT ![w] = "idle"]
      BY MappedLocal
    <2>3. /\ [v \in Worker |-> IF Phase(v) = "idle" THEN NoRequest ELSE request[v]]'
               = [[v \in Worker |-> IF Phase(v) = "idle" THEN NoRequest ELSE request[v]]
                  EXCEPT ![w] = NoRequest]
          /\ [v \in Worker |-> IF Phase(v) = "taken" THEN tx[v].next ELSE <<>>]'
               = [[v \in Worker |-> IF Phase(v) = "taken" THEN tx[v].next ELSE <<>>]
                  EXCEPT ![w] = <<>>]
      BY <2>1, MappedLocal DEF MappedRequest, MappedEffect
    <2> QED BY <1>2, <2>2, <2>3 DEF Register!Abandon, Register!NoRequest, NoRequest
  <1> QED BY <1>1, <1>2

\* An operation that took effect returns it.
LEMMA Returns ==
    ASSUME NEW w \in Worker, Local(w), History' = History, Phase(w) = "taken", Phase(w)' = "idle",
           answer' = [answer EXCEPT ![w] = tx[w].next]
    PROVE  Register!Return(w)
  <1>1. MappedRequest(w)' = NoRequest /\ MappedEffect(w)' = <<>> /\ MappedEffect(w) = tx[w].next
    BY DEF MappedRequest, MappedEffect
  <1>2. [v \in Worker |-> Phase(v)]' = [[v \in Worker |-> Phase(v)] EXCEPT ![w] = "idle"]
    BY MappedLocal
  <1>3. /\ [v \in Worker |-> IF Phase(v) = "idle" THEN NoRequest ELSE request[v]]'
             = [[v \in Worker |-> IF Phase(v) = "idle" THEN NoRequest ELSE request[v]]
                EXCEPT ![w] = NoRequest]
        /\ [v \in Worker |-> IF Phase(v) = "taken" THEN tx[v].next ELSE <<>>]'
             = [[v \in Worker |-> IF Phase(v) = "taken" THEN tx[v].next ELSE <<>>]
                EXCEPT ![w] = <<>>]
    BY <1>1, MappedLocal DEF MappedRequest, MappedEffect
  <1> QED BY <1>2, <1>3 DEF Register!Return, Register!NoRequest, NoRequest

\* An operation takes effect.
LEMMA Takes ==
    ASSUME NEW w \in Worker, Local(w), Phase(w) = "called", Phase(w)' = "taken",
           request'[w] = request[w], answer' = answer
    PROVE  Register!Take(w, tx'[w].next)
  <1>1. MappedRequest(w)' = MappedRequest(w) /\ MappedEffect(w)' = tx'[w].next
    BY DEF MappedRequest, MappedEffect
  <1>2. [v \in Worker |-> Phase(v)]' = [[v \in Worker |-> Phase(v)] EXCEPT ![w] = "taken"]
    BY MappedLocal
  <1>3. /\ [v \in Worker |-> IF Phase(v) = "idle" THEN NoRequest ELSE request[v]]'
             = [v \in Worker |-> IF Phase(v) = "idle" THEN NoRequest ELSE request[v]]
        /\ [v \in Worker |-> IF Phase(v) = "taken" THEN tx[v].next ELSE <<>>]'
             = [[v \in Worker |-> IF Phase(v) = "taken" THEN tx[v].next ELSE <<>>]
                EXCEPT ![w] = tx'[w].next]
    BY <1>1, MappedLocal DEF MappedRequest, MappedEffect
  <1> QED BY <1>2, <1>3 DEF Register!Take

\* A call is a call of the register.
LEMMA CallImplements ==
    ASSUME IInv, NEW w \in Worker, Call(w)
    PROVE  Register!Call(w)
  <1>1. TypeOK /\ Local(w)
    BY StepIsLocal DEF IInv, TypeInv, Step
  <1>2. pc[w] = "idle" /\ pc'[w] = "create" /\ answer' = [answer EXCEPT ![w] = <<>>] /\ tx' = tx
    BY <1>1 DEF Call, Goto, TypeOK
  <1>3. Phase(w) = "idle" /\ Phase(w)' = "called"
    BY <1>2, PhaseFacts DEF PhaseAt, Acquiring
  <1>4. History' = History
    BY DEF Call, files, History, Open
  <1>5. request'[w] \in Request
    BY KeepsTypes DEF IInv, TypeInv, TypeOK, Step
  <1>6. MappedRequest(w)' = request'[w] /\ MappedEffect(w)' = MappedEffect(w)
    BY <1>3 DEF MappedRequest, MappedEffect
  <1>7. [v \in Worker |-> Phase(v)]' = [[v \in Worker |-> Phase(v)] EXCEPT ![w] = "called"]
    BY <1>1, <1>3, MappedLocal
  <1>8. /\ [v \in Worker |-> IF Phase(v) = "idle" THEN NoRequest ELSE request[v]]'
             = [[v \in Worker |-> IF Phase(v) = "idle" THEN NoRequest ELSE request[v]]
                EXCEPT ![w] = request'[w]]
        /\ [v \in Worker |-> IF Phase(v) = "taken" THEN tx[v].next ELSE <<>>]'
             = [v \in Worker |-> IF Phase(v) = "taken" THEN tx[v].next ELSE <<>>]
    BY <1>1, <1>6, MappedLocal DEF MappedRequest, MappedEffect
  <1>9. [v \in Worker |-> IF Phase(v) = "idle" THEN NoRequest ELSE request[v]]'[w] = request'[w]
    BY <1>3
  <1> QED BY <1>2, <1>3, <1>4, <1>5, <1>7, <1>8, <1>9
          DEF Register!Call, Register!Request, Register!Snapshot, Request, Snapshot

\* The operation takes effect where its transaction is prepared.
LEMMA PrepareImplements ==
    ASSUME IInv, NEW w \in Worker, Prepare(w)
    PROVE  Register!Create(w) \/ Register!Commit(w)
  <1>1. TypeOK /\ Local(w) /\ WorkerInv(w)
    BY StepIsLocal DEF IInv, TypeInv, Step
  <1>2. /\ pc[w] = "prepare" /\ pc'[w] = "publish" /\ tx'[w] = tx[w]
        /\ request' = request /\ answer' = answer
    BY <1>1 DEF Prepare, Goto, TypeOK
  <1>3. Phase(w) = "called" /\ Phase(w)' = "taken"
    BY <1>2, PhaseFacts DEF PhaseAt, Drafting
  <1>4. History = head /\ History' = NextChain(w) /\ tx'[w].next = History' /\ Admits(w)
    BY <1>1, <1>2, HistoryStep, InHandFacts DEF Step, Drafting, WorkerInv
  <1>5. Register!Take(w, History')
    BY <1>1, <1>2, <1>3, <1>4, Takes DEF Register!Take
  <1>6. [v \in Worker |-> IF Phase(v) = "idle" THEN NoRequest ELSE request[v]][w] = request[w]
    BY <1>3
  <1>7. CASE request[w].kind = "open" /\ head = <<>>
    <2>1. History' = Append(head, {})
      BY <1>4, <1>7 DEF NextChain
    <2> QED BY <1>4, <1>5, <1>6, <1>7, <2>1 DEF Register!Create
  <1>8. CASE /\ request[w].kind = "commit" /\ Len(head) = request[w].expected + 1
             /\ request[w].revision = Len(head)
             /\ Last(head) \subseteq request[w].next
    <2>1. History' = Append(head, request[w].next)
      BY <1>4, <1>8 DEF NextChain
    <2> QED BY <1>4, <1>5, <1>6, <1>8, <2>1 DEF Register!Commit, Last
  <1> QED BY <1>4, <1>7, <1>8 DEF Admits

\* The read of the head is where open and load take effect; a refused operation is abandoned.
LEMMA ReadImplements ==
    ASSUME IInv, NEW w \in Worker, ReadCurrent(w)
    PROVE  Register!Read(w) \/ Register!Abandon(w) \/ UNCHANGED Register!vars
  <1>1. TypeOK /\ Local(w) /\ WorkerInv(w) /\ request[w] \in Request
    BY StepIsLocal DEF IInv, TypeInv, Step, TypeOK
  <1>2. pc[w] = "read" /\ request' = request /\ answer' = answer /\ Phase(w) = "called"
    BY PhaseFacts DEF ReadCurrent, PhaseAt
  <1>3. Open = {} /\ History = head /\ History' = History
    <2>1. Open = {}
      BY <1>1, <1>2 DEF WorkerInv
    <2>2. ~Prepare(w) /\ Step(w)
      BY <1>2 DEF Prepare, Step
    <2> QED BY <2>1, <2>2, HistoryIs, HistoryStep
  <1>4. CASE Goto(w, "record")
    <2>1. Phase(w)' = "called"
      BY <1>1, <1>4, PhaseFacts DEF Goto, TypeOK, PhaseAt, Drafting
    <2> QED BY <1>1, <1>2, <1>3, <2>1, Stutters
  <1>5. CASE /\ Readable(w) /\ tx' = [tx EXCEPT ![w] = [by |-> w, next |-> head]]
             /\ Goto(w, "inspect") /\ outcome' = [outcome EXCEPT ![w] = "ok"]
    <2>1. pc'[w] = "inspect" /\ outcome'[w] = "ok" /\ tx'[w].next = head
      BY <1>1, <1>5 DEF Goto, TypeOK
    <2>2. Phase(w)' = "taken"
      BY <2>1, PhaseFacts DEF PhaseAt, Releasing
    <2>3. Register!Take(w, head)
      BY <1>1, <1>2, <2>1, <2>2, Takes DEF Register!Take
    <2>4. [v \in Worker |-> IF Phase(v) = "idle" THEN NoRequest ELSE request[v]][w] = request[w]
      BY <1>2
    <2>5. request[w].kind \in {"open", "load"} /\ head # <<>>
      BY <1>1, <1>5 DEF Readable, Request
    <2> QED BY <1>3, <2>3, <2>4, <2>5 DEF Register!Read, Register!Take
  <1>6. CASE Fail(w)
    <2>1. pc'[w] = "inspect" /\ outcome'[w] = "error"
      BY <1>1, <1>6 DEF Fail, Goto, TypeOK
    <2>2. Phase(w)' = "idle"
      BY <2>1, PhaseFacts DEF PhaseAt, Releasing
    <2> QED BY <1>1, <1>2, <1>3, <2>2, Abandons
  <1> QED BY <1>4, <1>5, <1>6 DEF ReadCurrent

\* The end of a release returns what the operation did; a failed one has nothing to return.
LEMMA FinishImplements ==
    ASSUME IInv, NEW w \in Worker, Local(w), History' = History, pc[w] \in Releasing, Finish(w)
    PROVE  Register!Return(w) \/ UNCHANGED Register!vars
  <1>1. TypeOK /\ WorkerInv(w)
    BY DEF IInv, TypeInv
  <1>2. pc'[w] = "idle" /\ answer' = [answer EXCEPT ![w] = IF outcome[w] = "ok" THEN tx[w].next ELSE <<>>]
    BY <1>1 DEF Finish, Leave, Goto, TypeOK
  <1>3. Phase(w)' = "idle" /\ Phase(w) = IF outcome[w] = "ok" THEN "taken" ELSE "idle"
    BY <1>2, PhaseFacts DEF PhaseAt
  <1>4. CASE outcome[w] = "ok"
    BY <1>2, <1>3, <1>4, Returns
  <1>5. CASE outcome[w] # "ok"
    <2>1. answer[w] = <<>>
      BY <1>1 DEF WorkerInv, Releasing
    <2>2. answer' = answer
      BY <1>1, <1>2, <1>5, <2>1 DEF TypeOK
    <2> QED BY <1>3, <1>5, <2>2, Stutters
  <1> QED BY <1>4, <1>5

\* Every step of the store is a step of the register, or leaves it alone.
LEMMA StepImplements ==
    ASSUME IInv, NEW w \in Worker, Step(w)
    PROVE  Register!Next \/ UNCHANGED Register!vars
  <1>a. TypeOK /\ Local(w) /\ pc[w] # "dead"
    BY StepIsLocal DEF IInv, TypeInv
  <1>b. ~Prepare(w) => History' = History
    BY HistoryStep
  <1> USE DEF Goto
  <1>1. CASE Call(w)
    BY <1>1, CallImplements DEF Register!Next
  <1>2. CASE Prepare(w)
    BY <1>2, PrepareImplements DEF Register!Next
  <1>3. CASE ReadCurrent(w)
    BY <1>3, ReadImplements DEF Register!Next
  \* the operation goes on, and has not taken effect
  <1>4. CASE \/ CreateLock(w) \/ PeekLock(w) \/ LinkClaim(w) \/ CompareClaim(w) \/ StealLock(w)
             \/ ScanTransactions(w) \/ SkipCommitted(w) \/ RollHead(w) \/ RollCommit(w)
             \/ EndRecovery(w) \/ WriteRecord(w) \/ WriteTree(w) \/ WriteReceipt(w)
    <2>1. /\ pc[w] \in Acquiring \cup Recovering \cup {"read"} \cup Drafting
          /\ pc'[w] \in Acquiring \cup Recovering \cup {"read"} \cup Drafting
          /\ request' = request /\ answer' = answer /\ pc[w] # "prepare"
      BY <1>4, <1>a DEF CreateLock, PeekLock, LinkClaim, CompareClaim, StealLock, ScanTransactions,
           SkipCommitted, RollHead, RollCommit, EndRecovery, WriteRecord, WriteTree, WriteReceipt,
           TypeOK, Acquiring, Recovering, Drafting
    <2>2. Phase(w) = "called" /\ Phase(w)' = "called" /\ ~Prepare(w)
      BY <2>1, PhaseFacts DEF PhaseAt, Prepare
    <2> QED BY <1>a, <1>b, <2>1, <2>2, Stutters
  <1>5. CASE RollForward(w)
    <2>1. answer' = answer /\ request' = request /\ pc[w] = "examine" /\ ~Prepare(w)
      BY <1>5 DEF RollForward, Prepare
    <2>2. \/ pc'[w] \in Recovering
          \/ pc'[w] = "inspect" /\ outcome'[w] = "error"
      BY <1>5, <1>a DEF RollForward, Fail, TypeOK, Recovering
    <2>3. Phase(w) = "called" /\ Phase(w)' \in {"called", "idle"}
      BY <2>1, <2>2, PhaseFacts DEF PhaseAt, Recovering, Releasing
    <2> QED BY <1>a, <1>b, <2>1, <2>3, Stutters, Abandons DEF Register!Next
  \* the operation goes on, and has taken effect
  <1>6. CASE WriteHead(w) \/ CommitTransaction(w)
    <2>1. /\ pc[w] \in {"publish", "seal"} /\ tx' = tx /\ request' = request /\ answer' = answer
          /\ pc'[w] = "seal" \/ (pc'[w] = "inspect" /\ outcome'[w] = "ok")
      BY <1>6, <1>a DEF WriteHead, CommitTransaction, TypeOK
    <2>2. Phase(w) = "taken" /\ Phase(w)' = "taken" /\ ~Prepare(w)
      BY <2>1, PhaseFacts DEF PhaseAt, Releasing, Prepare
    <2> QED BY <1>a, <1>b, <2>1, <2>2, Stutters
  <1>7. CASE InspectLock(w)
    <2>1. pc[w] = "inspect" /\ ~Prepare(w)
      BY <1>7 DEF InspectLock, Prepare
    <2>2. CASE Finish(w)
      BY <1>a, <1>b, <2>1, <2>2, FinishImplements DEF Releasing, Register!Next
    <2>3. CASE pc' = [pc EXCEPT ![w] = "unlock"] /\ UNCHANGED <<request, tx, outcome, answer>>
      <3>1. pc'[w] = "unlock" /\ Phase(w)' = Phase(w)
        BY <1>a, <2>1, <2>3, PhaseFacts DEF TypeOK, PhaseAt, Releasing
      <3> QED BY <1>a, <1>b, <2>1, <2>3, <3>1, Stutters
    <2> QED BY <1>7, <2>2, <2>3 DEF InspectLock
  <1>8. CASE Unlock(w)
    <2>1. pc[w] = "unlock" /\ Finish(w) /\ ~Prepare(w)
      BY <1>8 DEF Unlock, Prepare
    <2> QED BY <1>a, <1>b, <2>1, FinishImplements DEF Releasing, Register!Next
  \* the operation goes on to the recovery, or fails
  <1>9. CASE SignLock(w) \/ GiveUp(w) \/ Fault(w) \/ Crash(w) \/ CommitUnsynced(w) \/ UnlockUnsynced(w)
    <2>1. /\ answer' = answer /\ ~Prepare(w)
          /\ \/ pc'[w] \in {"idle", "dead"}
             \/ pc'[w] = "inspect" /\ outcome'[w] = "error"
             \/ pc[w] = "sign" /\ pc'[w] = "scan" /\ request' = request
      BY <1>9, <1>a DEF SignLock, GiveUp, Fault, Crash, CommitUnsynced, UnlockUnsynced, Leave, Fail,
         Prepare, TypeOK
    <2>2. CASE pc[w] = "sign" /\ pc'[w] = "scan" /\ request' = request
      <3>1. Phase(w) = "called" /\ Phase(w)' = "called"
        BY <2>2, PhaseFacts DEF PhaseAt, Acquiring, Recovering
      <3> QED BY <1>a, <1>b, <2>1, <2>2, <3>1, Stutters
    <2>3. CASE pc'[w] \in {"idle", "dead"} \/ (pc'[w] = "inspect" /\ outcome'[w] = "error")
      <3>1. Phase(w)' = "idle"
        BY <2>3, PhaseFacts DEF PhaseAt, Releasing
      <3> QED BY <1>a, <1>b, <2>1, <3>1, Abandons DEF Register!Next
    <2> QED BY <2>1, <2>2, <2>3
  <1> QED BY <1>1, <1>2, <1>3, <1>4, <1>5, <1>6, <1>7, <1>8, <1>9 DEF Step

\* While no two workers take over one stale lock at once, the store is an atomic register
\* of revisions: each operation takes effect once between its call and its return, a failed
\* one once or never, and no revision is lost, repeated or skipped.
THEOREM StoreImplementsRegister == TakeoverSpec => Refinement
  <1>1. Init => Register!Init
    <2> SUFFICES ASSUME Init PROVE Register!Init
      OBVIOUS
    <2>1. Open = {} /\ head = <<>> /\ \A w \in Worker : pc[w] = "idle"
      BY DEF Init, Open
    <2>2. History = <<>> /\ \A w \in Worker : Phase(w) = "idle"
      BY <2>1, HistoryIs, PhaseFacts DEF PhaseAt
    <2> QED BY <2>2 DEF Init, Register!Init, Register!NoRequest, NoRequest
  <1>2. IInv /\ [Next /\ OneTaker']_vars => [Register!Next]_(Register!vars)
    <2>1. ASSUME UNCHANGED vars PROVE UNCHANGED Register!vars
      <3>1. /\ History' = History /\ answer' = answer /\ request' = request /\ tx' = tx
            /\ \A w \in Worker : Phase(w)' = Phase(w)
        BY <2>1 DEF vars, files, History, Open, Phase
      <3> QED BY <3>1 DEF Register!vars
    <2> QED BY <2>1, StepImplements DEF Next
  <1> QED BY <1>1, <1>2, Inductive, PTL DEF TakeoverSpec, Refinement, Register!Spec

------------------------------------------------------------------------------
\* With two workers a stale lock has one taker, so that nothing need be assumed: the
\* condition of TakeoverSpec excludes no behaviour (deployment_race has three workers).
THEOREM TwoWorkersSuffice ==
    ASSUME \A u, v, w \in Worker : u = v \/ v = w \/ u = w
    PROVE  Spec => TakeoverSpec
  <1>1. IInv => OneTaker
    <2> SUFFICES ASSUME IInv, NEW v \in Worker, NEW w \in Worker, pc[v] = "steal", pc[w] = "steal"
                 PROVE  v = w
      BY DEF OneTaker
    <2>1. stale[v] \in Worker /\ pc[stale[v]] = "dead"
      BY DEF IInv, LockInv, TypeInv, TypeOK
    <2> QED BY <2>1
  <1>2. IInv /\ [Next]_vars => IInv'
    BY <1>1, NextKeeps, StutterKeeps
  <1>3. IInv' => OneTaker'
    <2> SUFFICES ASSUME IInv', NEW v \in Worker, NEW w \in Worker, pc'[v] = "steal", pc'[w] = "steal"
                 PROVE  v = w
      BY DEF OneTaker
    <2>1. stale'[v] \in Worker /\ pc'[stale'[v]] = "dead"
      BY DEF IInv, LockInv, TypeInv, TypeOK
    <2> QED BY <2>1
  <1>4. IInv /\ [Next]_vars => [Next /\ OneTaker']_vars
    BY <1>2, <1>3
  <1> QED BY <1>2, <1>4, InitInv, PTL DEF Spec, TakeoverSpec
==============================================================================
