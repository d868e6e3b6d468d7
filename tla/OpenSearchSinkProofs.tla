------------------------ MODULE OpenSearchSinkProofs ------------------------
(***************************************************************************)
(* The sink is an at-least-once consumer of attempts, for any topic and    *)
(* any number of crashes, lost memberships and failing messages; and it    *)
(* indexes a message once more only for a restart, a lost membership or a  *)
(* failure of the request.                                                 *)
(***************************************************************************)
EXTENDS OpenSearchSink, TLAPS, FiniteSetTheorems

(* The last message the loop is done with. *)
DoneUpTo == IF thread.pc = "handle" THEN position - 1 ELSE position

(* What became of a message: handled, or given up by the exception handler. *)
Settled == Handled \cup abandoned

(* The loop leaves nothing behind: what it is done with was settled.       *)
IInv == TypeOK /\ 1..DoneUpTo \subseteq Settled

-----------------------------------------------------------------------------
LEMMA ThreadFacts ==
    ASSUME TypeOK
    PROVE  /\ position \in Nat /\ committed \in Nat /\ committed <= position
           /\ position <= Len(log) /\ Len(log) \in Nat
           /\ thread.pc \in {"poll", "handle", "commit"}
           /\ thread.pc = "poll" => thread = Polling
           /\ thread.pc # "poll" => thread.offset = position /\ committed < position
           /\ thread.pc # "poll" => thread \in [pc : {"handle", "commit"}, offset : Offsets, retries : 0..MaxRetries]
  <1>1. /\ position \in 0..Len(log) /\ committed \in 0..position /\ Len(log) \in Nat
    BY DEF TypeOK
  <1>2. CASE thread = Polling
    BY <1>1, <1>2 DEF Polling
  <1>3. CASE /\ thread \in [pc : {"handle", "commit"}, offset : Offsets, retries : 0..MaxRetries]
             /\ thread.offset = position
             /\ committed < thread.offset
    BY <1>1, <1>3
  <1> QED BY <1>2, <1>3 DEF TypeOK

(* Below the committed offset everything was settled. *)
LEMMA CommittedSettled == IInv => 1..committed \subseteq Settled
  <1>1. SUFFICES ASSUME IInv PROVE 1..committed \subseteq Settled
    OBVIOUS
  <1>2. committed <= DoneUpTo /\ DoneUpTo \in Int /\ committed \in Nat
    BY <1>1, ThreadFacts DEF IInv, DoneUpTo
  <1>3. 1..committed \subseteq 1..DoneUpTo
    BY <1>2
  <1> QED BY <1>1, <1>3 DEF IInv

LEMMA IndexedGrows ==
    ASSUME NEW n \in Offsets, index \in Seq(Offsets), index' = Append(index, n)
    PROVE  Indexed' = Indexed \cup {n}
  <1>1. /\ Len(index') = Len(index) + 1 /\ Len(index) \in Nat
        /\ index'[Len(index) + 1] = n
        /\ \A k \in 1..Len(index) : index'[k] = index[k]
    OBVIOUS
  <1>2. Indexed' = {index'[k] : k \in 1..(Len(index) + 1)}
    BY <1>1 DEF Indexed
  <1>3. 1..(Len(index) + 1) = 1..Len(index) \cup {Len(index) + 1}
    BY <1>1
  <1> QED BY <1>1, <1>2, <1>3 DEF Indexed

-----------------------------------------------------------------------------
(* One lemma per action: the invariant is kept and the step is one of the  *)
(* abstract consumer, or invisible to it.                                  *)

Simulated == [Delivery!Next]_(Delivery!vars)

LEMMA ProduceKeeps ==
    ASSUME IInv, NEW kind \in Kinds, Produce(kind)
    PROVE  IInv' /\ Simulated
  <1>1. /\ log' = Append(log, kind) /\ log \in Seq(Kinds)
        /\ UNCHANGED <<position, committed, member, thread, index, dropped,
                       abandoned, crashes, evictions, failures>>
    BY DEF Produce, IInv, TypeOK
  <1>2. log' \in Seq(Kinds) /\ Len(log') = Len(log) + 1 /\ Len(log) \in Nat
    BY <1>1
  <1>3. Offsets \subseteq Offsets'
    BY <1>2 DEF Offsets
  <1>4. index' \in Seq(Offsets')
    BY <1>1, <1>3 DEF IInv, TypeOK
  <1>5. /\ position' \in 0..Len(log') /\ committed' \in 0..position'
    BY <1>1, <1>2 DEF IInv, TypeOK
  <1>6. \/ thread' = Polling
        \/ /\ thread' \in [pc : {"handle", "commit"}, offset : Offsets', retries : 0..MaxRetries]
           /\ thread'.offset = position'
           /\ committed' < thread'.offset
    BY <1>1, <1>3 DEF IInv, TypeOK
  <1>7. TypeOK'
    BY <1>1, <1>2, <1>3, <1>4, <1>5, <1>6 DEF IInv, TypeOK
  <1>8. Settled' = Settled /\ DoneUpTo' = DoneUpTo
    BY <1>1 DEF Settled, Handled, Indexed, DoneUpTo
  <1>9. Delivery!Produce
    BY <1>1, <1>2, <1>8 DEF Delivery!Produce, Settled
  <1> QED BY <1>7, <1>8, <1>9 DEF IInv, Simulated, Delivery!Next

(* Steps that deliver nothing and acknowledge nothing.                     *)
LEMMA QuietStep ==
    ASSUME UNCHANGED <<log, committed, index, dropped, abandoned>>
    PROVE  Settled' = Settled /\ Offsets' = Offsets /\ Simulated
  <1>1. Settled' = Settled /\ Offsets' = Offsets /\ Len(log') = Len(log)
    BY DEF Settled, Handled, Indexed, Offsets
  <1> QED BY <1>1 DEF Simulated, Delivery!vars, Settled

LEMMA PollKeeps ==
    ASSUME IInv, Poll
    PROVE  IInv' /\ Simulated
  <1>1. /\ thread.pc = "poll" /\ position < Len(log) /\ position' = position + 1
        /\ thread' = [pc |-> "handle", offset |-> position + 1, retries |-> 0]
        /\ UNCHANGED <<log, committed, member, index, dropped, abandoned, crashes, evictions, failures>>
    BY DEF Poll
  <1>2. Settled' = Settled /\ Offsets' = Offsets /\ Simulated
    BY <1>1, QuietStep
  <1>3. /\ position \in Nat /\ Len(log) \in Nat /\ committed \in Nat /\ committed <= position
    BY ThreadFacts DEF IInv
  <1>4. /\ thread' \in [pc : {"handle", "commit"}, offset : Offsets, retries : 0..MaxRetries]
        /\ thread'.offset = position' /\ committed' < thread'.offset
    BY <1>1, <1>3, RetriesAssumption DEF Offsets
  <1>5. TypeOK'
    BY <1>1, <1>2, <1>3, <1>4 DEF IInv, TypeOK
  <1>6. DoneUpTo' = DoneUpTo
    BY <1>1, <1>3 DEF DoneUpTo
  <1> QED BY <1>2, <1>5, <1>6 DEF IInv

(* A consumer that joins again or restarts reads from the committed offset. *)
LEMMA ResumeKeeps ==
    ASSUME IInv, thread' = Polling, position' = committed, member' = TRUE,
           UNCHANGED <<log, committed, index, dropped, abandoned>>,
           crashes' \in Nat, evictions' \in Nat, failures' \in Nat
    PROVE  IInv' /\ Simulated
  <1>1. Settled' = Settled /\ Offsets' = Offsets /\ Simulated
    BY QuietStep
  <1>2. /\ committed \in Nat /\ committed <= Len(log) /\ Len(log) \in Nat
    BY ThreadFacts DEF IInv
  <1>3. TypeOK'
    BY <1>1, <1>2 DEF IInv, TypeOK
  <1>4. DoneUpTo' = committed
    BY DEF DoneUpTo, Polling
  <1> QED BY <1>1, <1>3, <1>4, CommittedSettled DEF IInv

(* The message in hand is settled: it goes on to its commit, or the loop   *)
(* to the next message.                                                    *)
LEMMA SettleKeeps ==
    ASSUME IInv, thread.pc = "handle",
           thread' \in {[thread EXCEPT !.pc = "commit"], Polling},
           Settled' = Settled \cup {thread.offset},
           index' \in Seq(Offsets), dropped' \subseteq Offsets,
           abandoned' \subseteq Offsets, failures' \in Nat,
           UNCHANGED <<log, position, committed, member, crashes, evictions>>
    PROVE  IInv' /\ Simulated
  <1>1. /\ position \in Nat /\ Len(log) \in Nat /\ committed \in Nat /\ committed < position
        /\ position <= Len(log) /\ thread.offset = position
        /\ thread \in [pc : {"handle", "commit"}, offset : Offsets, retries : 0..MaxRetries]
    BY ThreadFacts DEF IInv
  <1>3. TypeOK'
    <2>1. CASE thread' = Polling
      BY <1>1, <2>1 DEF IInv, TypeOK, Offsets
    <2>2. CASE thread' = [thread EXCEPT !.pc = "commit"]
      <3>1. /\ thread' \in [pc : {"handle", "commit"}, offset : Offsets, retries : 0..MaxRetries]
            /\ thread'.offset = position
        BY <1>1, <2>2
      <3> QED BY <1>1, <3>1 DEF IInv, TypeOK, Offsets
    <2> QED BY <2>1, <2>2
  <1>4. DoneUpTo = position - 1
    BY DEF DoneUpTo
  <1>5. thread'.pc # "handle"
    BY <1>1 DEF Polling
  <1>6. DoneUpTo' = position
    BY <1>1, <1>5 DEF DoneUpTo
  <1>7. 1..position \subseteq 1..(position - 1) \cup {position}
    BY <1>1
  <1>8. 1..DoneUpTo' \subseteq Settled'
    BY <1>1, <1>4, <1>6, <1>7 DEF IInv
  <1>9. Delivery!Deliver
    BY <1>1 DEF Delivery!Deliver, Settled
  <1> QED BY <1>3, <1>8, <1>9 DEF IInv, Simulated, Delivery!Next

LEMMA IndexRowKeeps ==
    ASSUME IInv, IndexRow
    PROVE  IInv' /\ Simulated
  <1>1. thread.offset \in Offsets
    BY ThreadFacts DEF IInv, IndexRow
  <1>2. index' \in Seq(Offsets) /\ Indexed' = Indexed \cup {thread.offset}
    BY <1>1, IndexedGrows DEF IInv, TypeOK, IndexRow
  <1>3. Settled' = Settled \cup {thread.offset}
    BY <1>2 DEF Settled, Handled, IndexRow
  <1> QED BY <1>2, <1>3, SettleKeeps DEF IInv, TypeOK, IndexRow

LEMMA DropDeleteKeeps ==
    ASSUME IInv, DropDelete
    PROVE  IInv' /\ Simulated
  <1>1. thread.offset \in Offsets
    BY ThreadFacts DEF IInv, DropDelete
  <1>2. Settled' = Settled \cup {thread.offset}
    BY DEF Settled, Handled, Indexed, DropDelete
  <1>3. index' \in Seq(Offsets) /\ dropped' \subseteq Offsets
    BY <1>1 DEF IInv, TypeOK, DropDelete
  <1> QED BY <1>2, <1>3, SettleKeeps DEF IInv, TypeOK, DropDelete

LEMMA UndecodableKeeps ==
    ASSUME IInv, Undecodable
    PROVE  IInv' /\ Simulated
  <1>1. thread.offset \in Offsets
    BY ThreadFacts DEF IInv, Undecodable
  <1>2. Settled' = Settled \cup {thread.offset}
    BY DEF Settled, Handled, Indexed, Undecodable
  <1> QED BY <1>1, <1>2, SettleKeeps DEF IInv, TypeOK, Undecodable

(* The index may hold the document although its answer was lost.           *)
LEMMA IndexFailsKeeps ==
    ASSUME IInv, IndexFails
    PROVE  IInv' /\ Simulated
  <1>1. thread.offset \in Offsets
    BY ThreadFacts DEF IInv, IndexFails
  <1>2. index' \in Seq(Offsets) /\ Indexed' \in {Indexed, Indexed \cup {thread.offset}}
    <2>1. CASE index' = index
      BY <2>1 DEF Indexed, IInv, TypeOK
    <2>2. CASE index' = Append(index, thread.offset)
      BY <1>1, <2>2, IndexedGrows DEF IInv, TypeOK
    <2> QED BY <2>1, <2>2 DEF IndexFails
  <1>3. Settled' = Settled \cup {thread.offset}
    BY <1>2 DEF Settled, Handled, IndexFails
  <1>4. failures' \in Nat
    BY DEF IInv, TypeOK, IndexFails
  <1> QED BY <1>1, <1>2, <1>3, <1>4, SettleKeeps DEF IInv, TypeOK, IndexFails

(* The request is sent again, while the first may have been executed.      *)
LEMMA SendAgainKeeps ==
    ASSUME IInv, SendAgain
    PROVE  IInv' /\ Simulated
  <1>1. /\ thread.pc = "handle" /\ thread.retries < MaxRetries
        /\ thread' = [thread EXCEPT !.retries = @ + 1]
        /\ index' \in {index, Append(index, thread.offset)}
        /\ UNCHANGED <<log, position, committed, member, dropped, abandoned, crashes, evictions>>
    BY DEF SendAgain
  <1>2. /\ position \in Nat /\ committed \in Nat /\ committed < position
        /\ thread.offset = position /\ thread.offset \in Offsets
        /\ thread \in [pc : {"handle", "commit"}, offset : Offsets, retries : 0..MaxRetries]
    BY <1>1, ThreadFacts DEF IInv
  <1>3. /\ thread' \in [pc : {"handle", "commit"}, offset : Offsets, retries : 0..MaxRetries]
        /\ thread'.offset = position /\ thread'.pc = "handle"
    BY <1>1, <1>2, RetriesAssumption
  <1>4. index' \in Seq(Offsets) /\ Indexed' \in {Indexed, Indexed \cup {thread.offset}}
    <2>1. CASE index' = index
      BY <2>1 DEF Indexed, IInv, TypeOK
    <2>2. CASE index' = Append(index, thread.offset)
      BY <1>2, <2>2, IndexedGrows DEF IInv, TypeOK
    <2> QED BY <1>1, <2>1, <2>2
  <1>5. Settled' \in {Settled, Settled \cup {thread.offset}}
    BY <1>1, <1>4 DEF Settled, Handled
  <1>6. failures' \in Nat /\ Offsets' = Offsets
    BY <1>1 DEF SendAgain, IInv, TypeOK, Offsets
  <1>7. TypeOK'
    BY <1>1, <1>2, <1>3, <1>4, <1>6 DEF IInv, TypeOK
  <1>8. DoneUpTo' = DoneUpTo
    BY <1>1, <1>3 DEF DoneUpTo
  <1>9. CASE Settled' = Settled
    BY <1>1, <1>7, <1>8, <1>9 DEF IInv, Simulated, Delivery!vars, Settled
  <1>10. CASE Settled' = Settled \cup {thread.offset}
    <2>1. Delivery!Deliver
      BY <1>1, <1>2, <1>10, ThreadFacts DEF IInv, Delivery!Deliver, Settled
    <2> QED BY <1>7, <1>8, <1>10, <2>1 DEF IInv, Simulated, Delivery!Next
  <1> QED BY <1>5, <1>9, <1>10

(* A commit acknowledges everything up to the message in hand.             *)
LEMMA CommitKeeps ==
    ASSUME IInv, Commit
    PROVE  IInv' /\ Simulated
  <1>1. /\ thread.pc = "commit" /\ committed' = thread.offset /\ thread' = Polling
        /\ UNCHANGED <<log, position, member, index, dropped, abandoned, crashes, evictions, failures>>
    BY DEF Commit
  <1>2. /\ position \in Nat /\ committed \in Nat /\ committed < position
        /\ thread.offset = position
    BY <1>1, ThreadFacts DEF IInv
  <1>3. Settled' = Settled /\ Offsets' = Offsets
    BY <1>1 DEF Settled, Handled, Indexed, Offsets
  <1>4. TypeOK'
    BY <1>1, <1>2, <1>3 DEF IInv, TypeOK
  <1>5. DoneUpTo' = position /\ DoneUpTo = position
    BY <1>1 DEF DoneUpTo, Polling
  <1>6. Delivery!Acknowledge
    BY <1>1, <1>2, <1>3, <1>5 DEF IInv, Delivery!Acknowledge, Settled
  <1> QED BY <1>3, <1>4, <1>5, <1>6 DEF IInv, Simulated, Delivery!Next

LEMMA CommitRefusedKeeps ==
    ASSUME IInv, CommitRefused
    PROVE  IInv' /\ Simulated
  <1>1. /\ thread.pc = "commit" /\ thread' = Polling
        /\ UNCHANGED <<log, position, committed, member, index, dropped,
                       abandoned, crashes, evictions, failures>>
    BY DEF CommitRefused
  <1>2. Settled' = Settled /\ Offsets' = Offsets /\ Simulated
    BY <1>1, QuietStep
  <1>3. TypeOK'
    BY <1>1, <1>2 DEF IInv, TypeOK
  <1>4. DoneUpTo' = DoneUpTo
    BY <1>1 DEF DoneUpTo, Polling
  <1> QED BY <1>2, <1>3, <1>4 DEF IInv

LEMMA EvictKeeps ==
    ASSUME IInv, Evict
    PROVE  IInv' /\ Simulated
  <1>1. /\ member' = FALSE /\ evictions' \in Nat
        /\ UNCHANGED <<log, position, committed, thread, index, dropped, abandoned, crashes, failures>>
    BY DEF Evict, IInv, TypeOK
  <1>2. Settled' = Settled /\ Offsets' = Offsets /\ Simulated
    BY <1>1, QuietStep
  <1>3. TypeOK'
    BY <1>1, <1>2 DEF IInv, TypeOK
  <1>4. DoneUpTo' = DoneUpTo
    BY <1>1 DEF DoneUpTo
  <1> QED BY <1>2, <1>3, <1>4 DEF IInv

LEMMA RejoinKeeps ==
    ASSUME IInv, Rejoin
    PROVE  IInv' /\ Simulated
  <1>1. thread' = Polling
    BY ThreadFacts DEF IInv, Rejoin
  <1> QED BY <1>1, ResumeKeeps DEF Rejoin, IInv, TypeOK

LEMMA CrashKeeps ==
    ASSUME IInv, Crash
    PROVE  IInv' /\ Simulated
  BY ResumeKeeps DEF Crash, IInv, TypeOK

-----------------------------------------------------------------------------
LEMMA InitSink == Init => IInv /\ Delivery!Init
  <1>1. SUFFICES ASSUME Init PROVE IInv /\ Delivery!Init
    OBVIOUS
  <1>2. /\ log = <<>> /\ index = <<>> /\ dropped = {} /\ abandoned = {} /\ Len(log) = 0 /\ Len(index) = 0
        /\ position = 0 /\ committed = 0 /\ thread = Polling /\ member = TRUE
        /\ crashes = 0 /\ evictions = 0 /\ failures = 0
    BY <1>1 DEF Init
  <1>3. Settled = {} /\ DoneUpTo = 0
    BY <1>2 DEF Settled, Handled, Indexed, DoneUpTo, Polling
  <1>4. TypeOK
    BY <1>2 DEF TypeOK
  <1>5. Delivery!Init
    BY <1>2, <1>3 DEF Delivery!Init, Settled
  <1> QED BY <1>3, <1>4, <1>5 DEF IInv

LEMMA NextSink ==
    ASSUME IInv, [Next]_vars
    PROVE  IInv' /\ Simulated
  <1>1. ASSUME NEW kind \in Kinds, Produce(kind) PROVE IInv' /\ Simulated
    BY <1>1, ProduceKeeps
  <1>2. CASE Poll
    BY <1>2, PollKeeps
  <1>3. CASE Rejoin
    BY <1>3, RejoinKeeps
  <1>4. CASE IndexRow
    BY <1>4, IndexRowKeeps
  <1>5. CASE DropDelete
    BY <1>5, DropDeleteKeeps
  <1>6. CASE Commit
    BY <1>6, CommitKeeps
  <1>7. CASE CommitRefused
    BY <1>7, CommitRefusedKeeps
  <1>8. CASE Evict
    BY <1>8, EvictKeeps
  <1>9. CASE Crash
    BY <1>9, CrashKeeps
  <1>10. CASE UNCHANGED vars
    <2>1. Settled' = Settled /\ Offsets' = Offsets /\ Simulated
      BY <1>10, QuietStep DEF vars
    <2> QED BY <1>10, <2>1 DEF vars, IInv, TypeOK, DoneUpTo
  <1>11. CASE Undecodable
    BY <1>11, UndecodableKeeps
  <1>12. CASE IndexFails
    BY <1>12, IndexFailsKeeps
  <1>13. CASE SendAgain
    BY <1>13, SendAgainKeeps
  <1> QED BY <1>1, <1>2, <1>3, <1>4, <1>5, <1>6, <1>7, <1>8, <1>9, <1>10, <1>11, <1>12, <1>13
          DEF Next, Step

(* consume_topic implements the at-least-once consumer of attempts: an     *)
(* offset is committed only after its message, and everything before it,   *)
(* was handled or given up, whatever crashes, lost memberships and         *)
(* failures fall between.                                                  *)
THEOREM SinkIsAtLeastOnce == Spec => ImplementsAtLeastOnce
  <1>1. Init => IInv /\ Delivery!Init
    BY InitSink
  <1>2. IInv /\ [Next]_vars => IInv' /\ [Delivery!Next]_(Delivery!vars)
    BY NextSink DEF Simulated
  <1> QED BY <1>1, <1>2, PTL DEF Spec, ImplementsAtLeastOnce, Delivery!Spec

-----------------------------------------------------------------------------
(* The copies of a document, and how often its message was read: once in   *)
(* this pass if the loop is done with it, and once in every earlier pass.  *)
(* A new pass starts with a restart or with a rejoin, which an eviction    *)
(* pays for beforehand; a request sent again is paid for by its failure.   *)
Copies(n) == {k \in 1..Len(index) : index[k] = n}

Evicted == IF member THEN 0 ELSE 1

Reads(n) == crashes + (evictions - Evicted) + failures + (IF n <= DoneUpTo THEN 1 ELSE 0)

ReadAgain ==
    /\ Evicted <= evictions
    /\ \A n \in Nat : Cardinality(Copies(n)) <= Reads(n)

DInv == IInv /\ ReadAgain

LEMMA CopiesFinite ==
    ASSUME IInv
    PROVE  \A n : IsFiniteSet(Copies(n)) /\ Cardinality(Copies(n)) \in Nat
  <1> SUFFICES ASSUME NEW n PROVE IsFiniteSet(Copies(n)) /\ Cardinality(Copies(n)) \in Nat
    OBVIOUS
  <1>1. Len(index) \in Nat
    BY DEF IInv, TypeOK
  <1>2. IsFiniteSet(1..Len(index))
    BY <1>1, FS_Interval
  <1>3. Copies(n) \in SUBSET (1..Len(index))
    BY DEF Copies
  <1> QED BY <1>2, <1>3, FS_Subset, FS_CardinalityType

(* A document the index takes is one more copy of its own message.         *)
LEMMA OneMoreCopy ==
    ASSUME IInv, NEW m \in Offsets, index' = Append(index, m), NEW n \in Nat
    PROVE  Cardinality(Copies(n))' = Cardinality(Copies(n)) + (IF n = m THEN 1 ELSE 0)
  <1>1. index \in Seq(Offsets) /\ Len(index) \in Nat
    BY DEF IInv, TypeOK
  <1>2. /\ Len(index') = Len(index) + 1
        /\ index'[Len(index) + 1] = m
        /\ \A k \in 1..Len(index) : index'[k] = index[k]
    BY <1>1
  <1>3. 1..Len(index') = 1..Len(index) \cup {Len(index) + 1}
    BY <1>1, <1>2
  <1>4. IsFiniteSet(Copies(n)) /\ Cardinality(Copies(n)) \in Nat
    BY CopiesFinite
  <1>5. CASE n = m
    <2>1. Copies(n)' = Copies(n) \cup {Len(index) + 1}
      BY <1>2, <1>3, <1>5 DEF Copies
    <2>2. Len(index) + 1 \notin Copies(n)
      BY <1>1 DEF Copies
    <2> QED BY <1>4, <1>5, <2>1, <2>2, FS_AddElement
  <1>6. CASE n # m
    <2>1. Copies(n)' = Copies(n)
      BY <1>1, <1>2, <1>3, <1>6 DEF Copies
    <2> QED BY <1>4, <1>6, <2>1
  <1> QED BY <1>5, <1>6

(* Steps that index nothing and do not move the loop backwards.            *)
LEMMA CopiesUnchanged ==
    ASSUME index' = index
    PROVE  \A n : Cardinality(Copies(n))' = Cardinality(Copies(n))
  BY DEF Copies

LEMMA NoCopyKeeps ==
    ASSUME DInv, IInv', UNCHANGED <<index, crashes, evictions, member>>, failures <= failures',
           DoneUpTo <= DoneUpTo'
    PROVE  ReadAgain'
  <1>1. DoneUpTo \in Int /\ DoneUpTo' \in Int
    BY DEF DInv, IInv, TypeOK, DoneUpTo
  <1>2. /\ crashes \in Nat /\ evictions \in Nat /\ Evicted \in Nat /\ Evicted' = Evicted
        /\ failures \in Nat /\ failures' \in Nat
    BY DEF DInv, IInv, TypeOK, Evicted
  <1>3. ASSUME NEW n \in Nat PROVE (Cardinality(Copies(n)) <= Reads(n))'
    <2>1. Cardinality(Copies(n)) <= Reads(n) /\ Cardinality(Copies(n)) \in Nat
      BY CopiesFinite DEF DInv, ReadAgain
    <2>2. Cardinality(Copies(n))' = Cardinality(Copies(n))
      BY CopiesUnchanged
    <2>3. Reads(n) <= Reads(n)' /\ Reads(n) \in Int /\ Reads(n)' \in Int
      <3>1. PICK i \in {0, 1}, j \in {0, 1} : /\ i = (IF n <= DoneUpTo THEN 1 ELSE 0)
                                             /\ j = (IF n <= DoneUpTo' THEN 1 ELSE 0)
        OBVIOUS
      <3>2. i <= j
        BY <1>1, <3>1
      <3>3. PICK a \in Int : a = crashes + (evictions - Evicted)
        BY <1>2
      <3>4. Reads(n) = a + failures + i /\ Reads(n)' = a + failures' + j
        BY <1>2, <3>1, <3>3 DEF Reads
      <3> PICK f, g, r, q : f = failures /\ g = failures' /\ r = Reads(n) /\ q = Reads(n)'
        OBVIOUS
      <3>5. f \in Nat /\ g \in Nat /\ f <= g /\ r = a + f + i /\ q = a + g + j
        BY <1>2, <3>4
      <3>6. r <= q /\ r \in Int /\ q \in Int
        BY <3>1, <3>2, <3>3, <3>5
      <3> QED BY <3>6
    <2> QED BY <2>1, <2>2, <2>3
  <1> QED BY <1>2, <1>3 DEF ReadAgain, DInv

(* A new pass is paid for by the crash, or by the eviction before it.      *)
LEMMA NewPassKeeps ==
    ASSUME DInv, IInv', index' = index, failures' = failures, DoneUpTo' \in Nat,
           crashes + (evictions - Evicted) < crashes' + (evictions' - Evicted'),
           Evicted' <= evictions'
    PROVE  ReadAgain'
  <1>1. DoneUpTo \in Int
    BY ThreadFacts DEF DInv, IInv, DoneUpTo
  <1>2. /\ crashes \in Nat /\ evictions \in Nat /\ Evicted \in Nat
        /\ crashes' \in Nat /\ evictions' \in Nat /\ Evicted' \in Nat /\ failures \in Nat
    BY DEF DInv, IInv, TypeOK, Evicted
  <1>3. ASSUME NEW n \in Nat PROVE (Cardinality(Copies(n)) <= Reads(n))'
    <2>1. Cardinality(Copies(n)) <= Reads(n) /\ Cardinality(Copies(n)) \in Nat
      BY CopiesFinite DEF DInv, ReadAgain
    <2>2. Cardinality(Copies(n))' = Cardinality(Copies(n))
      BY CopiesUnchanged
    <2>3. Reads(n) <= Reads(n)' /\ Reads(n) \in Int /\ Reads(n)' \in Int
      <3>1. /\ Reads(n) = crashes + (evictions - Evicted) + failures + (IF n <= DoneUpTo THEN 1 ELSE 0)
            /\ Reads(n)' = crashes' + (evictions' - Evicted') + failures + (IF n <= DoneUpTo' THEN 1 ELSE 0)
        BY DEF Reads
      <3>2. PICK a \in Int, b \in Int : a = crashes + (evictions - Evicted) /\ b = crashes' + (evictions' - Evicted')
        <4>1. crashes + (evictions - Evicted) \in Int
          BY <1>2
        <4>2. crashes' + (evictions' - Evicted') \in Int
          BY <1>2
        <4> QED BY <4>1, <4>2
      <3>3. PICK i \in {0, 1}, j \in {0, 1} : /\ i = (IF n <= DoneUpTo THEN 1 ELSE 0)
                                             /\ j = (IF n <= DoneUpTo' THEN 1 ELSE 0)
        OBVIOUS
      <3>4. Reads(n) = a + failures + i /\ Reads(n)' = b + failures + j /\ a < b
        BY <3>1, <3>2, <3>3
      <3> QED BY <1>2, <3>4
    <2> QED BY <2>1, <2>2, <2>3
  <1> QED BY <1>3 DEF ReadAgain

(* The document may have gone into the index: its message was read.        *)
LEMMA CopyKeeps ==
    ASSUME DInv, IInv', thread.pc = "handle", thread'.pc # "handle",
           index' \in {index, Append(index, thread.offset)},
           UNCHANGED <<position, member, crashes, evictions>>, failures <= failures'
    PROVE  ReadAgain'
  <1>1. /\ position \in Nat /\ thread.offset = position /\ thread.offset \in Offsets
        /\ DoneUpTo = position - 1 /\ DoneUpTo' = position
    BY ThreadFacts DEF DInv, IInv, DoneUpTo
  <1>2. CASE index' = index
    BY <1>1, <1>2, NoCopyKeeps
  <1>3. CASE index' = Append(index, thread.offset)
    <2>1. /\ crashes \in Nat /\ evictions \in Nat /\ Evicted \in Nat /\ Evicted' = Evicted
          /\ failures \in Nat /\ failures' \in Nat
      BY DEF DInv, IInv, TypeOK, Evicted
    <2>2. ASSUME NEW n \in Nat PROVE (Cardinality(Copies(n)) <= Reads(n))'
      <3>1. Cardinality(Copies(n)) <= Reads(n) /\ Cardinality(Copies(n)) \in Nat
        BY CopiesFinite DEF DInv, ReadAgain
      <3>2. Cardinality(Copies(n))' = Cardinality(Copies(n)) + (IF n = position THEN 1 ELSE 0)
        BY <1>1, <1>3, OneMoreCopy DEF DInv
      <3>3. /\ Reads(n)' >= Reads(n) + (IF n = position THEN 1 ELSE 0)
            /\ Reads(n) \in Int /\ Reads(n)' \in Int
        <4>1. PICK i \in {0, 1}, j \in {0, 1} :
                /\ i = (IF n <= position - 1 THEN 1 ELSE 0)
                /\ j = (IF n <= position THEN 1 ELSE 0)
          OBVIOUS
        <4>2. j = i + (IF n = position THEN 1 ELSE 0)
          BY <1>1, <4>1
        <4>3. PICK a \in Int : a = crashes + (evictions - Evicted)
          BY <2>1
        <4>4. Reads(n) = a + failures + i /\ Reads(n)' = a + failures' + j
          BY <1>1, <2>1, <4>1, <4>3 DEF Reads
        <4> PICK f, g, r, q : f = failures /\ g = failures' /\ r = Reads(n) /\ q = Reads(n)'
          OBVIOUS
        <4>5. f \in Nat /\ g \in Nat /\ f <= g /\ r = a + f + i /\ q = a + g + j
          BY <2>1, <4>4
        <4> PICK d : d = IF n = position THEN 1 ELSE 0
          OBVIOUS
        <4>6. q >= r + d /\ r \in Int /\ q \in Int
          BY SMTT(30), <4>1, <4>2, <4>3, <4>5
        <4> QED BY <4>6
      <3> QED BY <3>1, <3>2, <3>3
    <2> QED BY <2>1, <2>2 DEF ReadAgain, DInv
  <1> QED BY <1>2, <1>3

(* A request that is sent again is paid for by the failure of the first.   *)
LEMMA SendAgainCounted ==
    ASSUME DInv, SendAgain
    PROVE  ReadAgain'
  <1>1. /\ thread.offset \in Offsets /\ thread.pc = "handle" /\ thread'.pc = "handle"
        /\ index' \in {index, Append(index, thread.offset)} /\ failures' = failures + 1
        /\ UNCHANGED <<position, member, crashes, evictions>>
    BY ThreadFacts DEF DInv, IInv, SendAgain
  <1>2. /\ crashes \in Nat /\ evictions \in Nat /\ Evicted \in Nat /\ Evicted' = Evicted
        /\ failures \in Nat /\ DoneUpTo' = DoneUpTo
    BY <1>1 DEF DInv, IInv, TypeOK, Evicted, DoneUpTo
  <1>3. ASSUME NEW n \in Nat PROVE (Cardinality(Copies(n)) <= Reads(n))'
    <2>1. Cardinality(Copies(n)) <= Reads(n) /\ Cardinality(Copies(n)) \in Nat
      BY CopiesFinite DEF DInv, ReadAgain
    <2>2. Reads(n)' = Reads(n) + 1 /\ Reads(n) \in Int
      BY <1>1, <1>2 DEF Reads
    <2>3. \/ Cardinality(Copies(n))' = Cardinality(Copies(n))
          \/ Cardinality(Copies(n))' = Cardinality(Copies(n)) + 1
      <3>1. CASE index' = index
        BY <3>1, CopiesUnchanged
      <3>2. CASE index' = Append(index, thread.offset)
        BY <1>1, <2>1, <3>2, OneMoreCopy DEF DInv
      <3> QED BY <1>1, <3>1, <3>2
    <2> QED BY <2>1, <2>2, <2>3
  <1> QED BY <1>1, <1>2, <1>3 DEF ReadAgain, DInv

LEMMA NextReadAgain ==
    ASSUME DInv, [Next]_vars
    PROVE  DInv'
  <1>1. IInv' /\ IInv
    BY NextSink DEF DInv
  <1> SUFFICES ReadAgain'
    BY <1>1 DEF DInv
  <1>2. /\ position \in Nat /\ committed \in Nat /\ committed <= position
        /\ thread.pc \in {"poll", "handle", "commit"}
        /\ thread.pc # "poll" => thread.offset = position
    BY <1>1, ThreadFacts DEF IInv
  <1>3. crashes \in Nat /\ evictions \in Nat /\ failures \in Nat /\ DoneUpTo \in Int
    BY <1>1, <1>2 DEF IInv, TypeOK, DoneUpTo
  <1>4. ASSUME NEW kind \in Kinds, Produce(kind) PROVE ReadAgain'
    BY <1>1, <1>3, <1>4, NoCopyKeeps DEF Produce, DoneUpTo
  <1>5. CASE Poll
    BY <1>1, <1>2, <1>3, <1>5, NoCopyKeeps DEF Poll, DoneUpTo
  <1>6. CASE Rejoin
    BY <1>1, <1>2, <1>3, <1>6, NewPassKeeps DEF Rejoin, DoneUpTo, Evicted
  <1>7. CASE IndexRow
    BY <1>1, <1>2, <1>3, <1>7, CopyKeeps, ThreadFacts DEF IndexRow, IInv
  <1>8. CASE DropDelete
    BY <1>1, <1>2, <1>3, <1>8, CopyKeeps, ThreadFacts DEF DropDelete, IInv
  <1>9. CASE Undecodable
    BY <1>1, <1>2, <1>3, <1>9, CopyKeeps DEF Undecodable, Polling
  <1>10. CASE IndexFails
    BY <1>1, <1>2, <1>3, <1>10, CopyKeeps DEF IndexFails, Polling
  <1>11. CASE Commit
    BY <1>1, <1>2, <1>3, <1>11, NoCopyKeeps DEF Commit, DoneUpTo, Polling
  <1>12. CASE CommitRefused
    BY <1>1, <1>2, <1>3, <1>12, NoCopyKeeps DEF CommitRefused, DoneUpTo, Polling
  <1>13. CASE Evict
    <2>1. /\ UNCHANGED <<index, crashes, failures, position, thread>>
          /\ evictions' = evictions + 1
          /\ Evicted = 0 /\ Evicted' = 1 /\ DoneUpTo' = DoneUpTo
      BY <1>13 DEF Evict, DoneUpTo, Evicted
    <2>2. \A n \in Nat : Reads(n)' = Reads(n)
      BY <1>3, <2>1 DEF Reads
    <2> QED BY <1>3, <2>1, <2>2, CopiesUnchanged DEF DInv, ReadAgain
  <1>14. CASE Crash
    <2>1. /\ index' = index /\ crashes' = crashes + 1 /\ evictions' = evictions
          /\ failures' = failures /\ Evicted' = 0 /\ DoneUpTo' \in Nat
      BY <1>2, <1>14 DEF Crash, Evicted, DoneUpTo, Polling
    <2>2. Evicted \in {0, 1}
      BY DEF Evicted
    <2> QED BY <1>1, <1>3, <2>1, <2>2, NewPassKeeps
  <1>15. CASE UNCHANGED vars
    BY <1>1, <1>3, <1>15, NoCopyKeeps DEF vars, DoneUpTo
  <1>16. CASE SendAgain
    BY <1>16, SendAgainCounted
  <1> QED BY <1>1, <1>4, <1>5, <1>6, <1>7, <1>8, <1>9, <1>10, <1>11, <1>12, <1>13, <1>14, <1>15,
             <1>16 DEF Next, Step, DInv

LEMMA InitReadAgain == Init => DInv
  <1> SUFFICES ASSUME Init PROVE DInv
    OBVIOUS
  <1>1. IInv /\ crashes = 0 /\ evictions = 0 /\ failures = 0 /\ member = TRUE /\ index = <<>> /\ Len(index) = 0
    BY InitSink DEF Init
  <1>2. \A n : Copies(n) = {}
    BY <1>1 DEF Copies
  <1>3. \A n : Cardinality(Copies(n)) = 0
    BY <1>2, FS_EmptySet
  <1> QED BY <1>1, <1>3 DEF DInv, ReadAgain, Reads, Evicted

(* The duplicates of at-least-once delivery: a document is in the index at *)
(* most once more than the restarts and lost memberships of its consumer   *)
(* and the failed requests, which the client may send again.               *)
THEOREM DuplicatesCounted == Spec => []DuplicatesBounded
  <1>1. DInv => DuplicatesBounded
    <2> SUFFICES ASSUME DInv, NEW n \in Offsets
                 PROVE  Cardinality({k \in 1..Len(index) : index[k] = n}) <= 1 + crashes + evictions + failures
      BY DEF DuplicatesBounded
    <2>1. n \in Nat
      BY DEF Offsets
    <2>2. Cardinality(Copies(n)) <= Reads(n) /\ Cardinality(Copies(n)) \in Nat
      BY <2>1, CopiesFinite DEF DInv, ReadAgain
    <2>3. /\ Reads(n) <= 1 + crashes + evictions + failures /\ Reads(n) \in Int
          /\ crashes \in Nat /\ evictions \in Nat /\ failures \in Nat
      BY DEF Reads, Evicted, DInv, IInv, TypeOK
    <2>4. Cardinality({k \in 1..Len(index) : index[k] = n}) <= Reads(n)
      BY <2>2 DEF Copies
    <2>5. Cardinality({k \in 1..Len(index) : index[k] = n}) \in Nat
      BY <2>2 DEF Copies
    <2> QED BY <2>3, <2>4, <2>5
  <1> QED BY <1>1, InitReadAgain, NextReadAgain, PTL DEF Spec
=============================================================================
