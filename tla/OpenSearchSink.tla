--------------------------- MODULE OpenSearchSink ---------------------------
(***************************************************************************)
(* consume_topic of the OpenSearch sink: one thread with its own consumer  *)
(* reads one topic, indexes every message into OpenSearch and commits its  *)
(* offset by hand.  The threads of the other topics share nothing with it  *)
(* but the consumer group, so the module models one of them; offsets count *)
(* from 1.                                                                 *)
(***************************************************************************)
EXTENDS Integers, Sequences, FiniteSets

CONSTANTS Kinds,          \* the kinds of message the topic may carry
          MaxRetries,     \* max_retries of the OpenSearch client
          MaxMessages, MaxCrashes, MaxEvictions, MaxFailures   \* bounds

VARIABLES log,        \* the topic: the kind of every message
          position,   \* the consumer's position
          committed,  \* the group's committed offset
          member,     \* is the consumer still a member of its group?
          thread,     \* the message in process
          index,      \* documents in the index, by the offset they came from
          dropped,    \* deletes: handled with nothing to index
          abandoned,  \* messages whose processing raised, and was given up
          crashes, evictions, failures   \* counters of the bounds

vars == <<log, position, committed, member, thread, index, dropped, abandoned,
          crashes, evictions, failures>>

(* "row" is indexed, "delete" is a CDC delete, "poison" cannot be          *)
(* deserialized.                                                           *)
ASSUME KindsAssumption == Kinds \subseteq {"row", "delete", "poison"}
ASSUME RetriesAssumption == MaxRetries \in Nat
ASSUME BoundsAssumption ==
    MaxMessages \in Nat /\ MaxCrashes \in Nat /\ MaxEvictions \in Nat /\ MaxFailures \in Nat

Polling == [pc |-> "poll", offset |-> 0, retries |-> 0]

Init ==
    /\ log = <<>> /\ position = 0 /\ committed = 0
    /\ member = TRUE
    /\ thread = Polling
    /\ index = <<>> /\ dropped = {} /\ abandoned = {}
    /\ crashes = 0 /\ evictions = 0 /\ failures = 0

Produce(kind) ==
    /\ Len(log) < MaxMessages
    /\ log' = Append(log, kind)
    /\ UNCHANGED <<position, committed, member, thread, index, dropped,
                   abandoned, crashes, evictions, failures>>

-----------------------------------------------------------------------------
(* Mutant: the consumer commits the offset as it reads the message. *)
PollCommitting ==
    /\ thread.pc = "poll"
    /\ member
    /\ position < Len(log)
    /\ position' = position + 1
    /\ committed' = position + 1
    /\ thread' = [pc |-> "handle", offset |-> position + 1, retries |-> 0]
    /\ UNCHANGED <<log, member, index, dropped, abandoned,
                   crashes, evictions, failures>>

Poll ==
    /\ thread.pc = "poll"
    /\ member
    /\ position < Len(log)
    /\ position' = position + 1
    /\ thread' = [pc |-> "handle", offset |-> position + 1, retries |-> 0]
    /\ UNCHANGED <<log, committed, member, index, dropped, abandoned,
                   crashes, evictions, failures>>

(* The poll of a consumer that has lost its membership joins again and     *)
(* resumes at the committed offset.                                        *)
Rejoin ==
    /\ thread.pc = "poll"
    /\ ~member
    /\ member' = TRUE
    /\ position' = committed
    /\ UNCHANGED <<log, committed, thread, index, dropped, abandoned,
                   crashes, evictions, failures>>

IndexRow ==
    /\ thread.pc = "handle"
    /\ log[thread.offset] = "row"
    /\ index' = Append(index, thread.offset)
    /\ thread' = [thread EXCEPT !.pc = "commit"]
    /\ UNCHANGED <<log, position, committed, member, dropped, abandoned,
                   crashes, evictions, failures>>

DropDelete ==
    /\ thread.pc = "handle"
    /\ log[thread.offset] = "delete"
    /\ dropped' = dropped \cup {thread.offset}
    /\ thread' = [thread EXCEPT !.pc = "commit"]
    /\ UNCHANGED <<log, position, committed, member, index, abandoned,
                   crashes, evictions, failures>>

(* The exception handler: no commit, and on to the next message. *)
Undecodable ==
    /\ thread.pc = "handle"
    /\ log[thread.offset] = "poison"
    /\ thread' = Polling
    /\ abandoned' = abandoned \cup {thread.offset}
    /\ UNCHANGED <<log, position, committed, member, index, dropped,
                   crashes, evictions, failures>>

(* OpenSearch cannot be reached, answers 502 to 504, or breaks off while   *)
(* the answer is on its way: the client sends the request again by itself, *)
(* and with no id in it nothing tells the two apart.                       *)
SendAgain ==
    /\ thread.pc = "handle"
    /\ log[thread.offset] = "row"
    /\ thread.retries < MaxRetries
    /\ failures < MaxFailures
    /\ failures' = failures + 1
    /\ index' \in {index, Append(index, thread.offset)}
    /\ thread' = [thread EXCEPT !.retries = @ + 1]
    /\ UNCHANGED <<log, position, committed, member, dropped, abandoned,
                   crashes, evictions>>

(* index() raises: the document is refused, the answer times out, or the   *)
(* last retry has failed too.                                              *)
IndexFails ==
    /\ thread.pc = "handle"
    /\ log[thread.offset] = "row"
    /\ failures < MaxFailures
    /\ failures' = failures + 1
    /\ index' \in {index, Append(index, thread.offset)}
    /\ thread' = Polling
    /\ abandoned' = abandoned \cup {thread.offset}
    /\ UNCHANGED <<log, position, committed, member, dropped,
                   crashes, evictions>>

Commit ==
    /\ thread.pc = "commit"
    /\ member
    /\ committed' = thread.offset
    /\ thread' = Polling
    /\ UNCHANGED <<log, position, member, index, dropped, abandoned,
                   crashes, evictions, failures>>

(* Mutant: the message whose commit was refused is handled again at once. *)
CommitRefusedAgain ==
    /\ thread.pc = "commit"
    /\ ~member
    /\ thread' = [thread EXCEPT !.pc = "handle"]
    /\ UNCHANGED <<log, position, committed, member, index, dropped, abandoned,
                   crashes, evictions, failures>>

(* The coordinator refuses the commit of a consumer it has evicted. *)
CommitRefused ==
    /\ thread.pc = "commit"
    /\ ~member
    /\ thread' = Polling
    /\ UNCHANGED <<log, position, committed, member, index, dropped, abandoned,
                   crashes, evictions, failures>>

(* Slow processing: the session times out while a message is handled. *)
Evict ==
    /\ thread.pc # "poll"
    /\ member
    /\ evictions < MaxEvictions
    /\ evictions' = evictions + 1
    /\ member' = FALSE
    /\ UNCHANGED <<log, position, committed, thread, index, dropped, abandoned,
                   crashes, failures>>

(* Mutant: the restarted consumer starts at the end of the topic. *)
CrashToLatest ==
    /\ crashes < MaxCrashes
    /\ crashes' = crashes + 1
    /\ thread' = Polling
    /\ member' = TRUE
    /\ position' = Len(log)
    /\ UNCHANGED <<log, committed, index, dropped, abandoned,
                   evictions, failures>>

(* The process dies and is restarted. *)
Crash ==
    /\ crashes < MaxCrashes
    /\ crashes' = crashes + 1
    /\ thread' = Polling
    /\ member' = TRUE
    /\ position' = committed
    /\ UNCHANGED <<log, committed, index, dropped, abandoned,
                   evictions, failures>>

Step == \/ Poll \/ Rejoin \/ IndexRow \/ DropDelete \/ Undecodable
        \/ Commit \/ CommitRefused

Next == \/ \E kind \in Kinds : Produce(kind)
        \/ Step \/ SendAgain \/ IndexFails \/ Evict \/ Crash

Spec == Init /\ [][Next]_vars

(* The consumer loop never stops polling, handling and committing. *)
FairSpec == Spec /\ WF_vars(Step)

-----------------------------------------------------------------------------
Offsets == 1..Len(log)
Indexed == {index[k] : k \in 1..Len(index)}
Handled == Indexed \cup dropped

(* The consumer's position, the message in hand and the committed offset   *)
(* lie within the topic and in this order.                                 *)
TypeOK ==
    /\ log \in Seq(Kinds)
    /\ position \in 0..Len(log)
    /\ committed \in 0..position
    /\ member \in BOOLEAN
    /\ \/ thread = Polling
       \/ /\ thread \in [pc : {"handle", "commit"}, offset : Offsets, retries : 0..MaxRetries]
          /\ thread.offset = position
          /\ committed < thread.offset
    /\ index \in Seq(Offsets)
    /\ dropped \subseteq Offsets /\ abandoned \subseteq Offsets
    /\ crashes \in Nat /\ evictions \in Nat /\ failures \in Nat

(* A document is indexed again only when its message was read again, which *)
(* takes a restart or a lost membership, or when the client sent it again, *)
(* which takes a failure: the loop itself tries nothing twice.             *)
DuplicatesBounded ==
    \A n \in Offsets :
        Cardinality({k \in 1..Len(index) : index[k] = n}) <= 1 + crashes + evictions + failures

(* The sink is an at-least-once consumer of attempts: whatever crashes and *)
(* evictions fall between indexing and committing, no offset is committed  *)
(* before its message, and every message before it, was handled or given   *)
(* up by the exception handler.                                            *)
Delivery == INSTANCE AtLeastOnce WITH produced <- Len(log), acked <- committed,
                                      delivered <- Handled \cup abandoned
ImplementsAtLeastOnce == Delivery!Spec

(* The loop reaches every message of the topic in the end, poisoned ones   *)
(* and those behind them included.                                         *)
EverythingAttempted ==
    \A n \in 1..MaxMessages : Len(log) >= n ~> n \in Handled \cup abandoned
=============================================================================
