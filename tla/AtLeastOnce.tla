---------------------------- MODULE AtLeastOnce ----------------------------
(***************************************************************************)
(* What the compute queue promises whoever submits a job and polls it:     *)
(* entries are read first in, first out; one that was read stays pending,  *)
(* and may come into any number of hands, until somebody who has it in     *)
(* hand acknowledges it, which nobody does before its job has a verdict;   *)
(* only the trim of the oldest entries takes one away unread.  Keys,       *)
(* claims, idle times, delivery counts and the steps of a solve are those  *)
(* of JobQueue, which implements this specification.                       *)
(***************************************************************************)
EXTENDS Integers

CONSTANTS Job, Worker

VARIABLES
    place,          \* of each job's entry: "out", "queued", "pending", "gone"
    turn,           \* its place in the order of arrival
    cut,            \* the entries trimmed
    open,           \* the jobs whose submission is not over
    hands,          \* the entries each worker has in hand
    called,         \* the jobs somebody asked to cancel
    buried,         \* the dead-lettered jobs
    verdict         \* of each job: "none" before and after its life, "running" in it

abstractVars == <<place, turn, cut, open, hands, called, buried, verdict>>

Init ==
    /\ place = [j \in Job |-> "out"] /\ turn = [j \in Job |-> 0]
    /\ open = Job /\ hands = [w \in Worker |-> {}]
    /\ cut = {} /\ called = {} /\ buried = {}
    /\ verdict = [j \in Job |-> "none"]

In(where) == {j \in Job : place[j] = where}
Queued == In("queued")
Entries == Job \ In("out")

Move(S, where) == [j \in Job |-> IF j \in S THEN where ELSE place[j]]

-----------------------------------------------------------------------------
(* A submission.  It says "running" or answers before there is an entry;   *)
(* afterwards it can only fail the job, and it ends at any time.           *)

Answer(j, v) ==
    /\ j \in open /\ open' \in {open, open \ {j}}
    /\ v \in IF place[j] = "out" THEN {"running", "done", "failed"} ELSE {"failed"}
    /\ verdict' = [verdict EXCEPT ![j] = v]
    /\ UNCHANGED <<place, turn, cut, hands, called, buried>>

Withdraw(j) ==
    /\ j \in open /\ open' = open \ {j}
    /\ UNCHANGED <<place, turn, cut, hands, called, buried, verdict>>

\* The entry goes to the tail; the trim, if any, takes the oldest.
Put(j) ==
    /\ j \in open /\ open' \in {open, open \ {j}}
    /\ place[j] = "out"
    /\ turn' \in [Job -> Nat] /\ \A i \in Job \ {j} : turn'[i] = turn[i]
    /\ \A i \in Entries : turn[i] < turn'[j]
    /\ cut \subseteq cut' /\ cut' \subseteq Entries
    /\ \A i \in cut' \ cut, k \in Entries : turn[k] <= turn[i] => k \in cut'
    /\ place' = [Move(Queued \intersect cut', "gone") EXCEPT ![j] = "queued"]
    /\ UNCHANGED <<hands, called, buried, verdict>>

-----------------------------------------------------------------------------
(* Delivery.                                                               *)

Take(w, j) ==
    /\ hands[w] = {} /\ hands' = [hands EXCEPT ![w] = {j}]
    /\ j \in Queued /\ \A i \in Queued : turn[j] <= turn[i]
    /\ place' = Move({j}, "pending")
    /\ UNCHANGED <<turn, cut, open, called, buried, verdict>>

\* Again, whoever has them; those trimmed are dropped instead.
Retake(w) ==
    /\ hands[w] = {}
    /\ \E S \in SUBSET (In("pending") \ cut) : hands' = [hands EXCEPT ![w] = S]
    /\ \E lost \in SUBSET (In("pending") \intersect cut) : place' = Move(lost, "gone")
    /\ UNCHANGED <<turn, cut, open, called, buried, verdict>>

Drop(j) ==
    /\ place[j] = "pending" /\ j \in cut
    /\ place' = Move({j}, "gone")
    /\ UNCHANGED <<turn, cut, open, hands, called, buried, verdict>>

LetGo(w) ==
    /\ \E S \in SUBSET hands[w] : hands' = [hands EXCEPT ![w] = S]
    /\ UNCHANGED <<place, turn, cut, open, called, buried, verdict>>

-----------------------------------------------------------------------------
(* The end of a job.                                                       *)

Call(j) ==
    /\ verdict[j] # "none" /\ called' = called \union {j}
    /\ UNCHANGED <<place, turn, cut, open, hands, buried, verdict>>

\* A worker that has the entry in hand decides, and keeps it or fails.
Decide(w, j, v) ==
    /\ j \in hands[w] /\ hands' \in {hands, [hands EXCEPT ![w] = {}]}
    /\ v \in {"done", "failed"} \/ (v = "cancelled" /\ j \in called)
    /\ verdict' = [verdict EXCEPT ![j] = v]
    /\ UNCHANGED <<place, turn, cut, open, called, buried>>

Bury(w, j) ==
    /\ j \in hands[w] /\ buried' = buried \union {j}
    /\ UNCHANGED <<place, turn, cut, open, hands, called, verdict>>

\* Acknowledged: it is pending no more, whoever else has it in hand.
Done(w, j) ==
    /\ j \in hands[w] /\ hands' = [hands EXCEPT ![w] = @ \ {j}]
    /\ verdict[j] = "running" => j \in buried \union cut
    /\ place[j] \in {"pending", "gone"}
    /\ place' = Move({j}, "gone")
    /\ UNCHANGED <<turn, cut, open, called, buried, verdict>>

\* What is kept of a job expires, though not while its submission may still
\* answer; a verdict, once its entry is nobody's business any more.
Expire(j) ==
    /\ j \notin open /\ verdict[j] # "none"
    /\ verdict[j] # "running" =>
          place[j] \in {"out", "gone"} /\ \A w \in Worker : j \notin hands[w]
    /\ verdict' = [verdict EXCEPT ![j] = "none"]
    /\ UNCHANGED <<place, turn, cut, open, hands, called, buried>>

-----------------------------------------------------------------------------
Next ==
    \/ \E j \in Job : \/ \E v \in {"running", "done", "failed"} : Answer(j, v)
                      \/ Withdraw(j) \/ Put(j) \/ Drop(j) \/ Call(j) \/ Expire(j)
    \/ \E w \in Worker :
          \/ Retake(w) \/ LetGo(w)
          \/ \E j \in Job :
                \/ Take(w, j) \/ Bury(w, j) \/ Done(w, j)
                \/ \E v \in {"done", "failed", "cancelled"} : Decide(w, j, v)

Spec == Init /\ [][Next]_abstractVars
=============================================================================
