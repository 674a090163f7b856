---------------------------- MODULE ExpectedAcks ----------------------------
(***************************************************************************)
(* The admin's expectedAcksList (admin/expected_acks.go): the acks it waits *)
(* for, the acks that came before anybody waited for them, the goroutine    *)
(* waitForAcks that matches the two, and one goroutine per pending ack that *)
(* waits for the match or for its timer.                                    *)
(*                                                                          *)
(* Calls of addPending are numbered: entry n is the n-th call.  The list    *)
(* keeps the order of the calls, so its first match is the lowest number.   *)
(* Equal preemptive acks cannot be told apart: the slice is a count.        *)
(***************************************************************************)
EXTENDS Naturals, FiniteSets

CONSTANTS Ack,          \* the acks: an ack id together with its acker
          NoAck,        \* none of them
          MaxEntries,   \* bound on calls of addPending
          MaxPosts      \* bound on the acks of each kind posted by clients

ASSUME AckAssumption == NoAck \notin Ack

ASSUME BoundsAssumption ==
    /\ MaxEntries \in Nat
    /\ MaxPosts \in Nat

Entry == 1..MaxEntries

VARIABLES added,           \* how often addPending has been called
          ackOf,           \* the ack entry n expects
          pendingAcks,     \* entries on the list
          preemptiveAcks,  \* how many acks of each kind came too early
          posted,          \* acks a handler is trying to send to chNewAckReceived
          posts,           \* how many acks of each kind have been posted
          waiter,          \* the goroutine of each entry
          loop,            \* where waitForAcks is
          received,        \* the ack waitForAcks has received
          matched          \* the entry it is handing over to

acksVars == <<added, ackOf, pendingAcks, preemptiveAcks, posted, posts, waiter, loop,
              received, matched>>

Matching(a) == {n \in pendingAcks : ackOf[n] = a}
Oldest(S) == CHOOSE n \in S : \A m \in S : n <= m

AcksInit == /\ added = 0
            /\ ackOf \in [Entry -> Ack]
            /\ pendingAcks = {}
            /\ preemptiveAcks = [a \in Ack |-> 0]
            /\ posted = [a \in Ack |-> 0]
            /\ posts = [a \in Ack |-> 0]
            /\ waiter = [n \in Entry |-> "none"]
            /\ loop = "receiving"
            /\ received = NoAck
            /\ matched = 0

\* waitForAcks holds the mutex exactly while it hands a match over.
MutexFree == loop # "handing"

\* Mutant: the preemptive acks are not looked at.
addPendingOnly(n) ==
    /\ MutexFree
    /\ n = added + 1
    /\ added' = n
    /\ pendingAcks' = pendingAcks \cup {n}
    /\ waiter' = [waiter EXCEPT ![n] = "selecting"]
    /\ UNCHANGED <<ackOf, preemptiveAcks, posted, posts, loop, received, matched>>

\* Mutant: no goroutine is started for the new entry.
addPendingNoWaiter(n) ==
    /\ MutexFree
    /\ n = added + 1
    /\ added' = n
    /\ pendingAcks' = pendingAcks \cup {n}
    /\ UNCHANGED <<ackOf, preemptiveAcks, posted, posts, waiter, loop, received, matched>>

\* addPending.  An ack that is already there is used up; the goroutine that is
\* then started sends on a channel nobody receives from, and onAck is not called.
addPending(n) ==
    /\ MutexFree
    /\ n = added + 1
    /\ added' = n
    /\ IF preemptiveAcks[ackOf[n]] > 0
       THEN /\ preemptiveAcks' = [preemptiveAcks EXCEPT ![ackOf[n]] = @ - 1]
            /\ waiter' = [waiter EXCEPT ![n] = "sending"]
            /\ UNCHANGED pendingAcks
       ELSE /\ pendingAcks' = pendingAcks \cup {n}
            /\ waiter' = [waiter EXCEPT ![n] = "selecting"]
            /\ UNCHANGED preemptiveAcks
    /\ UNCHANGED <<ackOf, posted, posts, loop, received, matched>>

\* A client's ack reaches its handler, which sends it to chNewAckReceived.
Post(a) ==
    /\ posts[a] < MaxPosts
    /\ posts' = [posts EXCEPT ![a] = @ + 1]
    /\ posted' = [posted EXCEPT ![a] = @ + 1]
    /\ UNCHANGED <<added, ackOf, pendingAcks, preemptiveAcks, waiter, loop, received, matched>>

\* waitForAcks receives an ack; the channel is unbuffered and any of the blocked
\* handlers may be the one it receives from.
Receive(a) ==
    /\ loop = "receiving"
    /\ posted[a] > 0
    /\ posted' = [posted EXCEPT ![a] = @ - 1]
    /\ loop' = "locking"
    /\ received' = a
    /\ UNCHANGED <<added, ackOf, pendingAcks, preemptiveAcks, posts, waiter, matched>>

\* Mutant: the matched entry stays on the list.
MatchKeepsPending ==
    /\ loop = "locking"
    /\ Matching(received) # {}
    /\ matched' = Oldest(Matching(received))
    /\ received' = NoAck
    /\ loop' = "handing"
    /\ UNCHANGED <<added, ackOf, pendingAcks, preemptiveAcks, posted, posts, waiter>>

\* It locks the list, takes the first match off it ...
Match ==
    /\ loop = "locking"
    /\ Matching(received) # {}
    /\ matched' = Oldest(Matching(received))
    /\ received' = NoAck
    /\ pendingAcks' = pendingAcks \ {matched'}
    /\ loop' = "handing"
    /\ UNCHANGED <<added, ackOf, preemptiveAcks, posted, posts, waiter>>

\* Mutant: the ack is dropped when nobody waits for it.
DropAck ==
    /\ loop = "locking"
    /\ Matching(received) = {}
    /\ loop' = "receiving"
    /\ received' = NoAck
    /\ UNCHANGED <<added, ackOf, pendingAcks, preemptiveAcks, posted, posts, waiter, matched>>

\* ... or, if there is none, keeps the ack as a preemptive one and unlocks.
KeepPreemptive ==
    /\ loop = "locking"
    /\ Matching(received) = {}
    /\ preemptiveAcks' = [preemptiveAcks EXCEPT ![received] = @ + 1]
    /\ loop' = "receiving"
    /\ received' = NoAck
    /\ UNCHANGED <<added, ackOf, pendingAcks, posted, posts, waiter, matched>>

\* Mutant: the ack counts even after the timer has fired.
HandOverAnyway ==
    /\ loop = "handing"
    /\ waiter' = [waiter EXCEPT ![matched] = "acked"]
    /\ loop' = "receiving"
    /\ matched' = 0
    /\ UNCHANGED <<added, ackOf, pendingAcks, preemptiveAcks, posted, posts, received>>

\* The waiting goroutine receives from ackReceivedChan and calls onAck; only then
\* does waitForAcks unlock the list.
HandOver ==
    /\ loop = "handing"
    /\ waiter[matched] = "selecting"
    /\ waiter' = [waiter EXCEPT ![matched] = "acked"]
    /\ loop' = "receiving"
    /\ matched' = 0
    /\ UNCHANGED <<added, ackOf, pendingAcks, preemptiveAcks, posted, posts, received>>

\* The timer wins the select: onTimeout is called, the entry stays on the list.
Timeout(n) ==
    /\ waiter[n] = "selecting"
    /\ waiter' = [waiter EXCEPT ![n] = "timedout"]
    /\ UNCHANGED <<added, ackOf, pendingAcks, preemptiveAcks, posted, posts, loop, received, matched>>

WaitForAcks == (\E a \in Ack : Receive(a)) \/ Match \/ KeepPreemptive \/ HandOver

AcksNext == \/ \E n \in Entry : addPending(n)
            \/ \E a \in Ack : Post(a)
            \/ WaitForAcks
            \/ \E n \in Entry : Timeout(n)

AcksSpec == AcksInit /\ [][AcksNext]_acksVars

\* The Go scheduler runs waitForAcks whenever it can take a step.
FairAcksSpec == AcksSpec /\ WF_acksVars(WaitForAcks)

-----------------------------------------------------------------------------

Waiter == {"none", "sending", "selecting", "acked", "timedout"}

AcksTypeOK ==
    /\ added \in 0..MaxEntries
    /\ ackOf \in [Entry -> Ack]
    /\ pendingAcks \in SUBSET (1..added)
    /\ preemptiveAcks \in [Ack -> Nat]
    /\ posted \in [Ack -> Nat]
    /\ posts \in [Ack -> Nat]
    /\ waiter \in [Entry -> Waiter]
    /\ loop \in {"receiving", "locking", "handing"}
    /\ received \in IF loop = "locking" THEN Ack ELSE {NoAck}
    /\ matched \in IF loop = "handing" THEN 1..added ELSE {0}

\* The two lists never hold the two halves of a match: an ack that is expected is
\* not kept as preemptive at the same time, however calls of addPending and
\* incoming acks interleave.  (handleSetReady takes an empty pendingAcks to mean
\* that every expected ack has come.)
NoMissedMatch == \A a \in Ack : preemptiveAcks[a] = 0 \/ Matching(a) = {}

\* A goroutine waits exactly for the entries on the list, or for the one that
\* waitForAcks is handing over: an entry is never acked twice and never loses its
\* goroutine except to its timer.
EveryEntryHasWaiter ==
    \A n \in Entry :
        /\ waiter[n] = "selecting" => n \in pendingAcks \/ n = matched
        /\ n \in pendingAcks \/ n = matched => waiter[n] \in {"selecting", "timedout"}
        /\ ~(n \in pendingAcks /\ n = matched)

\* The acks of one kind, wherever they are.
UsedFor(a) == {n \in Entry : /\ ackOf[n] = a
                             /\ waiter[n] \in {"acked", "sending"} \/ n = matched}
Count(a) == posted[a] + preemptiveAcks[a] + Cardinality(UsedFor(a))
            + (IF received = a THEN 1 ELSE 0)

\* Every ack a client posted is accounted for exactly once: waiting to be
\* received, in the hands of waitForAcks, kept for later, or used for one entry that
\* expects that very ack.
AcksAccounted == \A a \in Ack : Count(a) = posts[a]

\* The goroutine of an entry calls onAck or onTimeout, never both.
WaiterIsFinal ==
    [][\A n \in Entry : waiter[n] \in {"acked", "timedout"} =>
           waiter'[n] = waiter[n]]_acksVars

-----------------------------------------------------------------------------

\* "Find and remove from this ack from the expectingAcks list": as long as no timer
\* fires, an ack that reaches its handler is looked up in the list, however many
\* came before it.  (The ack of an entry that has timed out blocks waitForAcks.)
AckIsLookedUpInTime ==
    \A a \in Ack : posted[a] > 0 ~>
        posted[a] = 0 \/ \E n \in Entry : waiter[n] = "timedout"

=============================================================================
