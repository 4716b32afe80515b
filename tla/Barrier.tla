------------------------------ MODULE Barrier ------------------------------
(***************************************************************************)
(* std::barrier (libcxx/include/barrier, libcxx/src/barrier.cpp): a tree   *)
(* of tickets.  An arrival looks for a free ticket of round 0, starting at *)
(* a node that the hash of its thread names; of two that meet in a ticket  *)
(* the second goes on to the next round, and the one that is left over in  *)
(* the last round completes the phase.  A compare-exchange is one action.  *)
(*                                                                         *)
(* Every participant makes share[t] arrivals in each phase: arrive(n), or  *)
(* arrive_and_drop and arrive(n - 1).  Waiting for the phase to change is  *)
(* the subject of AtomicWait; here it is a guard.                          *)
(***************************************************************************)
EXTENDS Integers, FiniteSets

CONSTANTS Thread,
          Share,      \* Share[t]: the arrivals that t makes in the first phase
          Expected,   \* their sum, the argument of the constructor
          Phases      \* numbers that __barrier_phase_t has (256 in the code), even

VARIABLES expected, adjustment, phase,
          tickets,    \* tickets[node, round]: the phase each ticket has reached
          pc,         \* pc[t]
          loc,        \* loc[t]: locals of t's arrive
          share

vars == <<expected, adjustment, phase, tickets, pc, loc, share>>

HalfOf(n) == (n + 1) \div 2
Ticket == (0 .. HalfOf(Expected) - 1) \X (0 .. Expected)
NoLocals == [old |-> 0, left |-> 0, round |-> 0, node |-> 0, current |-> 0]

Init == /\ expected = Expected /\ adjustment = 0 /\ phase = 0
        /\ tickets = [k \in Ticket |-> 0]
        /\ pc = [t \in Thread |-> "idle"]
        /\ loc = [t \in Thread |-> NoLocals]
        /\ share = Share

HalfStep(t) == (loc[t].old + 1) % Phases
FullStep(t) == (loc[t].old + 2) % Phases

-----------------------------------------------------------------------------
\* __arrive starts at any node, with all arrivals of the phase expected.
StartsAt(n) == 0 .. HalfOf(n) - 1
Arrival(old, left, n) == [old |-> old, left |-> left, round |-> 0, node |-> n, current |-> expected]

Arrive(t, drop) ==
    /\ pc[t] = "idle" /\ share[t] > 0
    /\ adjustment' = IF drop THEN adjustment - 1 ELSE adjustment
    /\ share' = IF drop THEN [share EXCEPT ![t] = @ - 1] ELSE share
    /\ pc' = [pc EXCEPT ![t] = "scan"]
    /\ \E n \in StartsAt(expected) :
          loc' = [loc EXCEPT ![t] = Arrival(phase, share[t], n)]
    /\ UNCHANGED <<expected, phase, tickets>>

\* __arrive returned false: the next of the arrivals, or arrive returns.
ArriveReturns(t) ==
    IF loc[t].left > 1
    THEN \E n \in StartsAt(expected) :
            /\ loc' = [loc EXCEPT ![t] = Arrival(loc[t].old, loc[t].left - 1, n)]
            /\ pc' = [pc EXCEPT ![t] = "scan"]
    ELSE /\ loc' = [loc EXCEPT ![t] = [NoLocals EXCEPT !.old = loc[t].old]]
         /\ pc' = [pc EXCEPT ![t] = IF share[t] = 0 THEN "gone" ELSE "arrived"]

\* The ticket that t looks at, after the wrap round.
Node(t) == IF loc[t].node = HalfOf(loc[t].current) THEN 0 ELSE loc[t].node
Seen(t) == tickets[<<Node(t), loc[t].round>>]

\* The last ticket of a round has one taker if the number of arrivals is odd.
NeverOneInOne(t) == FALSE
OneInOne(t) == Node(t) = HalfOf(loc[t].current) - 1 /\ loc[t].current % 2 = 1

Take(t, p) == tickets' = [tickets EXCEPT ![<<Node(t), loc[t].round>>] = p]
NextRound(t) ==
    /\ loc' = [loc EXCEPT ![t] = [old |-> loc[t].old, left |-> loc[t].left, round |-> loc[t].round + 1,
                                  node |-> Node(t) \div 2, current |-> HalfOf(loc[t].current)]]
    /\ pc' = [pc EXCEPT ![t] = "scan"]
NextNode(t) == /\ loc' = [loc EXCEPT ![t].node = Node(t) + 1]
               /\ pc' = [pc EXCEPT ![t] = "scan"]

Scanning(t) == pc[t] = "scan" /\ loc[t].current > 1

TakeAlone(t) ==
    /\ Scanning(t) /\ OneInOne(t)
    /\ IF Seen(t) = loc[t].old THEN Take(t, FullStep(t)) /\ NextRound(t)
                               ELSE NextNode(t) /\ UNCHANGED tickets
    /\ UNCHANGED <<expected, adjustment, phase, share>>

TakeFirst(t) ==
    /\ Scanning(t) /\ ~OneInOne(t) /\ Seen(t) = loc[t].old
    /\ Take(t, HalfStep(t)) /\ ArriveReturns(t)
    /\ UNCHANGED <<expected, adjustment, phase, share>>

TakenBefore(t) ==
    /\ Scanning(t) /\ ~OneInOne(t) /\ Seen(t) # loc[t].old
    /\ IF Seen(t) = HalfStep(t) THEN pc' = [pc EXCEPT ![t] = "second"] /\ UNCHANGED loc
                                ELSE NextNode(t)
    /\ UNCHANGED <<expected, adjustment, phase, tickets, share>>

\* The second compare-exchange: somebody else may have come second meanwhile.
SwapsToFullAlways(t) == TRUE
SwapsToFull(t) == Seen(t) = HalfStep(t)

TakeSecond(t) ==
    /\ pc[t] = "second"
    /\ IF SwapsToFull(t) THEN Take(t, FullStep(t)) /\ NextRound(t)
                         ELSE NextNode(t) /\ UNCHANGED tickets
    /\ UNCHANGED <<expected, adjustment, phase, share>>

-----------------------------------------------------------------------------
\* The last one: completion, adjustment of the count, and the new phase.
LastOneLeft(t) == pc[t] = "scan" /\ loc[t].current <= 1

Complete(t) ==
    /\ LastOneLeft(t)
    /\ expected' = expected + adjustment
    /\ adjustment' = 0
    /\ phase' = FullStep(t)
    /\ ArriveReturns(t)
    /\ UNCHANGED <<tickets, share>>

PhaseOverAlways(t) == TRUE
PhaseOver(t) == phase # loc[t].old

Wait(t) == /\ pc[t] = "arrived" /\ PhaseOver(t)
           /\ pc' = [pc EXCEPT ![t] = "idle"]
           /\ loc' = [loc EXCEPT ![t] = NoLocals]
           /\ UNCHANGED <<expected, adjustment, phase, tickets, share>>

\* What goes on by itself: participants keep arriving.
Step(t) == \/ Arrive(t, FALSE) \/ TakeAlone(t) \/ TakeFirst(t) \/ TakenBefore(t) \/ TakeSecond(t)
           \/ Complete(t) \/ Wait(t)

Next == \E t \in Thread : Step(t) \/ Arrive(t, TRUE)

Spec == Init /\ [][Next]_vars

-----------------------------------------------------------------------------
TypeOK == /\ expected \in 0..Expected /\ adjustment \in -Expected..0 /\ phase \in 0..Phases - 1
          /\ tickets \in [Ticket -> 0..Phases - 1]
          /\ pc \in [Thread -> {"idle", "scan", "second", "arrived", "gone"}]
          /\ \A t \in Thread : <<Node(t), loc[t].round>> \in Ticket
          /\ share \in [Thread -> 0..Expected]

\* One thread completes a phase, and only when everybody who takes part has
\* arrived: the others wait, or have dropped out.
CompletesLast ==
    \A t \in Thread : LastOneLeft(t) =>
        /\ loc[t].left = 1 /\ loc[t].old = phase
        /\ \A u \in Thread \ {t} : pc[u] = "gone" \/ (pc[u] = "arrived" /\ loc[u].old = phase)

\* Nobody looks for a ticket of a phase that is over or has not begun.
ArrivesInPhase == \A t \in Thread : pc[t] \in {"scan", "second"} => loc[t].old = phase

\* Phases do not mix: each is completed once and last, by arrivals of its own.
PhasesAreOrderly == CompletesLast /\ ArrivesInPhase

\* Every phase ends: an arrival finds its ticket, also when the number of
\* arrivals is odd or has become smaller, and whoever waits leaves.
PhaseEnds == \A t \in Thread : pc[t] \in {"scan", "second", "arrived"} ~> pc[t] \in {"idle", "gone"}
=============================================================================
