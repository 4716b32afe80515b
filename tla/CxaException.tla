---------------------------- MODULE CxaException ----------------------------
(***************************************************************************)
(* Exception objects, the stack of caught exceptions and std::exception_ptr *)
(* (libcxxabi/src/cxa_exception.cpp, libcxx/src/support/runtime) over the  *)
(* unwinder of module Unwind.  A thread's program calls, returns, throws,  *)
(* catches and rethrows; frames[t] is its call stack as the compiler laid  *)
(* it out, the rest is what the library keeps about it.                    *)
(*                                                                         *)
(* Each library function is an operator on a record g, what one thread can *)
(* reach of the state, so that functions compose as their calls do.  The   *)
(* only words two threads share are reference counts, which are changed by *)
(* one atomic addition each, and exception_ptr objects, which the program  *)
(* synchronises; a library call is therefore one action.                   *)
(***************************************************************************)
EXTENDS Integers, Unwind

CONSTANTS
    Thread,
    Ptr,            \* std::exception_ptr objects
    CallSites,      \* sites that the program's calls have
    MaxFrames,      \* bound: frames of all threads together
    Foreign,        \* threads that call code of another language, which may throw
    NestedRethrow   \* may a destructor that runs while a rethrown exception
                    \* is in flight execute "throw;" ?

ASSUME ExceptionAssumption ==
    /\ CallSites \subseteq {NoPad, NoSite} \cup Seq(Action)
    /\ MaxFrames \in Nat
    /\ Foreign \subseteq Thread
    /\ NestedRethrow \in BOOLEAN
    /\ IsFiniteSet(Exc) /\ IsFiniteSet(Ptr)
    /\ {None, "running", "terminated", "aborted"} \cap Exc = {}
    /\ Type # {} /\ {"any", "cleanup"} \cap Type = {}
    /\ {NoPad, NoSite} \cap Seq(Action) = {} /\ NoPad # NoSite

VARIABLES
    exc,                 \* exc[e]: the header of exception e
    caughtExceptions,    \* per thread: the head of the stack of caught exceptions
    uncaughtExceptions,  \* per thread: the counter behind std::uncaught_exceptions
    frames,              \* per thread: its call stack
    ptr,                 \* ptr[p]: what an exception_ptr points to
    process              \* "running", "terminated", "aborted", or the exception
                         \* for which std::terminate was called

vars == <<exc, caughtExceptions, uncaughtExceptions, frames, ptr, process>>

\* kind "free": not allocated.  "dependent" has a primary exception instead of
\* a reference count.  private_2 and handlerSwitchValue are what phase 1 found;
\* nothing reads them between a catch and the next raise, which writes both,
\* nor nextException off the stack: there the model keeps a fixed value.
Header == [kind : {"free", "native", "dependent", "foreign"},
           type : Type, primary : Exc \cup {None},
           referenceCount : Nat, handlerCount : Int,
           nextException : Exc \cup {None},
           private_2 : Nat, handlerSwitchValue : Action]

Unallocated == [kind |-> "free", type |-> CHOOSE ty \in Type : TRUE, primary |-> None,
                referenceCount |-> 0, handlerCount |-> 0, nextException |-> None,
                private_2 |-> 0, handlerSwitchValue |-> "cleanup"]

NewFrame(site) == [site |-> site, at |-> "code", flying |-> None,
                   sel |-> "cleanup", caught |-> None]

Init ==
    /\ exc = [e \in Exc |-> Unallocated]
    /\ caughtExceptions = [t \in Thread |-> None]
    /\ uncaughtExceptions = [t \in Thread |-> 0]
    /\ frames = [t \in Thread |-> <<NewFrame(NoPad)>>]
    /\ ptr = [p \in Ptr |-> None]
    /\ process = "running"

View(t) == [exc |-> exc, caught |-> caughtExceptions[t],
            uncaught |-> uncaughtExceptions[t], frames |-> frames[t], process |-> process]

Set(t, g) ==
    /\ exc' = g.exc
    /\ caughtExceptions' = [caughtExceptions EXCEPT ![t] = g.caught]
    /\ uncaughtExceptions' = [uncaughtExceptions EXCEPT ![t] = g.uncaught]
    /\ frames' = [frames EXCEPT ![t] = g.frames]
    /\ process' = g.process

Native(g, e) == g.exc[e].kind \in {"native", "dependent"}
Free == {e \in Exc : exc[e].kind = "free"}
Top(fs) == fs[Len(fs)]
Pop(fs) == SubSeq(fs, 1, Len(fs) - 1)

-----------------------------------------------------------------------------
(***************************************************************************)
(* Reference counts, catching and terminating.                             *)
(***************************************************************************)
increment(x, e) == IF e = None THEN x ELSE [x EXCEPT ![e].referenceCount = @ + 1]

\* The last reference destroys the thrown object and frees its memory.
decrement(x, e) ==
    IF e = None THEN x
    ELSE IF x[e].referenceCount = 1 THEN [x EXCEPT ![e] = Unallocated]
    ELSE [x EXCEPT ![e].referenceCount = @ - 1]

terminate(g, e) == [g EXCEPT !.process = e]

PushesAlways(g, e) == g.caught
NextAfterPush(g, e) == IF g.caught = e THEN g.exc[e].nextException ELSE g.caught

HandlerCountSum(h) == h + 1
HandlerCountOnCatch(h) == IF h < 0 THEN -h + 1 ELSE h + 1

begin_catch(g, e) ==
    IF Native(g, e)
    THEN [g EXCEPT !.exc[e].handlerCount = HandlerCountOnCatch(@),
                   !.exc[e].nextException = NextAfterPush(g, e),
                   !.exc[e].private_2 = 0, !.exc[e].handlerSwitchValue = "cleanup",
                   !.caught = e,
                   !.uncaught = @ - 1]
    ELSE IF g.caught # None
         THEN terminate(g, "terminated")
         ELSE [g EXCEPT !.caught = e]

\* failed_throw, call_terminate and __cxa_call_terminate: std::terminate is a
\* handler, so the exception is caught first.
failed_throw(g, e) ==
    LET c == begin_catch(g, e)
    IN  IF c.process = "running" THEN terminate(c, e) ELSE c

\* _Unwind_DeleteException, after which a catch clause of e has nothing left.
DeleteForeign(g, e) ==
    [g EXCEPT !.exc[e] = Unallocated, !.caught = None,
              !.frames = [i \in DOMAIN @ |->
                  IF @[i].caught = e THEN [@[i] EXCEPT !.caught = None] ELSE @[i]]]

end_catch(g) ==
    LET e == g.caught
        x == g.exc[e]
        rethrown == x.handlerCount < 0
        left == [g EXCEPT !.exc[e].handlerCount = IF rethrown THEN @ + 1 ELSE @ - 1]
        popped == [left EXCEPT !.caught = x.nextException, !.exc[e].nextException = None]
    IN  CASE e = None -> g
          [] e # None /\ x.kind = "foreign" -> DeleteForeign(g, e)
          [] OTHER ->
               IF left.exc[e].handlerCount # 0 THEN left
               ELSE IF rethrown THEN popped
                    ELSE IF x.kind = "dependent"
                    THEN [popped EXCEPT !.exc = decrement([@ EXCEPT ![e] = Unallocated], x.primary)]
                    ELSE [popped EXCEPT !.exc = decrement(@, e)]

-----------------------------------------------------------------------------
(***************************************************************************)
(* Unwinding.  Phase 2 transfers control to the landing pad of the frame   *)
(* it stops at; the frames above are gone.                                 *)
(***************************************************************************)
Land(g, e, w) ==
    LET f == g.frames[w.frame]
        entered == IF f.at = "handler"
                   THEN [f EXCEPT !.at = "leaving", !.flying = e]
                   ELSE [f EXCEPT !.at = "pad", !.flying = e, !.sel = w.sel]
    IN  IF f.at \in {"pad", "leaving"}
        THEN failed_throw(g, e)
        ELSE [g EXCEPT !.frames = Append(SubSeq(@, 1, w.frame - 1), entered)]

Phase2(g, e, GiveUp(_)) ==
    LET x == g.exc[e]
        w == unwind_phase2(g.frames, Native(g, e), x.type, x.private_2, x.handlerSwitchValue)
    IN  CASE w.reason = "found"     -> Land(g, e, w)
          [] w.reason = "terminate" -> failed_throw(g, e)
          [] OTHER                  -> GiveUp(g)

\* The personality caches what phase 1 found in the header; the unwinder
\* remembers the stack pointer of the frame.
MarkWithoutFrame(g, e, w) == [g EXCEPT !.exc[e].handlerSwitchValue = w.sel]
Mark(g, e, w) == [g EXCEPT !.exc[e].private_2 = w.frame,
                           !.exc[e].handlerSwitchValue = w.sel]

\* If there is no handler the function returns and its caller gives up.
RaiseException(g, e) ==
    LET w == unwind_phase1(g.frames, Native(g, e), g.exc[e].type)
        Failed(h) == failed_throw(h, e)
    IN  IF w.reason = "found" THEN Phase2(Mark(g, e, w), e, Failed) ELSE failed_throw(g, e)

\* _Unwind_Resume does not return: it can only abort.
Resume(g, e) ==
    LET Abort(h) == [h EXCEPT !.process = "aborted"]
    IN  Phase2([g EXCEPT !.frames = Pop(@)], e, Abort)

-----------------------------------------------------------------------------
(***************************************************************************)
(* What the program does.  Landing pads only call destructors and the      *)
(* library; everything else happens in normal code or in a catch clause.   *)
(***************************************************************************)
At(t, places) == process = "running" /\ Top(frames[t]).at \in places

Call(t, site) ==
    /\ process = "running"
    /\ MapThenSumSet(LAMBDA u : Len(frames[u]), Thread) < MaxFrames
    /\ frames' = [frames EXCEPT ![t] = Append(@, NewFrame(site))]
    /\ UNCHANGED <<exc, caughtExceptions, uncaughtExceptions, ptr, process>>

Return(t) ==
    /\ At(t, {"code"}) /\ Len(frames[t]) > 1
    /\ frames' = [frames EXCEPT ![t] = Pop(@)]
    /\ UNCHANGED <<exc, caughtExceptions, uncaughtExceptions, ptr, process>>

\* __cxa_allocate_exception, __cxa_init_primary_exception, __cxa_throw.
Throw(t, e, type) ==
    /\ At(t, {"code", "handler"}) /\ e \in Free
    /\ LET g == [View(t) EXCEPT
                    !.exc[e] = [Unallocated EXCEPT !.kind = "native", !.type = type,
                                                        !.referenceCount = 1],
                    !.uncaught = @ + 1]
       IN  Set(t, RaiseException(g, e))
    /\ UNCHANGED ptr

\* Memory for the exception cannot be had, not even from the emergency heap;
\* the bound on exceptions stands for that.
AllocateFails(t) ==
    /\ At(t, {"code", "handler"}) /\ Free = {}
    /\ Set(t, terminate(View(t), "terminated"))
    /\ UNCHANGED ptr

\* Another language's runtime raises an exception of its own.
ThrowForeign(t, e) ==
    /\ At(t, {"code", "handler"}) /\ t \in Foreign /\ e \in Free
    /\ LET g == [View(t) EXCEPT !.exc[e] = [Unallocated EXCEPT !.kind = "foreign"]]
       IN  Set(t, RaiseException(g, e))
    /\ UNCHANGED ptr

\* A landing pad enters the catch clause that its switch value selects.
BeginCatch(t) ==
    /\ At(t, {"pad"}) /\ Top(frames[t]).sel # "cleanup"
    /\ LET e == Top(frames[t]).flying
           g == begin_catch(View(t), e)
       IN  Set(t, [g EXCEPT !.frames[Len(g.frames)] =
                       [@ EXCEPT !.at = "handler", !.caught = e, !.flying = None,
                                  !.sel = "cleanup"]])
    /\ UNCHANGED ptr

\* A catch clause ends normally.
EndCatch(t) ==
    /\ At(t, {"handler"})
    /\ LET g == end_catch(View(t))
       IN  Set(t, [g EXCEPT !.frames = Pop(@)])
    /\ UNCHANGED ptr

\* A landing pad has destroyed what it has to and unwinding goes on; that of a
\* catch clause ends the catch first.
UnwindResume(t) ==
    /\ \/ At(t, {"pad"}) /\ Top(frames[t]).sel = "cleanup"
       \/ At(t, {"leaving"})
    /\ LET e == Top(frames[t]).flying
           g == IF Top(frames[t]).at = "leaving" THEN end_catch(View(t)) ELSE View(t)
       IN  Set(t, Resume(g, e))
    /\ UNCHANGED ptr

\* __cxa_rethrow ("throw;").
RethrowKeepsCount(g, e) == [g EXCEPT !.exc[e].handlerCount = -@]
MarkRethrown(g, e) == [g EXCEPT !.exc[e].handlerCount = -@, !.uncaught = @ + 1]

\* Only popping the stack tells __cxa_end_catch that a foreign exception has
\* been rethrown.
ForgetForeign(g, e) ==
    [g EXCEPT !.caught = None,
              !.frames = [i \in DOMAIN @ |->
                  IF @[i].caught = e THEN [@[i] EXCEPT !.caught = None] ELSE @[i]]]

Rethrow(t) ==
    /\ At(t, {"code", "handler"})
    /\ LET e == caughtExceptions[t]
           g == View(t)
       IN  /\ ~NestedRethrow /\ e # None => exc[e].handlerCount >= 0
           /\ Set(t, CASE e = None -> terminate(g, "terminated")
                       [] e # None /\ Native(g, e) -> RaiseException(MarkRethrown(g, e), e)
                       [] OTHER -> RaiseException(ForgetForeign(g, e), e))
    /\ UNCHANGED ptr

-----------------------------------------------------------------------------
(***************************************************************************)
(* std::exception_ptr.                                                     *)
(***************************************************************************)
current_primary_exception(g) ==
    IF g.caught = None \/ ~Native(g, g.caught) THEN None
    ELSE IF g.exc[g.caught].kind = "dependent" THEN g.exc[g.caught].primary
    ELSE g.caught

\* p = std::current_exception(), p being empty.
CurrentException(t, p) ==
    /\ At(t, {"code", "handler"}) /\ ptr[p] = None
    /\ LET e == current_primary_exception(View(t))
       IN  ptr' = [ptr EXCEPT ![p] = e] /\ exc' = increment(exc, e)
    /\ UNCHANGED <<caughtExceptions, uncaughtExceptions, frames, process>>

\* p = std::make_exception_ptr(...), p being empty.
MakeExceptionPtr(t, p, e, type) ==
    /\ At(t, {"code", "handler"}) /\ ptr[p] = None /\ e \in Free
    /\ ptr' = [ptr EXCEPT ![p] = e]
    /\ exc' = increment([exc EXCEPT ![e] = [Unallocated EXCEPT !.kind = "native",
                                                                    !.type = type]], e)
    /\ UNCHANGED <<caughtExceptions, uncaughtExceptions, frames, process>>

\* Copy assignment; assigning an empty pointer is what the destructor does.
AssignTo(t, p, e) ==
    /\ At(t, {"code", "handler"}) /\ ptr[p] # e
    /\ exc' = decrement(increment(exc, e), ptr[p])
    /\ ptr' = [ptr EXCEPT ![p] = e]
    /\ UNCHANGED <<caughtExceptions, uncaughtExceptions, frames, process>>

\* std::rethrow_exception(p) throws a dependent exception.
Dependent(x, e, d) == [x EXCEPT ![d] = [Unallocated EXCEPT
                          !.kind = "dependent", !.primary = e, !.type = x[e].type]]
RethrowUncounted(x, e, d) == Dependent(x, e, d)
rethrow_primary_exception(x, e, d) == increment(Dependent(x, e, d), e)

RethrowException(t, p, d) ==
    /\ At(t, {"code", "handler"})
    /\ \/ /\ ptr[p] = None
          /\ Set(t, terminate(View(t), "terminated"))
       \/ /\ ptr[p] # None /\ d \in Free
          /\ LET g == [View(t) EXCEPT
                          !.exc = rethrow_primary_exception(@, ptr[p], d),
                          !.uncaught = @ + 1]
             IN  Set(t, RaiseException(g, d))
    /\ UNCHANGED ptr

-----------------------------------------------------------------------------
Next == \E t \in Thread :
    \/ \E site \in CallSites : Call(t, site)
    \/ Return(t)
    \/ \E e \in Exc, type \in Type : Throw(t, e, type)
    \/ AllocateFails(t)
    \/ \E e \in Exc : ThrowForeign(t, e)
    \/ BeginCatch(t)
    \/ EndCatch(t)
    \/ UnwindResume(t)
    \/ Rethrow(t)
    \/ \E p \in Ptr : \/ CurrentException(t, p)
                      \/ \E e \in Exc, type \in Type : MakeExceptionPtr(t, p, e, type)
                      \/ \E e \in {None} \cup {ptr[q] : q \in Ptr} : AssignTo(t, p, e)
                      \/ \E d \in Exc : RethrowException(t, p, d)

Spec == Init /\ [][Next]_vars

-----------------------------------------------------------------------------
(***************************************************************************)
(* Properties.                                                             *)
(***************************************************************************)
TypeOK ==
    /\ exc \in [Exc -> Header]
    /\ caughtExceptions \in [Thread -> Exc \cup {None}]
    /\ uncaughtExceptions \in [Thread -> Nat]
    /\ frames \in [Thread -> Seq(Frame) \ {<<>>}]
    /\ ptr \in [Ptr -> Exc \cup {None}]
    /\ process \in {"running", "terminated", "aborted"} \cup Exc

HandlersOf(t, e) == {i \in DOMAIN frames[t] : frames[t][i].caught = e}
FlightsOf(t, e) == {i \in DOMAIN frames[t] : frames[t][i].flying = e}
IsFlying(e) == \E t \in Thread : FlightsOf(t, e) # {}
IsHandled(e) == \E t \in Thread : HandlersOf(t, e) # {}

\* std::current_exception and "throw;" mean the exception of the innermost
\* catch clause that has not been left: the head of the stack is that one,
\* whatever was thrown, caught and rethrown in between, in destructors too.
CurrentIsInnermost ==
    process = "running" =>
        \A t \in Thread :
            LET Clauses == {i \in DOMAIN frames[t] : frames[t][i].at \in {"handler", "leaving"}}
            IN  caughtExceptions[t] = IF Clauses = {} THEN None
                                      ELSE frames[t][Max(Clauses)].caught

\* Headers and frames are well formed, and the stack of caught exceptions
\* follows the catch clauses.
HandlerStackInv == TypeOK /\ CurrentIsInnermost

\* handlerCount is the number of catch clauses that an exception is in, and
\* negative exactly while it is in flight again: __cxa_end_catch of a clause
\* that a rethrown exception leaves must not destroy it, all others must.
HandlerCountAgrees ==
    process = "running" =>
        \A e \in Exc : exc[e].kind \in {"native", "dependent"} =>
            \A t \in Thread :
                HandlersOf(t, e) \cup FlightsOf(t, e) # {} =>
                    exc[e].handlerCount = IF FlightsOf(t, e) # {}
                                          THEN -Cardinality(HandlersOf(t, e))
                                          ELSE Cardinality(HandlersOf(t, e))

\* std::uncaught_exceptions is the number of native exceptions in flight on
\* the thread, however deeply destructors throw and catch while others fly.
UncaughtAgrees ==
    process \in {"running"} \cup Exc =>
        \A t \in Thread :
            uncaughtExceptions[t] =
                Cardinality({i \in DOMAIN frames[t] :
                                /\ frames[t][i].flying # None
                                /\ exc[frames[t][i].flying].kind # "foreign"})

\* An exception is allocated exactly as long as something refers to it: it is
\* in flight, a catch clause handles it, an exception_ptr points to it or a
\* dependent exception stands for it.  Its count is the number of those.
Dependents(e) == {d \in Exc : exc[d].kind = "dependent" /\ exc[d].primary = e}
Referred(e) == (IF IsFlying(e) \/ IsHandled(e) THEN 1 ELSE 0)
                   + Cardinality({p \in Ptr : ptr[p] = e}) + Cardinality(Dependents(e))
LiveIffReferred ==
    process = "running" =>
        \A e \in Exc :
            /\ exc[e].kind = "free" <=> Referred(e) = 0
            /\ exc[e].kind = "native" => exc[e].referenceCount = Referred(e)

\* While landing pads run on the way, the catch clause that phase 1 found waits
\* further down and is the one that is entered: unwinding never aborts, and a
\* landing pad with a switch value is that of the marked frame.
HandlerAwaits ==
    /\ process # "aborted"
    /\ process = "running" =>
        \A t \in Thread : \A i \in DOMAIN frames[t] :
            LET f == frames[t][i]
                x == exc[f.flying]
                h == frames[t][x.private_2]
                native == x.kind # "foreign"
            IN  f.flying # None =>
                /\ x.private_2 \in 1..i
                /\ IF f.at = "pad" /\ f.sel # "cleanup"
                   THEN x.private_2 = i
                        /\ f.sel = scan_eh_tab(f.site, TRUE, native, x.type).sel
                   ELSE /\ x.private_2 < i
                        /\ scan_eh_tab(SiteOf(h), TRUE, native, x.type).reason = "found"

\* An exception in flight is not destroyed by the end of a catch clause that
\* it leaves.
InFlightIsLive == process = "running" => \A e \in Exc : IsFlying(e) => exc[e].kind # "free"
=============================================================================
