------------------------------- MODULE Unwind -------------------------------
(***************************************************************************)
(* The two walks of libunwind over the frames of a thread and what the     *)
(* C++ personality routine answers at each frame.  Nothing here has state: *)
(* the walks are local to one thread, and CxaException uses their results. *)
(*                                                                         *)
(* frames[i] is the frame at depth i, the deepest call last; its index     *)
(* stands for the stack pointer.  A frame says                             *)
(*   site    what the exception table has for the call the frame is in     *)
(*           when it runs its normal code,                                 *)
(*   at      "code", "pad" (its landing pad runs), "handler" (a catch      *)
(*           clause runs) or "leaving" (the cleanup of a catch clause that *)
(*           an exception leaves),                                         *)
(*   flying  the exception the landing pad was entered with,               *)
(*   sel     the switch value it was entered with,                         *)
(*   caught  the exception the catch clause handles.                       *)
(* A site is NoPad, NoSite or the list of its actions: <<>> is a landing   *)
(* pad without an action entry; an action is a type, "any" or "cleanup".   *)
(* The address of a frame's landing pad and the adjusted pointer follow    *)
(* from the frame and the switch value and are left out.  Forced unwinding *)
(* and dynamic exception specifications are not modelled.                  *)
(***************************************************************************)
EXTENDS Naturals, Sequences, FiniteSetsExt

CONSTANTS Exc,     \* exception objects
          Type,    \* types of thrown objects
          None,    \* no exception
          NoPad,   \* no exception table, or no landing pad for this call
          NoSite   \* a table that has no entry for this call

Action == Type \cup {"any", "cleanup"}

Frame == [site   : {NoPad, NoSite} \cup Seq(Action),
          at     : {"code", "pad", "handler", "leaving"},
          flying : Exc \cup {None},
          sel    : Action,
          caught : Exc \cup {None}]

\* The entry for the call a frame is in.  An exception that leaves a catch
\* clause meets the cleanup that ends the catch; one that leaves a destructor
\* called from a landing pad meets a catch-all that calls __cxa_call_terminate.
SiteOf(f) == CASE f.at = "code"    -> f.site
               [] f.at = "handler" -> <<>>
               [] OTHER            -> <<"any">>

\* catch (T) never catches a foreign exception.
Catches(a, native, type) == a = "any" \/ (native /\ a = type)

scan_eh_tab(site, search, native, type) ==
    LET Matches == {k \in DOMAIN site : Catches(site[k], native, type)}
        HasCleanup == site = <<>> \/ \E k \in DOMAIN site : site[k] = "cleanup"
    IN  CASE site = NoPad  -> [reason |-> "continue", sel |-> "cleanup"]
          [] site = NoSite -> [reason |-> "terminate", sel |-> "cleanup"]
          [] OTHER ->
               IF Matches # {}
               THEN [reason |-> "found", sel |-> site[Min(Matches)]]
               ELSE [reason |-> IF ~search /\ HasCleanup THEN "found" ELSE "continue",
                     sel    |-> "cleanup"]

\* __gxx_personality_v0 in the cleanup phase: at the frame that phase 1 marked
\* a native exception takes the cached result, everything else is scanned.
personality_cleanup(f, handlerFrame, native, type, cached) ==
    IF handlerFrame /\ native
    THEN [reason |-> "found", sel |-> cached]
    ELSE scan_eh_tab(SiteOf(f), FALSE, native, type)

\* Both walks stop at the first frame, from the top, that does not continue.
Walk(frames, Answer(_)) ==
    LET Stops == {i \in DOMAIN frames : Answer(i).reason # "continue"}
    IN  IF Stops = {}
        THEN [reason |-> "end of stack", frame |-> 0, sel |-> "cleanup"]
        ELSE [reason |-> Answer(Max(Stops)).reason, frame |-> Max(Stops),
              sel |-> Answer(Max(Stops)).sel]

unwind_phase1(frames, native, type) ==
    LET Answer(i) == scan_eh_tab(SiteOf(frames[i]), TRUE, native, type)
    IN  Walk(frames, Answer)

\* The code also aborts when the walk goes on past private_2.  CxaException's
\* HandlerAwaits says that the frame answers "found", so that is left out.
unwind_phase2(frames, native, type, private_2, cached) ==
    LET Answer(i) == personality_cleanup(frames[i], i = private_2, native, type, cached)
    IN  Walk(frames, Answer)
=============================================================================
