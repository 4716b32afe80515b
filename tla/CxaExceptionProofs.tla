------------------------- MODULE CxaExceptionProofs -------------------------
(***************************************************************************)
(* Proofs about CxaException, for programs in which no destructor executes *)
(* "throw;" while a rethrown exception is in flight (the run               *)
(* exceptions_nested shows what happens when one does).                    *)
(*                                                                         *)
(* An exception in the unwinder's hands is a landing pad on top of the     *)
(* stack that flies it: raising an exception pushes that frame, resuming   *)
(* finds it there, and both then walk down from it.                        *)
(***************************************************************************)
EXTENDS CxaException, FiniteSetTheorems, SequenceTheorems, WellFoundedInduction, TLAPS

Clause(f) == f.at \in {"handler", "leaving"}

\* A frame as compiled code can leave it.
FrameOK(f) ==
    /\ f.flying # None <=> f.at \in {"pad", "leaving"}
    /\ f.caught # None => Clause(f)
    /\ f.sel # "cleanup" => f.at = "pad"

\* The outermost function of a thread has no exception table.
ShapeOK(fs) ==
    /\ fs \in Seq(Frame) /\ Len(fs) > 0
    /\ fs[1].at = "code" /\ fs[1].site = NoPad
    /\ \A i \in 1 .. Len(fs) : FrameOK(fs[i])

\* The exception of the innermost clause below frame n.
ClausesBelow(fs, n) == {i \in 1 .. Len(fs) : i < n /\ Clause(fs[i])}
HeadBelow(fs, n) == IF ClausesBelow(fs, n) = {} THEN None
                    ELSE fs[Max(ClausesBelow(fs, n))].caught

\* Clause i and the clauses below it: a foreign exception is alone on the
\* stack of caught exceptions, clauses of the same exception have nothing but
\* each other between them, and the lowest one's nextException is the head
\* that was there before.
ChainAt(x, fs, i) ==
    Clause(fs[i]) =>
        IF fs[i].caught = None \/ x[fs[i].caught].kind = "foreign"
        THEN \A j \in 1 .. i - 1 : Clause(fs[j]) => fs[j].caught = None
        ELSE IF \E j \in 1 .. i - 1 : fs[j].caught = fs[i].caught
             THEN HeadBelow(fs, i) = fs[i].caught
             ELSE x[fs[i].caught].nextException = HeadBelow(fs, i)

\* An exception is in flight in one frame only, above all clauses that handle
\* it, and if there is one then the innermost clause below is one.
FlightAt(x, fs, i) ==
    fs[i].flying # None => \A j \in 1 .. Len(fs) :
        /\ fs[j].flying = fs[i].flying => i = j
        /\ fs[j].caught = fs[i].flying =>
             /\ j <= i /\ x[fs[i].flying].kind # "foreign"
             /\ HeadBelow(fs, i + 1) = fs[i].flying

Handlers(fs, e) == {i \in 1 .. Len(fs) : fs[i].caught = e}
Flights(fs, e) == {i \in 1 .. Len(fs) : fs[i].flying = e}
Held(fs) == {e \in Exc : Handlers(fs, e) # {} \/ Flights(fs, e) # {}}
CountAt(x, fs, e) ==
    x[e].kind # "foreign" =>
        x[e].handlerCount = IF Flights(fs, e) # {} THEN -Cardinality(Handlers(fs, e))
                            ELSE Cardinality(Handlers(fs, e))

NativeFlights(x, fs) ==
    {i \in 1 .. Len(fs) : fs[i].flying # None /\ x[fs[i].flying].kind # "foreign"}

\* What phase 1 answers at frame k, and: its search from above frame n down
\* ended at the frame that the header remembers.
Answer1(x, fs, e, k) == scan_eh_tab(SiteOf(fs[k]), TRUE, x[e].kind # "foreign", x[e].type)
Marked(x, fs, e, n) ==
    /\ x[e].private_2 \in 1 .. n - 1
    /\ Answer1(x, fs, e, x[e].private_2).reason = "found"
    /\ x[e].kind # "foreign" =>
           x[e].handlerSwitchValue = Answer1(x, fs, e, x[e].private_2).sel
    /\ \A k \in x[e].private_2 + 1 .. n - 1 : Answer1(x, fs, e, k).reason = "continue"

AwaitAt(x, fs, i) ==
    fs[i].flying # None =>
        IF fs[i].sel # "cleanup"
        THEN /\ x[fs[i].flying].private_2 = i
             /\ fs[i].sel = scan_eh_tab(fs[i].site, TRUE, x[fs[i].flying].kind # "foreign",
                                     x[fs[i].flying].type).sel
        ELSE Marked(x, fs, fs[i].flying, i)

\* Everything but what the unwinder has found.
StackOK(x, c, u, fs) ==
    /\ x \in [Exc -> Header]
    /\ ShapeOK(fs)
    /\ \A i \in 1 .. Len(fs) : ChainAt(x, fs, i) /\ FlightAt(x, fs, i)
    /\ \A e \in Held(fs) : x[e].kind # "free" /\ CountAt(x, fs, e)
    /\ c = HeadBelow(fs, Len(fs) + 1)
    /\ u = Cardinality(NativeFlights(x, fs))

AwaitsOK(x, fs) == \A i \in 1 .. Len(fs) : AwaitAt(x, fs, i)

\* References: H are the exceptions that frames hold, q is ptr, r is one more
\* reference, held by the library function that is running.
PtrsTo(q, e) == {p \in Ptr : q[p] = e}
DepsOf(x, e) == {d \in Exc : x[d].kind = "dependent" /\ x[d].primary = e}
One(b) == IF b THEN 1 ELSE 0
RefsOf(x, H, q, r, e) == One(e \in H) + Cardinality(PtrsTo(q, e))
                             + Cardinality(DepsOf(x, e)) + One(e = r)
RefsOK(x, H, q, r) ==
    /\ \A p \in Ptr : q[p] # None => x[q[p]].kind = "native"
    /\ \A d \in Exc : x[d].kind = "dependent" =>
           x[d].primary \in Exc /\ x[x[d].primary].kind = "native"
    /\ \A e \in Exc : /\ x[e].kind = "free" <=> RefsOf(x, H, q, r, e) = 0
                      /\ x[e].kind = "native" => x[e].referenceCount = RefsOf(x, H, q, r, e)

AllHeld == {e \in Exc : \E t \in Thread : e \in Held(frames[t])}

\* The inductive invariant.
ThreadsOK ==
    /\ \A t \in Thread : /\ StackOK(exc, caughtExceptions[t], uncaughtExceptions[t], frames[t])
                         /\ AwaitsOK(exc, frames[t])
    /\ \A t, v \in Thread : t # v => Held(frames[t]) \cap Held(frames[v]) = {}
    /\ RefsOK(exc, AllHeld, ptr, None)

IInv == /\ TypeOK
        /\ process # "aborted"
        /\ \A t \in Thread : uncaughtExceptions[t] = Cardinality(NativeFlights(exc, frames[t]))
        /\ process = "running" => ThreadsOK

-----------------------------------------------------------------------------
(***************************************************************************)
(* Least and greatest elements, frames and the heads below them.           *)
(***************************************************************************)
LEMMA LeastNat ==
    ASSUME NEW T, T \subseteq Nat, T # {}
    PROVE  \E x \in T : \A y \in T : x <= y
<1> DEFINE R == {ss \in Nat \X Nat : ss[1] < ss[2]}
<1>1. R = OpToRel(<, Nat)
  BY DEF OpToRel
<1>2. IsWellFoundedOn(R, Nat)
  BY <1>1, NatLessThanWellFounded
<1>3. \A m, n \in Nat : <<m, n>> \in R <=> m < n
  OBVIOUS
<1> HIDE DEF R
<1>4. PICK x \in T : \A y \in T : ~(<<y, x>> \in R)
  BY <1>2, WFMin
<1>5. ASSUME NEW y \in T PROVE x <= y
  <2>1. x \in Nat /\ y \in Nat
    OBVIOUS
  <2>2. ~(y < x)
    BY <1>3, <1>4, <2>1
  <2> QED
    BY <2>1, <2>2
<1> QED
  BY <1>5

LEMMA MaxFacts ==
    ASSUME NEW n \in Nat, NEW T \in SUBSET (1 .. n), T # {}
    PROVE  Max(T) \in T /\ \A y \in T : Max(T) >= y
<1> DEFINE U == {n - x : x \in T}
<1>0. \A x \in T : x \in 1 .. n
  OBVIOUS
<1>1. U \subseteq Nat
  <2>1. \A x \in T : n - x \in Nat
    BY <1>0
  <2> QED
    BY <2>1
<1>2. U # {}
  OBVIOUS
<1>3. PICK u \in U : \A y \in U : u <= y
  BY <1>1, <1>2, LeastNat
<1>4. PICK x \in T : u = n - x
  OBVIOUS
<1>5. ASSUME NEW y \in T PROVE x >= y
  <2>1. n - y \in U
    OBVIOUS
  <2>2. n - x <= n - y
    BY <1>3, <1>4, <2>1
  <2> QED
    BY <1>0, <2>2
<1> QED
  BY <1>4, <1>5 DEF Max

LEMMA MinFacts ==
    ASSUME NEW T, T \subseteq Nat, T # {}
    PROVE  Min(T) \in T
BY LeastNat DEF Min

\* The head below a frame is None or that of a clause with none in between.
LEMMA HeadIs ==
    ASSUME NEW fs, Len(fs) \in Nat, NEW n \in Nat
    PROVE  \/ HeadBelow(fs, n) = None /\ \A i \in 1 .. Len(fs) : i < n => ~Clause(fs[i])
           \/ \E m \in 1 .. Len(fs) :
                 /\ m < n /\ Clause(fs[m]) /\ HeadBelow(fs, n) = fs[m].caught
                 /\ \A i \in 1 .. Len(fs) : m < i /\ i < n => ~Clause(fs[i])
<1> DEFINE T == ClausesBelow(fs, n)
<1>1. T \in SUBSET (1 .. Len(fs))
  BY DEF ClausesBelow
<1>2. CASE T = {}
  BY <1>2 DEF ClausesBelow, HeadBelow
<1>3. CASE T # {}
  <2>1. Max(T) \in T /\ \A y \in T : Max(T) >= y
    BY <1>1, <1>3, MaxFacts
  <2>2. HeadBelow(fs, n) = fs[Max(T)].caught
    BY <1>3 DEF HeadBelow
  <2>3. PICK m : m = Max(T)
    OBVIOUS
  <2>4. m \in T /\ \A y \in T : m >= y
    BY <2>1, <2>3
  <2>5. m \in 1 .. Len(fs) /\ m < n /\ Clause(fs[m])
    BY <2>4 DEF ClausesBelow
  <2>6. ASSUME NEW i \in 1 .. Len(fs), m < i, i < n, Clause(fs[i]) PROVE FALSE
    <3>1. i \in T
      BY <2>6 DEF ClausesBelow
    <3> QED
      BY <2>4, <2>5, <2>6, <3>1
  <2> QED
    BY <2>2, <2>3, <2>5, <2>6
<1> QED
  BY <1>2, <1>3

\* Two stacks have the same clauses in their lowest n frames.
SameClauses(fs, gs, n) ==
    /\ n <= Len(fs) /\ n <= Len(gs)
    /\ \A i \in 1 .. n : (Clause(gs[i]) <=> Clause(fs[i])) /\ gs[i].caught = fs[i].caught

\* Frames that are no clauses do not count.
LEMMA HeadSkips ==
    ASSUME NEW fs, Len(fs) \in Nat, NEW m \in Nat, NEW n \in Nat, m <= n,
           \A i \in 1 .. Len(fs) : m <= i /\ i < n => ~Clause(fs[i])
    PROVE  HeadBelow(fs, n) = HeadBelow(fs, m)
<1>1. ClausesBelow(fs, n) = ClausesBelow(fs, m)
  BY DEF ClausesBelow
<1> QED
  BY <1>1 DEF HeadBelow

\* A clause is the head for the frames right above it.
LEMMA HeadAbove ==
    ASSUME NEW fs, Len(fs) \in Nat, NEW n \in 1 .. Len(fs)
    PROVE  HeadBelow(fs, n + 1) = IF Clause(fs[n]) THEN fs[n].caught ELSE HeadBelow(fs, n)
<1>1. CASE Clause(fs[n])
  <2>1. ~(\A i \in 1 .. Len(fs) : i < n + 1 => ~Clause(fs[i]))
    BY <1>1
  <2>2. PICK m \in 1 .. Len(fs) :
                 /\ m < n + 1 /\ Clause(fs[m]) /\ HeadBelow(fs, n + 1) = fs[m].caught
                 /\ \A i \in 1 .. Len(fs) : m < i /\ i < n + 1 => ~Clause(fs[i])
    <3>1. n + 1 \in Nat
      OBVIOUS
    <3> QED
      BY <2>1, <3>1, HeadIs
  <2>3. m = n
    BY <1>1, <2>2
  <2> QED
    BY <1>1, <2>2, <2>3
<1>2. CASE ~Clause(fs[n])
  <2>1. n \in Nat /\ n + 1 \in Nat /\ n <= n + 1
    OBVIOUS
  <2>2. \A i \in 1 .. Len(fs) : n <= i /\ i < n + 1 => ~Clause(fs[i])
    BY <1>2
  <2> QED
    BY <1>2, <2>1, <2>2, HeadSkips
<1> QED
  BY <1>1, <1>2

LEMMA HeadSame ==
    ASSUME NEW fs, NEW gs, Len(fs) \in Nat, Len(gs) \in Nat, NEW k \in Nat,
           SameClauses(fs, gs, k), NEW n \in Nat, n <= k + 1
    PROVE  HeadBelow(gs, n) = HeadBelow(fs, n)
<1>1. ClausesBelow(gs, n) = ClausesBelow(fs, n)
  BY DEF ClausesBelow, SameClauses
<1>2. CASE ClausesBelow(fs, n) = {}
  BY <1>1, <1>2 DEF HeadBelow
<1>3. CASE ClausesBelow(fs, n) # {}
  <2>1. ClausesBelow(fs, n) \in SUBSET (1 .. Len(fs))
    BY DEF ClausesBelow
  <2>2. Max(ClausesBelow(fs, n)) \in ClausesBelow(fs, n)
    BY <1>3, <2>1, MaxFacts
  <2>3. PICK m \in ClausesBelow(fs, n) : m = Max(ClausesBelow(fs, n))
    BY <2>2
  <2>4. gs[m].caught = fs[m].caught
    BY <2>3 DEF ClausesBelow, SameClauses
  <2> QED
    BY <1>1, <1>3, <2>3, <2>4 DEF HeadBelow
<1> QED
  BY <1>2, <1>3

-----------------------------------------------------------------------------
(***************************************************************************)
(* What the personality routine answers and where the two walks end.       *)
(***************************************************************************)
Site == {NoPad, NoSite} \cup Seq(Action)

\* Of a scan with answer a, which is b when it is not a search.
ScanOK(s, search, a, b) ==
    /\ a.reason \in {"found", "continue", "terminate"} /\ a.sel \in Action
    /\ search /\ a.reason = "found" => b = a /\ a.sel # "cleanup"
    /\ search /\ a.reason = "continue" => b.reason # "terminate" /\ b.sel = "cleanup"
    /\ s = NoPad => a.reason = "continue"
    /\ s = <<>> => a.reason = IF search THEN "continue" ELSE "found"
    /\ s = <<"any">> => a.reason = "found"

LEMMA ScanFacts ==
    ASSUME NEW s \in Site, NEW native \in BOOLEAN, NEW type \in Type, NEW search \in BOOLEAN
    PROVE  ScanOK(s, search, scan_eh_tab(s, search, native, type),
                  scan_eh_tab(s, FALSE, native, type))
<1> DEFINE a == scan_eh_tab(s, search, native, type)
           b == scan_eh_tab(s, FALSE, native, type)
           M == {k \in DOMAIN s : Catches(s[k], native, type)}
<1>0. /\ \A y \in Seq(Action) : y # NoPad /\ y # NoSite
      /\ NoPad # NoSite /\ "cleanup" \notin Type
  BY ExceptionAssumption
<1>a. <<>> \in Seq(Action) /\ <<"any">> \in Seq(Action) /\ "cleanup" \in Action
  BY DEF Action
<1>b. /\ NoPad # <<>> /\ NoPad # <<"any">> /\ NoSite # <<>> /\ NoSite # <<"any">>
  BY <1>0, <1>a
<1>1. CASE s = NoPad
  <2>1. a = [reason |-> "continue", sel |-> "cleanup"] /\ b = a
    BY <1>0, <1>1 DEF scan_eh_tab
  <2> HIDE DEF a, b
  <2>2. /\ a.reason = "continue" /\ a.sel \in Action /\ b.reason = "continue" /\ b.sel = "cleanup"
        /\ s # <<>> /\ s # <<"any">>
    BY <1>1, <1>a, <1>b, <2>1
  <2> QED
    BY <2>2 DEF a, b, ScanOK
<1>2. CASE s = NoSite
  <2>1. a = [reason |-> "terminate", sel |-> "cleanup"] /\ b = a
    BY <1>0, <1>2 DEF scan_eh_tab
  <2> HIDE DEF a, b
  <2>2. /\ a.reason = "terminate" /\ a.sel \in Action
        /\ s # <<>> /\ s # <<"any">> /\ s # NoPad
    BY <1>0, <1>2, <1>a, <1>b, <2>1
  <2> QED
    BY <2>2 DEF a, b, ScanOK
<1>3. CASE s \in Seq(Action)
  <2>1. s # NoPad /\ s # NoSite
    BY <1>0, <1>3
  <2>2. DOMAIN s \subseteq Nat
    BY <1>3
  <2>3. CASE M # {}
    <3>1. Min(M) \in M
      BY <2>2, <2>3, MinFacts
    <3>2. PICK k \in DOMAIN s : k = Min(M) /\ Catches(s[k], native, type)
      BY <3>1
    <3>3. s[k] \in Action /\ s[k] # "cleanup"
      BY <1>0, <1>3, <3>2 DEF Catches
    <3>4. a = [reason |-> "found", sel |-> s[k]] /\ b = a
      BY <2>1, <2>3, <3>2 DEF scan_eh_tab
    <3>5. s # <<>>
      BY <3>2
    <3> HIDE DEF a, b
    <3>6. a.reason = "found" /\ a.sel = s[k]
      BY <3>4
    <3> QED
      BY <2>1, <3>3, <3>4, <3>5, <3>6 DEF a, b, ScanOK
  <2>4. CASE M = {}
    <3>1. s # <<"any">>
      <4>1. SUFFICES ASSUME s = <<"any">> PROVE FALSE
        OBVIOUS
      <4>2. 1 \in DOMAIN s /\ s[1] = "any"
        BY <4>1
      <4> QED
        BY <2>4, <4>2 DEF Catches
    <3>2. a.sel = "cleanup" /\ b.sel = "cleanup" /\ b.reason \in {"found", "continue"}
      BY <2>1, <2>4 DEF scan_eh_tab
    <3>3. a.reason = IF ~search /\ (s = <<>> \/ \E k \in DOMAIN s : s[k] = "cleanup")
                     THEN "found" ELSE "continue"
      BY <2>1, <2>4 DEF scan_eh_tab
    <3> QED
      BY <2>1, <3>1, <3>2, <3>3 DEF Action, ScanOK
  <2> QED
    BY <2>3, <2>4
<1> QED
  BY <1>1, <1>2, <1>3 DEF Site

LEMMA SiteOfFacts ==
    ASSUME NEW f \in Frame
    PROVE  /\ SiteOf(f) \in Site
           /\ f.at = "code" => SiteOf(f) = f.site
           /\ f.at = "handler" => SiteOf(f) = <<>>
           /\ f.at \in {"pad", "leaving"} => SiteOf(f) = <<"any">>
<1>1. f.at \in {"code", "handler", "pad", "leaving"} /\ f.site \in Site
  BY DEF Frame, Site
<1>2. <<>> \in Seq(Action) /\ <<"any">> \in Seq(Action)
  BY DEF Action
<1> QED
  BY <1>1, <1>2 DEF SiteOf, Site

\* A walk of either phase.
WalkOver(fs, A) ==
    LET Stops == {i \in DOMAIN fs : A[i].reason # "continue"}
    IN  IF Stops = {}
        THEN [reason |-> "end of stack", frame |-> 0, sel |-> "cleanup"]
        ELSE [reason |-> A[Max(Stops)].reason, frame |-> Max(Stops), sel |-> A[Max(Stops)].sel]

Answers == [reason : {"found", "continue", "terminate"}, sel : Action]

LEMMA WalkFacts ==
    ASSUME NEW fs, Len(fs) \in Nat, DOMAIN fs = 1 .. Len(fs), NEW A,
           A \in [1 .. Len(fs) -> Answers]
    PROVE  \/ /\ WalkOver(fs, A).reason = "end of stack"
              /\ \A i \in 1 .. Len(fs) : A[i].reason = "continue"
           \/ \E k \in 1 .. Len(fs) :
                 /\ WalkOver(fs, A) = [reason |-> A[k].reason, frame |-> k, sel |-> A[k].sel]
                 /\ A[k].reason \in {"found", "terminate"} /\ A[k].sel \in Action
                 /\ \A i \in 1 .. Len(fs) : k < i => A[i].reason = "continue"
<1> DEFINE S == {i \in DOMAIN fs : A[i].reason # "continue"}
<1>1. S \in SUBSET (1 .. Len(fs))
  OBVIOUS
<1>2. CASE S = {}
  BY <1>2 DEF WalkOver
<1>3. CASE S # {}
  <2>1. Max(S) \in S /\ \A y \in S : Max(S) >= y
    BY <1>1, <1>3, MaxFacts
  <2>2. WalkOver(fs, A) = [reason |-> A[Max(S)].reason, frame |-> Max(S), sel |-> A[Max(S)].sel]
    BY <1>3 DEF WalkOver
  <2>3. PICK k \in 1 .. Len(fs) : k = Max(S)
    BY <1>1, <2>1
  <2>4. k \in S /\ \A y \in S : k >= y
    BY <2>1, <2>3
  <2> HIDE DEF S
  <2>5. k \in 1 .. Len(fs) /\ A[k].reason # "continue"
    BY <2>4 DEF S
  <2>6. A[k].reason \in {"found", "terminate"} /\ A[k].sel \in Action
    BY <2>5 DEF Answers
  <2>7. ASSUME NEW i \in 1 .. Len(fs), k < i PROVE A[i].reason = "continue"
    <3>1. i \notin S
      BY <2>4, <2>7
    <3> QED
      BY <3>1 DEF S
  <2> QED
    BY <2>2, <2>3, <2>5, <2>6, <2>7
<1> QED
  BY <1>2, <1>3

Answer2(x, fs, e, i) ==
    personality_cleanup(fs[i], i = x[e].private_2, x[e].kind # "foreign", x[e].type,
                        x[e].handlerSwitchValue)
Scan2(x, fs, e, i) == scan_eh_tab(SiteOf(fs[i]), FALSE, x[e].kind # "foreign", x[e].type)

\* What the two phases answer at the same frame.
LEMMA AnswerFacts ==
    ASSUME NEW x \in [Exc -> Header], NEW e \in Exc, NEW fs \in Seq(Frame), NEW i \in 1 .. Len(fs)
    PROVE  LET a == Answer1(x, fs, e, i)
               b == Scan2(x, fs, e, i)
           IN  /\ a.reason = "found" => b = a /\ a.sel # "cleanup"
               /\ a.reason = "continue" => b.reason # "terminate" /\ b.sel = "cleanup"
               /\ fs[i].at = "handler" => a.reason = "continue" /\ b.reason = "found"
               /\ fs[i].at \in {"pad", "leaving"} => a.reason = "found" /\ b.reason = "found"
               /\ fs[i].at = "code" /\ fs[i].site = NoPad => a.reason = "continue"
<1>1. PICK n \in BOOLEAN : n = (x[e].kind # "foreign")
  OBVIOUS
<1>2. PICK s \in Site, ty \in Type : s = SiteOf(fs[i]) /\ ty = x[e].type
  BY SiteOfFacts DEF Header
<1>3. PICK a, b : a = scan_eh_tab(s, TRUE, n, ty) /\ b = scan_eh_tab(s, FALSE, n, ty)
  OBVIOUS
<1>4. ScanOK(s, TRUE, a, b) /\ ScanOK(s, FALSE, b, b)
  BY <1>3, ScanFacts
<1>5. a = Answer1(x, fs, e, i) /\ b = Scan2(x, fs, e, i)
  BY <1>1, <1>2, <1>3 DEF Answer1, Scan2
<1>6. /\ fs[i].at = "code" => s = fs[i].site
      /\ fs[i].at = "handler" => s = <<>>
      /\ fs[i].at \in {"pad", "leaving"} => s = <<"any">>
  BY <1>2, SiteOfFacts
<1>7. /\ a.reason = "found" => b = a /\ a.sel # "cleanup"
      /\ a.reason = "continue" => b.reason # "terminate" /\ b.sel = "cleanup"
      /\ fs[i].at = "handler" => a.reason = "continue" /\ b.reason = "found"
      /\ fs[i].at \in {"pad", "leaving"} => a.reason = "found" /\ b.reason = "found"
      /\ fs[i].at = "code" /\ fs[i].site = NoPad => a.reason = "continue"
  BY <1>4, <1>6 DEF ScanOK
<1> QED
  BY <1>5, <1>7

LEMMA AnswerTypes ==
    ASSUME NEW x \in [Exc -> Header], NEW e \in Exc, NEW fs \in Seq(Frame), NEW i \in 1 .. Len(fs)
    PROVE  Answer1(x, fs, e, i) \in Answers /\ Answer2(x, fs, e, i) \in Answers
<1>1. /\ SiteOf(fs[i]) \in Site /\ x[e].type \in Type /\ x[e].handlerSwitchValue \in Action
      /\ (x[e].kind # "foreign") \in BOOLEAN
  BY SiteOfFacts DEF Header
<1>2. ASSUME NEW s \in BOOLEAN, NEW n \in BOOLEAN
      PROVE scan_eh_tab(SiteOf(fs[i]), s, n, x[e].type) \in Answers
  <2>1. /\ scan_eh_tab(SiteOf(fs[i]), s, n, x[e].type).reason
                          \in {"found", "continue", "terminate"}
        /\ scan_eh_tab(SiteOf(fs[i]), s, n, x[e].type).sel \in Action
    <3>1. ScanOK(SiteOf(fs[i]), s, scan_eh_tab(SiteOf(fs[i]), s, n, x[e].type),
                 scan_eh_tab(SiteOf(fs[i]), FALSE, n, x[e].type))
      BY <1>1, ScanFacts
    <3> QED
      BY <3>1 DEF ScanOK
  <2>2. scan_eh_tab(SiteOf(fs[i]), s, n, x[e].type)
          = [reason |-> scan_eh_tab(SiteOf(fs[i]), s, n, x[e].type).reason,
             sel |-> scan_eh_tab(SiteOf(fs[i]), s, n, x[e].type).sel]
    BY DEF scan_eh_tab
  <2> QED
    BY <2>1, <2>2 DEF Answers
<1>3. [reason |-> "found", sel |-> x[e].handlerSwitchValue] \in Answers
  BY <1>1 DEF Answers
<1> QED
  BY <1>1, <1>2, <1>3 DEF Answer1, Answer2, personality_cleanup

LEMMA Phase1Is ==
    ASSUME NEW x \in [Exc -> Header], NEW e \in Exc, NEW fs \in Seq(Frame)
    PROVE  unwind_phase1(fs, x[e].kind # "foreign", x[e].type)
             = WalkOver(fs, [i \in 1 .. Len(fs) |-> Answer1(x, fs, e, i)])
<1> DEFINE A == [i \in 1 .. Len(fs) |-> Answer1(x, fs, e, i)]
           S == {i \in DOMAIN fs : Answer1(x, fs, e, i).reason # "continue"}
<1>1. S = {i \in DOMAIN fs : A[i].reason # "continue"} /\ S \in SUBSET (1 .. Len(fs))
  OBVIOUS
<1>2. unwind_phase1(fs, x[e].kind # "foreign", x[e].type)
        = IF S = {} THEN [reason |-> "end of stack", frame |-> 0, sel |-> "cleanup"]
          ELSE [reason |-> Answer1(x, fs, e, Max(S)).reason, frame |-> Max(S),
                sel |-> Answer1(x, fs, e, Max(S)).sel]
  BY DEF unwind_phase1, Walk, Answer1
<1>3. S # {} => Max(S) \in 1 .. Len(fs)
  BY <1>1, MaxFacts, LenProperties
<1>4. S # {} => A[Max(S)] = Answer1(x, fs, e, Max(S))
  BY <1>3
<1> QED
  BY <1>1, <1>2, <1>4 DEF WalkOver

LEMMA Phase2Is ==
    ASSUME NEW x \in [Exc -> Header], NEW e \in Exc, NEW fs \in Seq(Frame)
    PROVE  unwind_phase2(fs, x[e].kind # "foreign", x[e].type, x[e].private_2, x[e].handlerSwitchValue)
             = WalkOver(fs, [i \in 1 .. Len(fs) |-> Answer2(x, fs, e, i)])
<1> DEFINE A == [i \in 1 .. Len(fs) |-> Answer2(x, fs, e, i)]
           S == {i \in DOMAIN fs : Answer2(x, fs, e, i).reason # "continue"}
<1>1. S = {i \in DOMAIN fs : A[i].reason # "continue"} /\ S \in SUBSET (1 .. Len(fs))
  OBVIOUS
<1>2. unwind_phase2(fs, x[e].kind # "foreign", x[e].type, x[e].private_2, x[e].handlerSwitchValue)
        = IF S = {} THEN [reason |-> "end of stack", frame |-> 0, sel |-> "cleanup"]
          ELSE [reason |-> Answer2(x, fs, e, Max(S)).reason, frame |-> Max(S),
                sel |-> Answer2(x, fs, e, Max(S)).sel]
  BY DEF unwind_phase2, Walk, Answer2
<1>3. S # {} => Max(S) \in 1 .. Len(fs)
  BY <1>1, MaxFacts, LenProperties
<1>4. S # {} => A[Max(S)] = Answer2(x, fs, e, Max(S))
  BY <1>3
<1> QED
  BY <1>1, <1>2, <1>4 DEF WalkOver

\* Phase 1 ends at the first frame that catches the exception, or it fails.
LEMMA Phase1Facts ==
    ASSUME NEW x \in [Exc -> Header], NEW e \in Exc, NEW fs \in Seq(Frame), NEW w,
           w = unwind_phase1(fs, x[e].kind # "foreign", x[e].type), w.reason = "found"
    PROVE  \E p \in 1 .. Len(fs) :
              /\ w = [reason |-> "found", frame |-> p, sel |-> Answer1(x, fs, e, p).sel]
              /\ Answer1(x, fs, e, p).reason = "found"
              /\ \A i \in 1 .. Len(fs) : p < i => Answer1(x, fs, e, i).reason = "continue"
<1> DEFINE A == [i \in 1 .. Len(fs) |-> Answer1(x, fs, e, i)]
<1>1. A \in [1 .. Len(fs) -> Answers]
  BY AnswerTypes
<1>2. w = WalkOver(fs, A)
  BY Phase1Is
<1>3. Len(fs) \in Nat /\ DOMAIN fs = 1 .. Len(fs)
  BY LenProperties
<1>4. \A i \in 1 .. Len(fs) : A[i] = Answer1(x, fs, e, i)
  OBVIOUS
<1> HIDE DEF A
<1>5. PICK k \in 1 .. Len(fs) : /\ w = [reason |-> A[k].reason, frame |-> k, sel |-> A[k].sel]
                                /\ \A i \in 1 .. Len(fs) : k < i => A[i].reason = "continue"
  <2>0. \/ /\ WalkOver(fs, A).reason = "end of stack"
           /\ \A i \in 1 .. Len(fs) : A[i].reason = "continue"
        \/ \E k \in 1 .. Len(fs) :
              /\ WalkOver(fs, A) = [reason |-> A[k].reason, frame |-> k, sel |-> A[k].sel]
              /\ A[k].reason \in {"found", "terminate"} /\ A[k].sel \in Action
              /\ \A i \in 1 .. Len(fs) : k < i => A[i].reason = "continue"
    BY <1>1, <1>3, WalkFacts
  <2>1. w.reason # "end of stack"
    OBVIOUS
  <2> QED
    BY <1>2, <2>0, <2>1
<1> QED
  BY <1>4, <1>5

\* Phase 2 ends at the frame that phase 1 marked or at a cleanup above it, and
\* skips nothing but normal code.
LEMMA Phase2Facts ==
    ASSUME NEW x \in [Exc -> Header], NEW e \in Exc, NEW fs \in Seq(Frame),
           Marked(x, fs, e, Len(fs) + 1), NEW w,
           w = unwind_phase2(fs, x[e].kind # "foreign", x[e].type, x[e].private_2,
                             x[e].handlerSwitchValue)
    PROVE  \E k \in x[e].private_2 .. Len(fs) :
              /\ w.reason = "found" /\ w.frame = k
              /\ k = x[e].private_2 => w.sel = Answer1(x, fs, e, k).sel
              /\ k # x[e].private_2 => w.sel = "cleanup"
              /\ \A i \in 1 .. Len(fs) : k < i => fs[i].at = "code"
<1> DEFINE A == [i \in 1 .. Len(fs) |-> Answer2(x, fs, e, i)]
           p == x[e].private_2
<1>1. A \in [1 .. Len(fs) -> Answers]
  BY AnswerTypes
<1>2. w = WalkOver(fs, A)
  BY Phase2Is
<1>3. Len(fs) \in Nat /\ DOMAIN fs = 1 .. Len(fs)
  BY LenProperties
<1>4. \A i \in 1 .. Len(fs) : A[i] = Answer2(x, fs, e, i)
  OBVIOUS
<1> HIDE DEF A
<1>5. /\ p \in 1 .. Len(fs) /\ Answer1(x, fs, e, p).reason = "found"
      /\ \A i \in 1 .. Len(fs) : p < i => Answer1(x, fs, e, i).reason = "continue"
      /\ x[e].kind # "foreign" => x[e].handlerSwitchValue = Answer1(x, fs, e, p).sel
  BY <1>3 DEF Marked
<1>6. A[p].reason = "found" /\ A[p].sel = Answer1(x, fs, e, p).sel
  <2>1. CASE x[e].kind # "foreign"
    <3>1. A[p] = [reason |-> "found", sel |-> x[e].handlerSwitchValue]
      BY <1>4, <1>5, <2>1 DEF Answer2, personality_cleanup
    <3> QED
      BY <1>5, <2>1, <3>1
  <2>2. CASE x[e].kind = "foreign"
    <3>1. A[p] = Scan2(x, fs, e, p)
      BY <1>4, <1>5, <2>2 DEF Answer2, personality_cleanup, Scan2
    <3> QED
      BY <1>5, <3>1, AnswerFacts
  <2> QED
    BY <2>1, <2>2
<1>7. ASSUME NEW i \in 1 .. Len(fs), p < i
      PROVE  /\ A[i].reason # "terminate" /\ A[i].sel = "cleanup"
             /\ A[i].reason = "continue" => fs[i].at = "code"
  <2>1. A[i] = Scan2(x, fs, e, i)
    <3>1. i # p
      BY <1>5, <1>7
    <3> QED
      BY <1>4, <3>1 DEF Answer2, personality_cleanup, Scan2
  <2>2. Answer1(x, fs, e, i).reason = "continue"
    BY <1>5, <1>7
  <2>3. fs[i].at \in {"code", "handler", "pad", "leaving"}
    <3>1. fs[i] \in Frame
      OBVIOUS
    <3> QED
      BY <3>1 DEF Frame
  <2> QED
    BY <2>1, <2>2, <2>3, AnswerFacts
<1>8. PICK k \in 1 .. Len(fs) : /\ w = [reason |-> A[k].reason, frame |-> k, sel |-> A[k].sel]
                                /\ A[k].reason \in {"found", "terminate"}
                                /\ \A i \in 1 .. Len(fs) : k < i => A[i].reason = "continue"
  <2>0. \/ /\ WalkOver(fs, A).reason = "end of stack"
           /\ \A i \in 1 .. Len(fs) : A[i].reason = "continue"
        \/ \E k \in 1 .. Len(fs) :
              /\ WalkOver(fs, A) = [reason |-> A[k].reason, frame |-> k, sel |-> A[k].sel]
              /\ A[k].reason \in {"found", "terminate"} /\ A[k].sel \in Action
              /\ \A i \in 1 .. Len(fs) : k < i => A[i].reason = "continue"
    BY <1>1, <1>3, WalkFacts
  <2>1. ~(\A i \in 1 .. Len(fs) : A[i].reason = "continue")
    BY <1>5, <1>6
  <2> QED
    BY <1>2, <2>0, <2>1
<1>9. k >= p
  <2>1. k \in Int /\ p \in Int
    BY <1>3, <1>5
  <2>2. ~(k < p)
    BY <1>5, <1>6, <1>8
  <2> QED
    BY <2>1, <2>2
<1>10. k # p => p < k
  BY <1>5, <1>9
<1>11. w.reason = "found" /\ w.frame = k
  BY <1>6, <1>7, <1>8, <1>10
<1>12. (k = p => w.sel = Answer1(x, fs, e, k).sel) /\ (k # p => w.sel = "cleanup")
  BY <1>6, <1>7, <1>8, <1>10
<1>13. \A i \in 1 .. Len(fs) : k < i => fs[i].at = "code"
  <2>1. ASSUME NEW i \in 1 .. Len(fs), k < i PROVE fs[i].at = "code"
    <3>1. p < i
      BY <1>3, <1>5, <1>9, <2>1
    <3> QED
      BY <1>7, <1>8, <2>1, <3>1
  <2> QED
    BY <2>1
<1>14. k \in p .. Len(fs)
  BY <1>3, <1>5, <1>9
<1> QED
  BY <1>11, <1>12, <1>13, <1>14

-----------------------------------------------------------------------------
(***************************************************************************)
(* Moves that leave the clauses alone: calls, returns, landing.            *)
(***************************************************************************)
LEMMA ChainLocal ==
    ASSUME NEW fs, NEW gs, Len(fs) \in Nat, Len(gs) \in Nat, NEW x, NEW y,
           NEW i \in Nat, i >= 1, SameClauses(fs, gs, i), ChainAt(x, fs, i),
           Clause(fs[i]) /\ fs[i].caught # None =>
               /\ y[fs[i].caught].kind = x[fs[i].caught].kind
               /\ y[fs[i].caught].nextException = x[fs[i].caught].nextException
    PROVE  ChainAt(y, gs, i)
<1>1. HeadBelow(gs, i) = HeadBelow(fs, i)
  BY HeadSame
<1>2. /\ Clause(gs[i]) <=> Clause(fs[i])
      /\ gs[i].caught = fs[i].caught
      /\ \A j \in 1 .. i - 1 : (Clause(gs[j]) <=> Clause(fs[j])) /\ gs[j].caught = fs[j].caught
  BY DEF SameClauses
<1> HIDE DEF SameClauses, HeadBelow, Clause
<1> QED
  BY <1>1, <1>2 DEF ChainAt

LEMMA MarkedLocal ==
    ASSUME NEW fs, NEW gs, NEW x \in [Exc -> Header], NEW y \in [Exc -> Header], NEW e \in Exc,
           NEW i \in Nat, Marked(x, fs, e, i),
           \A j \in 1 .. i - 1 : gs[j].at = fs[j].at /\ gs[j].site = fs[j].site,
           /\ y[e].kind = x[e].kind /\ y[e].type = x[e].type
           /\ y[e].private_2 = x[e].private_2
           /\ y[e].handlerSwitchValue = x[e].handlerSwitchValue
    PROVE  Marked(y, gs, e, i)
<1>1. \A j \in 1 .. i - 1 : SiteOf(gs[j]) = SiteOf(fs[j])
  BY DEF SiteOf
<1>2. \A j \in 1 .. i - 1 : Answer1(y, gs, e, j) = Answer1(x, fs, e, j)
  BY <1>1 DEF Answer1
<1>3. x[e].private_2 \in Nat /\ x[e].private_2 \in 1 .. i - 1
  BY DEF Header, Marked
<1>4. \A k \in x[e].private_2 + 1 .. i - 1 : k \in 1 .. i - 1
  BY <1>3
<1> QED
  BY <1>2, <1>3, <1>4 DEF Marked

LEMMA AwaitLocal ==
    ASSUME NEW fs, NEW gs, NEW x \in [Exc -> Header], NEW y \in [Exc -> Header],
           NEW i \in Nat, fs[i].flying \in Exc \cup {None}, AwaitAt(x, fs, i),
           \A j \in 1 .. i - 1 : gs[j].at = fs[j].at /\ gs[j].site = fs[j].site,
           gs[i].flying = fs[i].flying /\ gs[i].sel = fs[i].sel /\ gs[i].site = fs[i].site,
           fs[i].flying # None =>
               /\ y[fs[i].flying].kind = x[fs[i].flying].kind
               /\ y[fs[i].flying].type = x[fs[i].flying].type
               /\ y[fs[i].flying].private_2 = x[fs[i].flying].private_2
               /\ y[fs[i].flying].handlerSwitchValue = x[fs[i].flying].handlerSwitchValue
    PROVE  AwaitAt(y, gs, i)
<1>1. CASE fs[i].flying = None
  BY <1>1 DEF AwaitAt
<1>2. CASE fs[i].flying # None
  <2>1. PICK e \in Exc : e = fs[i].flying
    BY <1>2
  <2>2. Marked(x, fs, e, i) => Marked(y, gs, e, i)
    BY <1>2, <2>1, MarkedLocal
  <2> QED
    BY <1>2, <2>1, <2>2 DEF AwaitAt
<1> QED
  BY <1>1, <1>2

\* What follows from the shape of the frames.
LEMMA ShapeFacts ==
    ASSUME NEW fs, ShapeOK(fs)
    PROVE  /\ fs \in Seq(Frame) /\ Len(fs) \in Nat /\ Len(fs) >= 1 /\ DOMAIN fs = 1 .. Len(fs)
           /\ \A i \in 1 .. Len(fs) :
                 /\ fs[i] \in Frame /\ FrameOK(fs[i])
                 /\ fs[i].at \in {"code", "pad", "handler", "leaving"}
                 /\ fs[i].flying \in Exc \cup {None} /\ fs[i].caught \in Exc \cup {None}
                 /\ fs[i].sel \in Action
                 /\ fs[i].caught # None => Clause(fs[i])
                 /\ fs[i].flying # None <=> fs[i].at \in {"pad", "leaving"}
           /\ None \notin Exc
           /\ \A e \in Exc : IsFiniteSet(Handlers(fs, e)) /\ Cardinality(Handlers(fs, e)) \in Nat
           /\ \A x : IsFiniteSet(NativeFlights(x, fs)) /\ Cardinality(NativeFlights(x, fs)) \in Nat
<1>1. fs \in Seq(Frame) /\ Len(fs) \in Nat /\ Len(fs) >= 1 /\ DOMAIN fs = 1 .. Len(fs)
  BY LenProperties DEF ShapeOK
<1>2. ASSUME NEW i \in 1 .. Len(fs)
      PROVE  /\ fs[i] \in Frame /\ FrameOK(fs[i])
             /\ fs[i].at \in {"code", "pad", "handler", "leaving"}
             /\ fs[i].flying \in Exc \cup {None} /\ fs[i].caught \in Exc \cup {None}
             /\ fs[i].sel \in Action
             /\ fs[i].caught # None => Clause(fs[i])
             /\ fs[i].flying # None <=> fs[i].at \in {"pad", "leaving"}
  <2>1. fs[i] \in Frame /\ FrameOK(fs[i])
    BY <1>1 DEF ShapeOK
  <2> QED
    BY <2>1 DEF Frame, FrameOK
<1>3. IsFiniteSet(1 .. Len(fs))
  BY <1>1, FS_Interval
<1>4. \A T : T \subseteq 1 .. Len(fs) => IsFiniteSet(T) /\ Cardinality(T) \in Nat
  BY <1>3, FS_Subset, FS_CardinalityType
<1>5. /\ \A e : Handlers(fs, e) \subseteq 1 .. Len(fs)
      /\ \A x : NativeFlights(x, fs) \subseteq 1 .. Len(fs)
  BY DEF Handlers, NativeFlights
<1>6. None \notin Exc
  BY ExceptionAssumption
<1> QED
  BY <1>1, <1>2, <1>4, <1>5, <1>6

\* A move keeps the clauses; what it does to flights is left to the caller.
Move(x, u, fs, gs, m) ==
    /\ ShapeOK(gs) /\ m \in Nat /\ SameClauses(fs, gs, m)
    /\ \A i \in 1 .. Len(fs) : m < i => ~Clause(fs[i])
    /\ \A i \in 1 .. Len(gs) : m < i => ~Clause(gs[i])
    /\ \A e \in Exc : (Flights(gs, e) = {}) <=> (Flights(fs, e) = {})
    /\ \A i \in 1 .. Len(gs) : FlightAt(x, gs, i)
    /\ u = Cardinality(NativeFlights(x, gs))

LEMMA StackMove ==
    ASSUME NEW x, NEW c, NEW u, NEW fs, StackOK(x, c, u, fs), NEW gs, NEW m, Move(x, u, fs, gs, m)
    PROVE  StackOK(x, c, u, gs) /\ Held(gs) = Held(fs)
<1>0. ShapeOK(fs) /\ ShapeOK(gs) /\ m \in Nat /\ SameClauses(fs, gs, m)
  BY DEF StackOK, Move
<1>a. /\ \A i \in 1 .. Len(fs) : m < i => ~Clause(fs[i])
      /\ \A i \in 1 .. Len(gs) : m < i => ~Clause(gs[i])
  BY DEF Move
<1>b. \A e \in Exc : (Flights(gs, e) = {}) <=> (Flights(fs, e) = {})
  BY DEF Move
<1>1. Len(fs) \in Nat /\ Len(gs) \in Nat /\ m <= Len(fs) /\ m <= Len(gs)
  BY <1>0, ShapeFacts DEF SameClauses
<1>2. ASSUME NEW e \in Exc PROVE Handlers(gs, e) = Handlers(fs, e)
  <2>1. None \notin Exc
    BY <1>0, ShapeFacts
  <2>2. \A i \in 1 .. Len(fs) : fs[i].caught = e => i <= m
    BY <1>0, <1>1, <1>a, <2>1, ShapeFacts
  <2>3. \A i \in 1 .. Len(gs) : gs[i].caught = e => i <= m
    BY <1>0, <1>1, <1>a, <2>1, ShapeFacts
  <2>4. \A i \in 1 .. m : gs[i].caught = fs[i].caught
    BY <1>0 DEF SameClauses
  <2> QED
    BY <1>0, <1>1, <2>2, <2>3, <2>4 DEF Handlers
<1>3. Held(gs) = Held(fs)
  BY <1>2, <1>b DEF Held
<1>4. ASSUME NEW i \in 1 .. Len(gs) PROVE ChainAt(x, gs, i)
  <2>1. CASE i <= m
    <3>1. i \in Nat /\ i >= 1 /\ SameClauses(fs, gs, i)
      BY <1>0, <1>1, <2>1 DEF SameClauses
    <3>2. ChainAt(x, fs, i)
      BY <1>0, <1>1, <2>1, <3>1 DEF StackOK
    <3> QED
      BY <1>1, <3>1, <3>2, ChainLocal
  <2>2. CASE ~(i <= m)
    BY <1>0, <1>1, <1>a, <2>2 DEF ChainAt
  <2> QED
    BY <2>1, <2>2
<1>5. ASSUME NEW e \in Held(gs) PROVE x[e].kind # "free" /\ CountAt(x, gs, e)
  <2>1. e \in Held(fs) /\ e \in Exc
    BY <1>3 DEF Held
  <2>2. x[e].kind # "free" /\ CountAt(x, fs, e)
    BY <2>1 DEF StackOK
  <2> QED
    BY <1>2, <1>b, <2>1, <2>2 DEF CountAt
<1>6. c = HeadBelow(gs, Len(gs) + 1)
  <2>1. HeadBelow(gs, Len(gs) + 1) = HeadBelow(gs, m + 1)
    BY <1>0, <1>1, <1>a, HeadSkips
  <2>2. HeadBelow(fs, Len(fs) + 1) = HeadBelow(fs, m + 1)
    BY <1>0, <1>1, <1>a, HeadSkips
  <2>3. HeadBelow(gs, m + 1) = HeadBelow(fs, m + 1)
    BY <1>0, <1>1, HeadSame
  <2> QED
    BY <2>1, <2>2, <2>3 DEF StackOK
<1> QED
  BY <1>0, <1>3, <1>4, <1>5, <1>6 DEF StackOK, Move

\* Frames of normal code come and go.
LEMMA CodeMove ==
    ASSUME NEW x, NEW c, NEW u, NEW fs, StackOK(x, c, u, fs), AwaitsOK(x, fs),
           NEW gs, ShapeOK(gs), NEW m \in Nat, m <= Len(fs), m <= Len(gs),
           \A i \in 1 .. m : gs[i] = fs[i],
           \A i \in 1 .. Len(fs) : m < i => fs[i].at = "code",
           \A i \in 1 .. Len(gs) : m < i => gs[i].at = "code"
    PROVE  StackOK(x, c, u, gs) /\ AwaitsOK(x, gs) /\ Held(gs) = Held(fs)
<1>0. ShapeOK(fs) /\ x \in [Exc -> Header]
  BY DEF StackOK
<1>1. Len(fs) \in Nat /\ Len(gs) \in Nat /\ None \notin Exc
  BY <1>0, ShapeFacts
<1>2. SameClauses(fs, gs, m)
  BY DEF SameClauses
<1>3. \A i \in 1 .. Len(fs) : m < i => ~Clause(fs[i]) /\ fs[i].flying = None /\ fs[i].caught = None
  BY <1>0, ShapeFacts DEF Clause
<1>4. \A i \in 1 .. Len(gs) : m < i => ~Clause(gs[i]) /\ gs[i].flying = None /\ gs[i].caught = None
  BY ShapeFacts DEF Clause
<1>5. \A e \in Exc : Flights(gs, e) = Flights(fs, e)
  <2>1. ASSUME NEW e \in Exc PROVE Flights(gs, e) = Flights(fs, e)
    <3>1. \A i \in 1 .. Len(fs) : fs[i].flying = e => i <= m
      BY <1>1, <1>3
    <3>2. \A i \in 1 .. Len(gs) : gs[i].flying = e => i <= m
      BY <1>1, <1>4
    <3> QED
      BY <1>1, <3>1, <3>2 DEF Flights
  <2> QED
    BY <2>1
<1>6. ASSUME NEW i \in 1 .. Len(gs) PROVE FlightAt(x, gs, i)
  <2>1. CASE m < i
    BY <1>4, <2>1 DEF FlightAt
  <2>2. CASE ~(m < i)
    <3>1. i \in 1 .. Len(fs) /\ i + 1 <= m + 1 /\ i + 1 \in Nat /\ gs[i] = fs[i]
      BY <1>1, <2>2
    <3>2. HeadBelow(gs, i + 1) = HeadBelow(fs, i + 1)
      BY <1>1, <1>2, <3>1, HeadSame
    <3>3. FlightAt(x, fs, i)
      BY <3>1 DEF StackOK
    <3>4. SUFFICES ASSUME gs[i].flying # None, NEW j \in 1 .. Len(gs)
                   PROVE  /\ gs[j].flying = gs[i].flying => i = j
                          /\ gs[j].caught = gs[i].flying =>
                               /\ j <= i /\ x[gs[i].flying].kind # "foreign"
                               /\ HeadBelow(gs, i + 1) = gs[i].flying
      BY DEF FlightAt
    <3>5. CASE m < j
      BY <1>4, <3>4, <3>5
    <3>6. CASE ~(m < j)
      <4>1. j \in 1 .. Len(fs) /\ gs[j] = fs[j]
        BY <1>1, <3>6
      <4> QED
        BY <3>1, <3>2, <3>3, <3>4, <4>1 DEF FlightAt
    <3> QED
      BY <3>5, <3>6
  <2> QED
    BY <2>1, <2>2
<1>7. NativeFlights(x, gs) = NativeFlights(x, fs)
  <2>1. \A i \in 1 .. Len(fs) : fs[i].flying # None => i <= m
    BY <1>1, <1>3
  <2>2. \A i \in 1 .. Len(gs) : gs[i].flying # None => i <= m
    BY <1>1, <1>4
  <2> QED
    BY <1>1, <2>1, <2>2 DEF NativeFlights
<1>8. u = Cardinality(NativeFlights(x, gs))
  BY <1>7 DEF StackOK
<1>9. StackOK(x, c, u, gs) /\ Held(gs) = Held(fs)
  <2>1. /\ \A i \in 1 .. Len(fs) : m < i => ~Clause(fs[i])
        /\ \A i \in 1 .. Len(gs) : m < i => ~Clause(gs[i])
    BY <1>3, <1>4
  <2>2. Move(x, u, fs, gs, m)
    BY <1>2, <1>5, <1>6, <1>8, <2>1 DEF Move
  <2> QED
    BY <2>2, StackMove
<1>10. ASSUME NEW i \in 1 .. Len(gs) PROVE AwaitAt(x, gs, i)
  <2>1. CASE m < i
    BY <1>4, <2>1 DEF AwaitAt
  <2>2. CASE ~(m < i)
    <3>1. i \in 1 .. Len(fs) /\ i \in Nat /\ gs[i] = fs[i]
      BY <1>1, <2>2
    <3>2. fs[i].flying \in Exc \cup {None}
      BY <1>0, <3>1, ShapeFacts
    <3>3. \A j \in 1 .. i - 1 : gs[j].at = fs[j].at /\ gs[j].site = fs[j].site
      BY <1>1, <2>2
    <3>4. AwaitAt(x, fs, i)
      BY <3>1 DEF AwaitsOK
    <3> QED
      BY <1>0, <3>1, <3>2, <3>3, <3>4, AwaitLocal
  <2> QED
    BY <2>1, <2>2
<1> QED
  BY <1>9, <1>10 DEF AwaitsOK

\* e flies in the landing pad on top; nothing is known yet of what phase 1
\* finds for it.
Airborne(x, c, u, fs, e) ==
    /\ StackOK(x, c, u, fs) /\ Len(fs) > 1 /\ e \in Exc
    /\ fs[Len(fs)].at = "pad" /\ fs[Len(fs)].flying = e /\ fs[Len(fs)].sel = "cleanup"
    /\ \A i \in 1 .. Len(fs) - 1 : AwaitAt(x, fs, i)

\* Control moves from the landing pad on top to that of a frame below, over
\* normal code.
LEMMA LandOK ==
    ASSUME NEW x, NEW c, NEW u, NEW fs, NEW e, Airborne(x, c, u, fs, e),
           NEW k \in 1 .. Len(fs) - 1,
           \A i \in 1 .. Len(fs) - 1 : k < i => fs[i].at = "code",
           NEW gs, ShapeOK(gs), Len(gs) = k, \A i \in 1 .. k - 1 : gs[i] = fs[i],
           fs[k].flying = None, gs[k].flying = e, gs[k].caught = fs[k].caught,
           Clause(gs[k]) <=> Clause(fs[k]), AwaitAt(x, gs, k)
    PROVE  StackOK(x, c, u, gs) /\ AwaitsOK(x, gs) /\ Held(gs) = Held(fs)
<1> DEFINE n == Len(fs)
<1>0. /\ StackOK(x, c, u, fs) /\ ShapeOK(fs) /\ x \in [Exc -> Header] /\ e \in Exc
      /\ fs[n].at = "pad" /\ fs[n].flying = e
      /\ \A i \in 1 .. n - 1 : AwaitAt(x, fs, i)
  BY DEF StackOK, Airborne
<1>1. n \in Nat /\ n > 1 /\ None \notin Exc /\ k \in Nat /\ k < n
  BY <1>0, ShapeFacts DEF Airborne
<1>2. SameClauses(fs, gs, k)
  BY <1>1 DEF SameClauses
<1>3. \A i \in 1 .. n : k < i => ~Clause(fs[i]) /\ fs[i].caught = None
  <2>1. \A i \in 1 .. n : k < i => fs[i].at \in {"code", "pad"}
    BY <1>0, <1>1
  <2> QED
    BY <1>0, <2>1, ShapeFacts DEF Clause
<1>4. \A i \in 1 .. n : k < i /\ i # n => fs[i].flying = None
  <2>1. ASSUME NEW i \in 1 .. n, k < i, i # n PROVE fs[i].at = "code"
    <3>1. i \in 1 .. n - 1
      BY <1>1, <2>1
    <3> QED
      BY <2>1, <3>1
  <2> QED
    BY <1>0, <2>1, ShapeFacts
<1>5. ASSUME NEW d \in Exc PROVE Flights(gs, d) = {} <=> Flights(fs, d) = {}
  <2>1. CASE d = e
    <3>1. k \in Flights(gs, d) /\ n \in Flights(fs, d)
      BY <1>0, <1>1, <2>1 DEF Flights
    <3> QED
      BY <3>1
  <2>2. CASE d # e
    <3>1. \A i \in 1 .. n : fs[i].flying = d => i < k
      BY <1>0, <1>1, <1>4, <2>2
    <3>2. \A i \in 1 .. k : gs[i].flying = d => i < k
      BY <1>1, <2>2
    <3>3. Flights(gs, d) = Flights(fs, d)
      BY <1>1, <3>1, <3>2 DEF Flights
    <3> QED
      BY <3>3
  <2> QED
    BY <2>1, <2>2
<1>a. \A i \in 1 .. k : gs[i].caught = fs[i].caught
  BY <1>1
<1>b. FlightAt(x, fs, n)
  BY <1>0, <1>1 DEF StackOK
<1>c. \A i \in 1 .. k - 1 : fs[i].flying # e
  BY <1>0, <1>1, <1>b DEF FlightAt
<1>6. ASSUME NEW i \in 1 .. Len(gs) PROVE FlightAt(x, gs, i)
  <2>1. CASE i < k
    <3>1. i \in 1 .. n /\ i + 1 <= k + 1 /\ i + 1 \in Nat /\ gs[i] = fs[i]
      BY <1>1, <2>1
    <3>2. HeadBelow(gs, i + 1) = HeadBelow(fs, i + 1)
      BY <1>1, <1>2, <3>1, HeadSame
    <3>3. FlightAt(x, fs, i) /\ fs[i].flying # e
      <4>1. FlightAt(x, fs, i)
        BY <1>0, <3>1 DEF StackOK
      <4>2. i \in 1 .. k - 1
        BY <1>1, <2>1
      <4> QED
        BY <1>c, <4>1, <4>2
    <3>4. SUFFICES ASSUME gs[i].flying # None, NEW j \in 1 .. Len(gs)
                   PROVE  /\ gs[j].flying = gs[i].flying => i = j
                          /\ gs[j].caught = gs[i].flying =>
                               /\ j <= i /\ x[gs[i].flying].kind # "foreign"
                               /\ HeadBelow(gs, i + 1) = gs[i].flying
      BY DEF FlightAt
    <3>5. j \in 1 .. n /\ gs[j].caught = fs[j].caught /\ (j < k => gs[j].flying = fs[j].flying)
          /\ (~(j < k) => gs[j].flying = e)
      BY <1>1, <1>a
    <3> QED
      BY <3>1, <3>2, <3>3, <3>4, <3>5 DEF FlightAt
  <2>2. CASE i = k
    <3>1. HeadBelow(gs, k + 1) = HeadBelow(fs, n + 1)
      <4>1. HeadBelow(fs, n + 1) = HeadBelow(fs, k + 1)
        BY <1>1, <1>3, HeadSkips
      <4>2. HeadBelow(gs, k + 1) = HeadBelow(fs, k + 1)
        BY <1>1, <1>2, HeadSame
      <4> QED
        BY <4>1, <4>2
    <3>2. SUFFICES ASSUME NEW j \in 1 .. Len(gs)
                   PROVE  /\ gs[j].flying = e => k = j
                          /\ gs[j].caught = e =>
                               /\ j <= k /\ x[e].kind # "foreign"
                               /\ HeadBelow(gs, k + 1) = e
      BY <2>2 DEF FlightAt
    <3>3. gs[j].flying = e => k = j
      BY <1>1, <1>c
    <3>4. gs[j].caught = e => x[e].kind # "foreign" /\ HeadBelow(fs, n + 1) = e
      <4>1. j \in 1 .. n /\ gs[j].caught = fs[j].caught
        BY <1>1, <1>a
      <4> QED
        BY <1>0, <1>1, <1>b, <4>1 DEF FlightAt
    <3> QED
      BY <1>1, <3>1, <3>3, <3>4
  <2> QED
    BY <1>1, <2>1, <2>2
<1>7. u = Cardinality(NativeFlights(x, gs))
  <2> DEFINE S == {i \in 1 .. k - 1 : fs[i].flying # None /\ x[fs[i].flying].kind # "foreign"}
  <2>0. u = Cardinality(NativeFlights(x, fs))
    BY <1>0 DEF StackOK
  <2>1. \A i \in 1 .. n : i < k \/ fs[i].flying = None \/ i = n
    BY <1>0, <1>1, <1>4
  <2>2. CASE x[e].kind = "foreign"
    <3>1. NativeFlights(x, fs) = S
      BY <1>0, <1>1, <2>1, <2>2 DEF NativeFlights
    <3>2. NativeFlights(x, gs) = S
      BY <1>1, <2>2 DEF NativeFlights
    <3> QED
      BY <2>0, <3>1, <3>2
  <2>3. CASE x[e].kind # "foreign"
    <3>1. NativeFlights(x, fs) = S \cup {n}
      BY <1>0, <1>1, <2>1, <2>3 DEF NativeFlights
    <3>2. NativeFlights(x, gs) = S \cup {k}
      BY <1>0, <1>1, <2>3 DEF NativeFlights
    <3>3. IsFiniteSet(S)
      <4>1. IsFiniteSet(NativeFlights(x, fs)) /\ S \subseteq NativeFlights(x, fs)
        BY <1>0, <3>1, ShapeFacts
      <4> QED
        BY <4>1, FS_Subset
    <3>4. n \notin S /\ k \notin S
      BY <1>1
    <3> HIDE DEF S
    <3>5. Cardinality(S \cup {n}) = Cardinality(S) + 1 /\ Cardinality(S \cup {k}) = Cardinality(S) + 1
      BY <3>3, <3>4, FS_AddElement
    <3> QED
      BY <2>0, <3>1, <3>2, <3>5
  <2> QED
    BY <2>2, <2>3
<1>8. \A i \in 1 .. Len(gs) : k < i => ~Clause(gs[i])
  BY <1>1
<1>9. StackOK(x, c, u, gs) /\ Held(gs) = Held(fs)
  <2>1. \A i \in 1 .. Len(fs) : k < i => ~Clause(fs[i])
    BY <1>3
  <2>2. \A d \in Exc : (Flights(gs, d) = {}) <=> (Flights(fs, d) = {})
    BY <1>5
  <2>3. Move(x, u, fs, gs, k)
    BY <1>1, <1>2, <1>6, <1>7, <1>8, <2>1, <2>2 DEF Move
  <2> QED
    BY <1>0, <2>3, StackMove
<1>10. ASSUME NEW i \in 1 .. Len(gs), i < k PROVE AwaitAt(x, gs, i)
  <2>1. i \in 1 .. n /\ i \in 1 .. n - 1 /\ i \in Nat /\ gs[i] = fs[i]
    BY <1>1, <1>10
  <2>2. fs[i].flying \in Exc \cup {None}
    BY <1>0, <2>1, ShapeFacts
  <2>3. \A j \in 1 .. i - 1 : gs[j].at = fs[j].at /\ gs[j].site = fs[j].site
    BY <1>1, <1>10
  <2>4. AwaitAt(x, fs, i)
    BY <1>0, <2>1
  <2> QED
    BY <1>0, <2>1, <2>2, <2>3, <2>4, AwaitLocal
<1>11. \A i \in 1 .. Len(gs) : i < k \/ i = k
  BY <1>1
<1> QED
  BY <1>9, <1>10, <1>11 DEF AwaitsOK

-----------------------------------------------------------------------------
(***************************************************************************)
(* Raising and resuming: the thread's state lands or the process ends.     *)
(***************************************************************************)
St(x, c, u, fs) == [exc |-> x, caught |-> c, uncaught |-> u, frames |-> fs,
                    process |-> "running"]

\* The headers after e has been caught on top of c.
Caught(x, c, e) ==
    [x EXCEPT ![e] = [x[e] EXCEPT
        !.handlerCount = HandlerCountOnCatch(x[e].handlerCount),
        !.nextException = IF c = e THEN x[e].nextException ELSE c,
        !.private_2 = 0, !.handlerSwitchValue = "cleanup"]]

LEMMA CaughtFacts ==
    ASSUME NEW x \in [Exc -> Header], NEW e \in Exc, NEW c \in Exc \cup {None}
    PROVE  /\ Caught(x, c, e) \in [Exc -> Header]
           /\ \A d \in Exc : d # e => Caught(x, c, e)[d] = x[d]
           /\ \A d \in Exc : /\ Caught(x, c, e)[d].kind = x[d].kind
                             /\ Caught(x, c, e)[d].type = x[d].type
                             /\ Caught(x, c, e)[d].primary = x[d].primary
                             /\ Caught(x, c, e)[d].referenceCount = x[d].referenceCount
           /\ Caught(x, c, e)[e].handlerCount = HandlerCountOnCatch(x[e].handlerCount)
           /\ Caught(x, c, e)[e].nextException = IF c = e THEN x[e].nextException ELSE c
<1>1. x[e] \in Header
  OBVIOUS
<1>2. HandlerCountOnCatch(x[e].handlerCount) \in Int
  BY <1>1 DEF HandlerCountOnCatch, Header
<1>3. "cleanup" \in Action
  BY DEF Action
<1>4. [x[e] EXCEPT
        !.handlerCount = HandlerCountOnCatch(x[e].handlerCount),
        !.nextException = IF c = e THEN x[e].nextException ELSE c,
        !.private_2 = 0, !.handlerSwitchValue = "cleanup"] \in Header
  BY <1>1, <1>2, <1>3 DEF Header
<1>5. Caught(x, c, e) \in [Exc -> Header]
  BY <1>4 DEF Caught
<1> QED
  BY <1>1, <1>5 DEF Caught, Header

LEMMA BeginCatchNative ==
    ASSUME NEW x \in [Exc -> Header], NEW e \in Exc, NEW c \in Exc \cup {None}, NEW u, NEW fs,
           x[e].kind \in {"native", "dependent"}
    PROVE  begin_catch(St(x, c, u, fs), e) = St(Caught(x, c, e), e, u - 1, fs)
BY ZenonT(40) DEF begin_catch, Native, St, Caught, NextAfterPush

LEMMA BeginCatchAlone ==
    ASSUME NEW x \in [Exc -> Header], NEW e \in Exc, NEW u, NEW fs, x[e].kind = "foreign"
    PROVE  begin_catch(St(x, None, u, fs), e) = St(x, e, u, fs)
BY DEF begin_catch, Native, St

LEMMA BeginCatchForeign ==
    ASSUME NEW x \in [Exc -> Header], NEW e \in Exc, NEW c \in Exc, NEW u, NEW fs,
           x[e].kind = "foreign"
    PROVE  begin_catch(St(x, c, u, fs), e) = [St(x, c, u, fs) EXCEPT !.process = "terminated"]
BY ExceptionAssumption DEF begin_catch, Native, St, terminate

\* The process has ended and the counters still agree.
Died(x, fs, r) ==
    /\ r.process \in {"terminated"} \cup Exc /\ r.exc \in [Exc -> Header]
    /\ r.caught \in Exc \cup {None} /\ r.frames = fs
    /\ \A d \in Exc : r.exc[d].kind = x[d].kind
    /\ r.uncaught = Cardinality(NativeFlights(x, fs))
    /\ r = [exc |-> r.exc, caught |-> r.caught, uncaught |-> r.uncaught,
            frames |-> r.frames, process |-> r.process]

LEMMA FailedThrow ==
    ASSUME NEW x \in [Exc -> Header], NEW e \in Exc, NEW c \in Exc \cup {None},
           NEW u \in Int, NEW fs, x[e].kind # "free",
           Cardinality(NativeFlights(x, fs)) = IF x[e].kind = "foreign" THEN u ELSE u - 1
    PROVE  Died(x, fs, failed_throw(St(x, c, u, fs), e))
<1>0. "running" \notin Exc /\ x[e].kind \in {"native", "dependent", "foreign"}
  BY ExceptionAssumption DEF Header
<1>1. CASE x[e].kind \in {"native", "dependent"}
  <2>1. failed_throw(St(x, c, u, fs), e)
          = [exc |-> Caught(x, c, e), caught |-> e, uncaught |-> u - 1, frames |-> fs, process |-> e]
    <3>1. PICK b : b = begin_catch(St(x, c, u, fs), e)
      OBVIOUS
    <3>2. b = St(Caught(x, c, e), e, u - 1, fs)
      BY <1>1, <3>1, BeginCatchNative
    <3>3. failed_throw(St(x, c, u, fs), e) = IF b.process = "running" THEN terminate(b, e) ELSE b
      BY <3>1 DEF failed_throw
    <3> QED
      BY <3>2, <3>3 DEF St, terminate
  <2>2. \A d \in Exc : Caught(x, c, e)[d].kind = x[d].kind
    BY CaughtFacts
  <2> QED
    BY <1>1, <2>1, <2>2, CaughtFacts DEF Died
<1>2. CASE x[e].kind = "foreign" /\ c # None
  <2>1. failed_throw(St(x, c, u, fs), e)
          = [exc |-> x, caught |-> c, uncaught |-> u, frames |-> fs, process |-> "terminated"]
    <3>1. PICK b : b = begin_catch(St(x, c, u, fs), e)
      OBVIOUS
    <3>2. b = [St(x, c, u, fs) EXCEPT !.process = "terminated"]
      BY <1>2, <3>1, BeginCatchForeign
    <3>3. failed_throw(St(x, c, u, fs), e) = IF b.process = "running" THEN terminate(b, e) ELSE b
      BY <3>1 DEF failed_throw
    <3> QED
      BY <3>2, <3>3 DEF St, terminate
  <2> QED
    BY <1>2, <2>1 DEF Died
<1>3. CASE x[e].kind = "foreign" /\ c = None
  <2>1. failed_throw(St(x, c, u, fs), e)
          = [exc |-> x, caught |-> e, uncaught |-> u, frames |-> fs, process |-> e]
    <3>1. PICK b : b = begin_catch(St(x, c, u, fs), e)
      OBVIOUS
    <3>2. b = St(x, e, u, fs)
      BY <1>3, <3>1, BeginCatchAlone
    <3>3. failed_throw(St(x, c, u, fs), e) = IF b.process = "running" THEN terminate(b, e) ELSE b
      BY <3>1 DEF failed_throw
    <3> QED
      BY <3>2, <3>3 DEF St, terminate
  <2> QED
    BY <1>3, <2>1 DEF Died
<1> QED
  BY <1>0, <1>1, <1>2, <1>3

LEMMA PopFacts ==
    ASSUME NEW fs, ShapeOK(fs), Len(fs) > 1
    PROVE  /\ Pop(fs) \in Seq(Frame) /\ Len(Pop(fs)) = Len(fs) - 1
           /\ \A i \in 1 .. Len(fs) - 1 : Pop(fs)[i] = fs[i]
           /\ ShapeOK(Pop(fs))
<1>1. fs \in Seq(Frame) /\ Len(fs) \in Nat
  BY ShapeFacts
<1>2. Pop(fs) \in Seq(Frame) /\ Len(Pop(fs)) = Len(fs) - 1
  BY <1>1 DEF Pop
<1>3. \A i \in 1 .. Len(fs) - 1 : Pop(fs)[i] = fs[i]
  BY <1>1 DEF Pop
<1>4. ShapeOK(Pop(fs))
  BY <1>1, <1>2, <1>3 DEF ShapeOK
<1> QED
  BY <1>2, <1>3, <1>4

LEMMA HeadType ==
    ASSUME NEW fs, ShapeOK(fs), NEW n \in Nat
    PROVE  HeadBelow(fs, n) \in Exc \cup {None}
<1>1. Len(fs) \in Nat /\ \A m \in 1 .. Len(fs) : fs[m].caught \in Exc \cup {None}
  BY ShapeFacts
<1> QED
  BY <1>1, HeadIs

LEMMA AirborneFacts ==
    ASSUME NEW x, NEW c, NEW u, NEW fs, NEW e, Airborne(x, c, u, fs, e)
    PROVE  /\ x \in [Exc -> Header] /\ ShapeOK(fs) /\ Len(fs) \in Nat /\ Len(fs) > 1
           /\ e \in Exc /\ c \in Exc \cup {None} /\ u \in Nat
           /\ x[e].kind \in {"native", "dependent", "foreign"}
           /\ Cardinality(NativeFlights(x, Pop(fs))) = IF x[e].kind = "foreign" THEN u ELSE u - 1
           /\ \A c2, u2, gs : Native(St(x, c2, u2, gs), e) = (x[e].kind # "foreign")
<1> DEFINE n == Len(fs)
<1>1. /\ x \in [Exc -> Header] /\ ShapeOK(fs) /\ n > 1 /\ e \in Exc /\ fs[n].flying = e
      /\ c = HeadBelow(fs, n + 1) /\ u = Cardinality(NativeFlights(x, fs))
  BY DEF Airborne, StackOK
<1>2. n \in Nat /\ None \notin Exc /\ n + 1 \in Nat
  BY <1>1, ShapeFacts
<1>3. c \in Exc \cup {None}
  BY <1>1, <1>2, HeadType
<1>4. x[e].kind \in {"native", "dependent", "foreign"}
  <2>1. n \in Flights(fs, e)
    BY <1>1, <1>2 DEF Flights
  <2>2. e \in Held(fs)
    BY <1>1, <2>1 DEF Held
  <2>3. x[e].kind # "free"
    BY <2>2 DEF Airborne, StackOK
  <2> QED
    BY <1>1, <2>3 DEF Header
<1>5. u \in Nat /\ IsFiniteSet(NativeFlights(x, fs))
  BY <1>1, ShapeFacts
<1>6. Len(Pop(fs)) = n - 1 /\ \A i \in 1 .. n - 1 : Pop(fs)[i] = fs[i]
  BY <1>1, PopFacts
<1>7. Cardinality(NativeFlights(x, Pop(fs))) = IF x[e].kind = "foreign" THEN u ELSE u - 1
  <2>1. NativeFlights(x, Pop(fs)) = NativeFlights(x, fs) \ {n}
    BY <1>1, <1>2, <1>6 DEF NativeFlights
  <2>2. n \in NativeFlights(x, fs) <=> x[e].kind # "foreign"
    BY <1>1, <1>2 DEF NativeFlights
  <2>3. PICK T : T = NativeFlights(x, fs)
    OBVIOUS
  <2>4. Cardinality(T \ {n}) = IF n \in T THEN Cardinality(T) - 1 ELSE Cardinality(T)
    BY <1>5, <2>3, FS_RemoveElement
  <2> QED
    BY <1>1, <2>1, <2>2, <2>3, <2>4
<1>8. \A c2, u2, gs : Native(St(x, c2, u2, gs), e) = (x[e].kind # "foreign")
  BY <1>4 DEF Native, St
<1> QED
  BY <1>1, <1>2, <1>3, <1>4, <1>5, <1>7, <1>8

\* Of the headers, e's may have changed, but not what the references depend on.
OnlyTouched(x, y, e) ==
    /\ y \in [Exc -> Header]
    /\ \A d \in Exc : d # e => y[d] = x[d]
    /\ y[e].kind = x[e].kind /\ y[e].primary = x[e].primary
    /\ y[e].referenceCount = x[e].referenceCount

Landed(x, fs, e, r) ==
    /\ r = St(r.exc, r.caught, r.uncaught, r.frames)
    /\ StackOK(r.exc, r.caught, r.uncaught, r.frames) /\ AwaitsOK(r.exc, r.frames)
    /\ Held(r.frames) = Held(fs)
    /\ OnlyTouched(x, r.exc, e)

\* The landing pad of frame k is entered.
Entered(f, e, sel) ==
    IF f.at = "handler" THEN [f EXCEPT !.at = "leaving", !.flying = e]
    ELSE [f EXCEPT !.at = "pad", !.flying = e, !.sel = sel]

LEMMA EnteredFacts ==
    ASSUME NEW f \in Frame, FrameOK(f), f.at \in {"code", "handler"}, NEW e \in Exc, NEW s \in Action
    PROVE  /\ Entered(f, e, s) \in Frame /\ FrameOK(Entered(f, e, s))
           /\ Entered(f, e, s).flying = e /\ Entered(f, e, s).caught = f.caught
           /\ Entered(f, e, s).site = f.site
           /\ f.at = "handler" => Entered(f, e, s).sel = "cleanup"
           /\ f.at = "code" => Entered(f, e, s).sel = s
           /\ Clause(Entered(f, e, s)) <=> Clause(f)
<1>0. None \notin Exc
  BY ExceptionAssumption
<1>1. CASE f.at = "handler"
  BY <1>0, <1>1 DEF Entered, Frame, FrameOK, Clause
<1>2. CASE f.at = "code"
  BY <1>0, <1>2 DEF Entered, Frame, FrameOK, Clause
<1> QED
  BY <1>1, <1>2

\* Phase 2 from a landing pad for which the header is marked.
LEMMA Phase2Lands ==
    ASSUME NEW x, NEW c, NEW u, NEW fs, NEW e, Airborne(x, c, u, fs, e),
           Marked(x, fs, e, Len(fs)), NEW w,
           w = unwind_phase2(Pop(fs), x[e].kind # "foreign", x[e].type, x[e].private_2,
                             x[e].handlerSwitchValue)
    PROVE  /\ w.reason = "found"
           /\ LET r == Land(St(x, c, u, Pop(fs)), e, w)
              IN  Died(x, Pop(fs), r) \/ Landed(x, fs, e, r)
<1> DEFINE n == Len(fs)
           ps == Pop(fs)
           p == x[e].private_2
<1>1. /\ x \in [Exc -> Header] /\ ShapeOK(fs) /\ n \in Nat /\ n > 1 /\ e \in Exc
      /\ c \in Exc \cup {None} /\ u \in Nat /\ x[e].kind \in {"native", "dependent", "foreign"}
      /\ Cardinality(NativeFlights(x, ps)) = IF x[e].kind = "foreign" THEN u ELSE u - 1
  BY AirborneFacts
<1>2. /\ ps \in Seq(Frame) /\ Len(ps) = n - 1 /\ \A i \in 1 .. n - 1 : ps[i] = fs[i]
      /\ ShapeOK(ps)
  BY <1>1, PopFacts
<1> HIDE DEF ps
<1>3. Marked(x, ps, e, Len(ps) + 1)
  <2>1. \A j \in 1 .. n - 1 : ps[j].at = fs[j].at /\ ps[j].site = fs[j].site
    BY <1>2
  <2>2. Marked(x, ps, e, n)
    BY <1>1, <2>1, MarkedLocal
  <2>3. Len(ps) + 1 = n
    BY <1>1, <1>2
  <2> QED
    BY <2>2, <2>3
<1>4. PICK k \in p .. Len(ps) :
              /\ w.reason = "found" /\ w.frame = k
              /\ k = p => w.sel = Answer1(x, ps, e, k).sel
              /\ k # p => w.sel = "cleanup"
              /\ \A i \in 1 .. Len(ps) : k < i => ps[i].at = "code"
  <2>1. w = unwind_phase2(ps, x[e].kind # "foreign", x[e].type, x[e].private_2,
                          x[e].handlerSwitchValue)
    BY DEF ps
  <2> QED
    BY <1>1, <1>2, <1>3, <2>1, Phase2Facts, SMTT(30)
<1>5. /\ p \in 1 .. n - 1 /\ Answer1(x, ps, e, p).reason = "found"
      /\ \A i \in p + 1 .. n - 1 : Answer1(x, ps, e, i).reason = "continue"
      /\ x[e].kind # "foreign" => x[e].handlerSwitchValue = Answer1(x, ps, e, p).sel
  <2>1. Len(ps) + 1 - 1 = n - 1
    BY <1>1, <1>2
  <2> QED
    BY <1>3, <2>1 DEF Marked
<1>6. k \in 1 .. n - 1 /\ k \in Nat
  BY <1>1, <1>2, <1>4, <1>5
<1>7. ps[k] = fs[k] /\ ps[k] \in Frame /\ FrameOK(ps[k])
      /\ ps[k].at \in {"code", "pad", "handler", "leaving"}
      /\ (ps[k].flying # None <=> ps[k].at \in {"pad", "leaving"})
  BY <1>2, <1>6, ShapeFacts
<1>8. CASE ps[k].at \in {"pad", "leaving"}
  <2>1. Land(St(x, c, u, ps), e, w) = failed_throw(St(x, c, u, ps), e)
    BY <1>4, <1>8 DEF Land, St
  <2>2. Died(x, ps, failed_throw(St(x, c, u, ps), e))
    BY <1>1, FailedThrow
  <2> QED
    BY <1>4, <2>1, <2>2 DEF ps
<1>9. CASE ps[k].at \in {"code", "handler"}
  <2> DEFINE f == Entered(ps[k], e, w.sel)
             gs == Append(SubSeq(ps, 1, k - 1), f)
  <2>1. Land(St(x, c, u, ps), e, w) = St(x, c, u, gs)
    <3>1. ~(ps[k].at \in {"pad", "leaving"})
      BY <1>9
    <3> QED
      BY <1>4, <3>1 DEF Land, St, Entered
  <2>2. w.sel \in Action
    <3>1. Answer1(x, ps, e, k) \in Answers
      BY <1>1, <1>2, <1>6, AnswerTypes
    <3>2. Answer1(x, ps, e, k).sel \in Action /\ "cleanup" \in Action
      BY <3>1 DEF Answers, Action
    <3> QED
      BY <1>4, <3>2
  <2>3. /\ f \in Frame /\ FrameOK(f) /\ f.flying = e /\ f.caught = ps[k].caught
        /\ f.site = ps[k].site
        /\ ps[k].at = "handler" => f.sel = "cleanup"
        /\ ps[k].at = "code" => f.sel = w.sel
        /\ Clause(f) <=> Clause(ps[k])
    BY <1>1, <1>7, <1>9, <2>2, EnteredFacts
  <2> HIDE DEF f
  <2>4. /\ gs \in Seq(Frame) /\ Len(gs) = k /\ gs[k] = f
        /\ \A i \in 1 .. k - 1 : gs[i] = ps[i]
    <3>1. SubSeq(ps, 1, k - 1) \in Seq(Frame) /\ Len(SubSeq(ps, 1, k - 1)) = k - 1
      BY <1>1, <1>2, <1>6
    <3>2. \A i \in 1 .. k - 1 : SubSeq(ps, 1, k - 1)[i] = ps[i]
      BY <1>1, <1>2, <1>6
    <3> QED
      BY <1>6, <2>3, <3>1, <3>2
  <2> HIDE DEF gs
  <2>5. k # 1
    <3>1. ps[1].at = "code" /\ ps[1].site = NoPad
      BY <1>2 DEF ShapeOK
    <3>2. 1 \in 1 .. Len(ps)
      BY <1>1, <1>2
    <3>3. Answer1(x, ps, e, 1).reason = "continue"
      BY <1>1, <1>2, <3>1, <3>2, AnswerFacts
    <3> QED
      <4>1. SUFFICES ASSUME k = 1 PROVE FALSE
        OBVIOUS
      <4>2. p = 1
        BY <1>4, <1>5, <4>1
      <4> QED
        BY <1>5, <3>3, <4>2
  <2>6. ShapeOK(gs)
    <3>1. \A i \in 1 .. k : FrameOK(gs[i])
      BY <1>2, <1>6, <2>3, <2>4 DEF ShapeOK
    <3>2. gs[1] = ps[1]
      BY <1>6, <2>4, <2>5
    <3> QED
      BY <1>2, <1>6, <2>4, <3>1, <3>2 DEF ShapeOK
  <2>7. AwaitAt(x, gs, k)
    <3>0. gs[k].flying = e /\ e # None
      BY <1>1, <2>3, <2>4, ShapeFacts
    <3>1. CASE k = p
      <4>1. Answer1(x, ps, e, k).reason = "found"
        BY <1>5, <3>1
      <4>2. k \in 1 .. Len(ps)
        BY <1>2, <1>6
      <4>3. ps[k].at # "handler" /\ Answer1(x, ps, e, k).sel # "cleanup"
        BY <1>1, <1>2, <4>1, <4>2, AnswerFacts
      <4>4. ps[k].at = "code"
        BY <1>9, <4>3
      <4>5. gs[k].sel = Answer1(x, ps, e, k).sel /\ gs[k].site = ps[k].site
        BY <1>4, <2>3, <2>4, <3>1, <4>4
      <4>6. SiteOf(ps[k]) = gs[k].site
        BY <1>7, <4>4, <4>5, SiteOfFacts
      <4> QED
        BY <3>0, <3>1, <4>3, <4>5, <4>6 DEF AwaitAt, Answer1
    <3>2. CASE k # p
      <4>1. gs[k].sel = "cleanup"
        BY <1>4, <1>9, <2>3, <2>4, <3>2
      <4>2. Marked(x, ps, e, k)
        <5>1. p \in 1 .. k - 1
          BY <1>1, <1>4, <1>5, <1>6, <3>2
        <5>2. \A i \in p + 1 .. k - 1 : i \in p + 1 .. n - 1
          BY <1>1, <1>5, <1>6
        <5> QED
          BY <1>5, <5>1, <5>2 DEF Marked
      <4>3. \A j \in 1 .. k - 1 : gs[j].at = ps[j].at /\ gs[j].site = ps[j].site
        BY <2>4
      <4>4. Marked(x, gs, e, k)
        BY <1>1, <1>6, <4>2, <4>3, MarkedLocal
      <4> QED
        BY <3>0, <4>1, <4>4 DEF AwaitAt
    <3> QED
      BY <3>1, <3>2
  <2>8. StackOK(x, c, u, gs) /\ AwaitsOK(x, gs) /\ Held(gs) = Held(fs)
    <3>1. \A i \in 1 .. Len(fs) - 1 : k < i => fs[i].at = "code"
      BY <1>2, <1>4
    <3>2. \A i \in 1 .. k - 1 : gs[i] = fs[i]
      BY <1>1, <1>2, <1>6, <2>4
    <3>3. /\ fs[k].flying = None /\ gs[k].flying = e /\ gs[k].caught = fs[k].caught
          /\ Clause(gs[k]) <=> Clause(fs[k])
      BY <1>7, <1>9, <2>3, <2>4
    <3> QED
      BY <1>6, <2>4, <2>6, <2>7, <3>1, <3>2, <3>3, LandOK
  <2>9. Landed(x, fs, e, St(x, c, u, gs))
    BY <1>1, <2>8 DEF Landed, St, OnlyTouched
  <2> QED
    BY <1>4, <2>1, <2>9 DEF ps
<1> QED
  BY <1>7, <1>8, <1>9

LEMMA ResumeOutcome ==
    ASSUME NEW x, NEW c, NEW u, NEW fs, NEW e, Airborne(x, c, u, fs, e), Marked(x, fs, e, Len(fs)),
           NEW hs, Pop(hs) = Pop(fs)
    PROVE  LET r == Resume(St(x, c, u, hs), e)
           IN  Died(x, Pop(fs), r) \/ Landed(x, fs, e, r)
<1> DEFINE g == St(x, c, u, Pop(fs))
           w == unwind_phase2(Pop(fs), x[e].kind # "foreign", x[e].type, x[e].private_2,
                              x[e].handlerSwitchValue)
<1>1. Native(g, e) = (x[e].kind # "foreign")
  BY AirborneFacts
<1>2. [St(x, c, u, hs) EXCEPT !.frames = Pop(@)] = g
  BY DEF St
<1>3. g.exc = x /\ g.frames = Pop(fs)
  BY DEF St
<1>4. w.reason = "found" /\ (Died(x, Pop(fs), Land(g, e, w)) \/ Landed(x, fs, e, Land(g, e, w)))
  BY Phase2Lands
<1>5. w = unwind_phase2(g.frames, Native(g, e), g.exc[e].type, g.exc[e].private_2,
                        g.exc[e].handlerSwitchValue)
  BY <1>1, <1>3
<1> HIDE DEF g, w
<1>6. Resume(St(x, c, u, hs), e) = Land(g, e, w)
  BY <1>2, <1>4, <1>5 DEF Resume, Phase2
<1> QED
  BY <1>4, <1>6

\* The headers after phase 1 found a handler for e in frame p.
Remember(x, e, p, s) == [x EXCEPT ![e] = [x[e] EXCEPT !.private_2 = p, !.handlerSwitchValue = s]]

LEMMA RememberFacts ==
    ASSUME NEW x \in [Exc -> Header], NEW e \in Exc, NEW p \in Nat, NEW s \in Action
    PROVE  /\ Remember(x, e, p, s) \in [Exc -> Header]
           /\ \A d \in Exc : d # e => Remember(x, e, p, s)[d] = x[d]
           /\ \A d \in Exc : /\ Remember(x, e, p, s)[d].kind = x[d].kind
                             /\ Remember(x, e, p, s)[d].type = x[d].type
                             /\ Remember(x, e, p, s)[d].primary = x[d].primary
                             /\ Remember(x, e, p, s)[d].referenceCount = x[d].referenceCount
                             /\ Remember(x, e, p, s)[d].handlerCount = x[d].handlerCount
                             /\ Remember(x, e, p, s)[d].nextException = x[d].nextException
           /\ Remember(x, e, p, s)[e].private_2 = p
           /\ Remember(x, e, p, s)[e].handlerSwitchValue = s
<1>1. x[e] \in Header
  OBVIOUS
<1>2. [x[e] EXCEPT !.private_2 = p, !.handlerSwitchValue = s] \in Header
  BY <1>1 DEF Header
<1>3. Remember(x, e, p, s) \in [Exc -> Header]
  BY <1>2 DEF Remember
<1> QED
  BY <1>1, <1>3 DEF Remember, Header

LEMMA MarkIs ==
    ASSUME NEW x \in [Exc -> Header], NEW e \in Exc, NEW c, NEW u, NEW fs, NEW w
    PROVE  Mark(St(x, c, u, fs), e, w) = St(Remember(x, e, w.frame, w.sel), c, u, fs)
<1>1. PICK g : g = St(x, c, u, fs)
  OBVIOUS
<1>2. g = [exc |-> x, caught |-> c, uncaught |-> u, frames |-> fs, process |-> "running"]
  BY <1>1 DEF St
<1>3. x[e] \in Header
  OBVIOUS
<1>4. [[x EXCEPT ![e] = [x[e] EXCEPT !.private_2 = w.frame]]
         EXCEPT ![e] = [@ EXCEPT !.handlerSwitchValue = w.sel]] = Remember(x, e, w.frame, w.sel)
  BY <1>3 DEF Remember, Header
<1> HIDE DEF Remember
<1>5. Mark(g, e, w) = [g EXCEPT !.exc =
         [[x EXCEPT ![e] = [x[e] EXCEPT !.private_2 = w.frame]]
             EXCEPT ![e] = [@ EXCEPT !.handlerSwitchValue = w.sel]]]
  BY <1>2 DEF Mark
<1>6. Mark(g, e, w) = [g EXCEPT !.exc = Remember(x, e, w.frame, w.sel)]
  BY <1>4, <1>5
<1>7. [g EXCEPT !.exc = Remember(x, e, w.frame, w.sel)]
        = St(Remember(x, e, w.frame, w.sel), c, u, fs)
  BY <1>2 DEF St
<1> QED
  BY <1>1, <1>6, <1>7

\* Headers that agree on what the stack depends on are as good.
AgreeOn(x, y, H) ==
    /\ y \in [Exc -> Header]
    /\ \A d \in H : /\ y[d].kind = x[d].kind /\ y[d].handlerCount = x[d].handlerCount
                    /\ y[d].nextException = x[d].nextException

LEMMA StackAgrees ==
    ASSUME NEW x, NEW c, NEW u, NEW fs, StackOK(x, c, u, fs), NEW y, AgreeOn(x, y, Held(fs))
    PROVE  StackOK(y, c, u, fs)
<1>1. ShapeOK(fs) /\ Len(fs) \in Nat /\ None \notin Exc
  BY ShapeFacts DEF StackOK
<1>2. ASSUME NEW i \in 1 .. Len(fs)
      PROVE  /\ fs[i].caught # None => fs[i].caught \in Held(fs)
             /\ fs[i].flying # None => fs[i].flying \in Held(fs)
  <2>1. fs[i].flying \in Exc \cup {None} /\ fs[i].caught \in Exc \cup {None}
    BY <1>1, ShapeFacts
  <2>2. i \in Handlers(fs, fs[i].caught) /\ i \in Flights(fs, fs[i].flying)
    BY DEF Handlers, Flights
  <2> QED
    BY <2>1, <2>2 DEF Held
<1>3. ASSUME NEW i \in 1 .. Len(fs) PROVE ChainAt(y, fs, i)
  <2>1. ChainAt(x, fs, i)
    BY DEF StackOK
  <2>2. fs[i].caught # None => /\ y[fs[i].caught].kind = x[fs[i].caught].kind
                               /\ y[fs[i].caught].nextException = x[fs[i].caught].nextException
    BY <1>2 DEF AgreeOn
  <2>3. i \in Nat /\ i >= 1 /\ SameClauses(fs, fs, i)
    BY <1>1 DEF SameClauses
  <2> QED
    BY <1>1, <2>1, <2>2, <2>3, ChainLocal
<1>4. ASSUME NEW i \in 1 .. Len(fs) PROVE FlightAt(y, fs, i)
  <2>1. FlightAt(x, fs, i)
    BY DEF StackOK
  <2>2. fs[i].flying # None => y[fs[i].flying].kind = x[fs[i].flying].kind
    BY <1>2 DEF AgreeOn
  <2> QED
    BY <2>1, <2>2 DEF FlightAt
<1>5. ASSUME NEW e \in Held(fs) PROVE y[e].kind # "free" /\ CountAt(y, fs, e)
  <2>1. x[e].kind # "free" /\ CountAt(x, fs, e)
    BY DEF StackOK
  <2>2. y[e].kind = x[e].kind /\ y[e].handlerCount = x[e].handlerCount
    BY DEF AgreeOn
  <2> QED
    BY <2>1, <2>2 DEF CountAt
<1>6. NativeFlights(y, fs) = NativeFlights(x, fs)
  BY <1>2 DEF NativeFlights, AgreeOn
<1> QED
  BY <1>3, <1>4, <1>5, <1>6 DEF StackOK, AgreeOn

LEMMA RaiseOutcome ==
    ASSUME NEW x, NEW c, NEW u, NEW fs, NEW e, Airborne(x, c, u, fs, e)
    PROVE  LET r == RaiseException(St(x, c, u, Pop(fs)), e)
           IN  Died(x, Pop(fs), r) \/ Landed(x, fs, e, r)
<1> DEFINE n == Len(fs)
           ps == Pop(fs)
           g == St(x, c, u, ps)
           w == unwind_phase1(ps, x[e].kind # "foreign", x[e].type)
<1>1. /\ x \in [Exc -> Header] /\ ShapeOK(fs) /\ n \in Nat /\ n > 1 /\ e \in Exc
      /\ c \in Exc \cup {None} /\ u \in Nat /\ x[e].kind \in {"native", "dependent", "foreign"}
      /\ Cardinality(NativeFlights(x, ps)) = IF x[e].kind = "foreign" THEN u ELSE u - 1
  BY AirborneFacts
<1>2. /\ ps \in Seq(Frame) /\ Len(ps) = n - 1 /\ \A i \in 1 .. n - 1 : ps[i] = fs[i]
      /\ ShapeOK(ps)
  BY <1>1, PopFacts
<1>3. Native(g, e) = (x[e].kind # "foreign") /\ g.exc = x /\ g.frames = ps
  BY AirborneFacts DEF St
<1>4. w = unwind_phase1(g.frames, Native(g, e), g.exc[e].type)
  BY <1>3
<1>5. CASE w.reason # "found"
  <2>1. Died(x, ps, failed_throw(g, e))
    <3> HIDE DEF ps
    <3>1. /\ x \in [Exc -> Header] /\ e \in Exc /\ c \in Exc \cup {None}
          /\ u \in Int /\ x[e].kind # "free"
          /\ Cardinality(NativeFlights(x, ps)) = IF x[e].kind = "foreign" THEN u ELSE u - 1
      BY <1>1
    <3>2. Died(x, ps, failed_throw(St(x, c, u, ps), e))
      BY <3>1, FailedThrow
    <3> QED
      BY <3>2
  <2> HIDE DEF g, w
  <2>2. RaiseException(g, e) = failed_throw(g, e)
    BY <1>4, <1>5 DEF RaiseException
  <2> QED
    BY <2>1, <2>2 DEF g
<1>6. CASE w.reason = "found"
  <2>1. PICK p \in 1 .. Len(ps) :
              /\ w = [reason |-> "found", frame |-> p, sel |-> Answer1(x, ps, e, p).sel]
              /\ Answer1(x, ps, e, p).reason = "found"
              /\ \A i \in 1 .. Len(ps) : p < i => Answer1(x, ps, e, i).reason = "continue"
    <3> HIDE DEF ps, w
    <3>1. w = unwind_phase1(ps, x[e].kind # "foreign", x[e].type)
      BY DEF w
    <3> QED
      BY <1>1, <1>2, <1>6, <3>1, Phase1Facts
  <2> DEFINE s == Answer1(x, ps, e, p).sel
             y == Remember(x, e, p, s)
  <2>2. s \in Action
    <3>1. Answer1(x, ps, e, p) \in Answers
      BY <1>1, <1>2, AnswerTypes
    <3> QED
      BY <3>1 DEF Answers
  <2>3. p \in Nat /\ p \in 1 .. n - 1
    BY <1>1, <1>2
  <2>4. /\ y \in [Exc -> Header]
        /\ \A d \in Exc : d # e => y[d] = x[d]
        /\ \A d \in Exc : /\ y[d].kind = x[d].kind /\ y[d].type = x[d].type
                          /\ y[d].primary = x[d].primary /\ y[d].referenceCount = x[d].referenceCount
                          /\ y[d].handlerCount = x[d].handlerCount
                          /\ y[d].nextException = x[d].nextException
        /\ y[e].private_2 = p /\ y[e].handlerSwitchValue = s
    <3> HIDE DEF s
    <3> QED
      BY <1>1, <2>2, <2>3, RememberFacts
  <2>5. Mark(g, e, w) = St(y, c, u, ps)
    <3>1. w.frame = p /\ w.sel = s
      BY <2>1
    <3> HIDE DEF w, s, ps
    <3> QED
      BY <1>1, <3>1, MarkIs
  <2> HIDE DEF y
  <2>6. Airborne(y, c, u, fs, e)
    <3>1. AgreeOn(x, y, Held(fs))
      BY <2>4 DEF AgreeOn, Held
    <3>2. StackOK(x, c, u, fs)
      BY DEF Airborne
    <3>3. StackOK(y, c, u, fs)
      BY <3>1, <3>2, StackAgrees
    <3>4. ASSUME NEW i \in 1 .. n - 1 PROVE AwaitAt(y, fs, i)
      <4>1. i \in Nat /\ i \in 1 .. n /\ fs[i].flying \in Exc \cup {None} /\ n \in 1 .. n
        BY <1>1, ShapeFacts
      <4>2. AwaitAt(x, fs, i) /\ fs[n].flying = e
        BY DEF Airborne
      <4>3. FlightAt(x, fs, n)
        BY <3>2, <4>1 DEF StackOK
      <4>4. fs[i].flying # e
        <5>1. e # None
          BY <1>1, ShapeFacts
        <5> QED
          BY <1>1, <4>1, <4>2, <4>3, <5>1 DEF FlightAt
      <4>5. fs[i].flying # None => y[fs[i].flying] = x[fs[i].flying]
        BY <2>4, <4>1, <4>4
      <4> QED
        BY <1>1, <2>4, <4>1, <4>2, <4>5, AwaitLocal
    <3> QED
      BY <3>3, <3>4 DEF Airborne
  <2>7. Marked(y, fs, e, n)
    <3>1. ASSUME NEW i \in 1 .. n - 1 PROVE Answer1(y, fs, e, i) = Answer1(x, ps, e, i)
      BY <1>1, <1>2, <2>4, <3>1 DEF Answer1
    <3>2. \A i \in p + 1 .. n - 1 : i \in 1 .. n - 1 /\ i \in 1 .. Len(ps) /\ p < i
      BY <1>1, <1>2, <2>3
    <3>3. Answer1(y, fs, e, p) = Answer1(x, ps, e, p)
      BY <2>3, <3>1
    <3>4. \A i \in p + 1 .. n - 1 : Answer1(y, fs, e, i).reason = "continue"
      BY <2>1, <3>1, <3>2
    <3> HIDE DEF ps
    <3> QED
      BY <2>1, <2>3, <2>4, <3>3, <3>4 DEF Marked
  <2> DEFINE w2 == unwind_phase2(ps, y[e].kind # "foreign", y[e].type, y[e].private_2,
                                 y[e].handlerSwitchValue)
             h == St(y, c, u, ps)
  <2>8. w2.reason = "found" /\ (Died(y, ps, Land(h, e, w2)) \/ Landed(y, fs, e, Land(h, e, w2)))
    BY <2>6, <2>7, Phase2Lands
  <2>9. Native(h, e) = (y[e].kind # "foreign") /\ h.exc = y /\ h.frames = ps
    BY <2>6, AirborneFacts DEF St
  <2>10. w2 = unwind_phase2(h.frames, Native(h, e), h.exc[e].type, h.exc[e].private_2,
                            h.exc[e].handlerSwitchValue)
    BY <2>9
  <2> HIDE DEF w2, h, w, g
  <2>11. Mark(g, e, w) = h
    BY <2>5 DEF h
  <2>12. RaiseException(g, e) = Land(h, e, w2)
    BY <1>4, <1>6, <2>8, <2>10, <2>11 DEF RaiseException, Phase2
  <2>13. Died(y, ps, Land(h, e, w2)) => Died(x, ps, Land(h, e, w2))
    <3>1. NativeFlights(y, ps) = NativeFlights(x, ps)
      <4>1. \A i \in 1 .. Len(ps) : ps[i].flying # None => ps[i].flying \in Exc
        BY <1>2, ShapeFacts
      <4> QED
        BY <2>4, <4>1 DEF NativeFlights
    <3> HIDE DEF ps
    <3> QED
      BY <2>4, <3>1 DEF Died
  <2>14. Landed(y, fs, e, Land(h, e, w2)) => Landed(x, fs, e, Land(h, e, w2))
    BY <1>1, <2>4 DEF Landed, OnlyTouched
  <2> QED
    BY <2>8, <2>12, <2>13, <2>14 DEF g
<1> QED
  BY <1>5, <1>6

-----------------------------------------------------------------------------
(***************************************************************************)
(* Throwing, catching and leaving a catch clause.                          *)
(***************************************************************************)
\* y has for every exception of H what x has, but for reference counts.
Alike(x, y, H) ==
    /\ y \in [Exc -> Header]
    /\ \A d \in H : /\ y[d].kind = x[d].kind /\ y[d].type = x[d].type
                    /\ y[d].handlerCount = x[d].handlerCount
                    /\ y[d].nextException = x[d].nextException
                    /\ y[d].private_2 = x[d].private_2
                    /\ y[d].handlerSwitchValue = x[d].handlerSwitchValue

LEMMA HeldFacts ==
    ASSUME NEW fs, ShapeOK(fs)
    PROVE  /\ \A i \in 1 .. Len(fs) : /\ fs[i].caught # None => fs[i].caught \in Held(fs)
                                      /\ fs[i].flying # None => fs[i].flying \in Held(fs)
           /\ Held(fs) \subseteq Exc
           /\ \A e \in Exc : /\ Handlers(fs, e) = {} <=> \A i \in 1 .. Len(fs) : fs[i].caught # e
                             /\ Flights(fs, e) = {} <=> \A i \in 1 .. Len(fs) : fs[i].flying # e
<1>1. ASSUME NEW i \in 1 .. Len(fs)
      PROVE  /\ fs[i].caught # None => fs[i].caught \in Held(fs)
             /\ fs[i].flying # None => fs[i].flying \in Held(fs)
  <2>1. fs[i].flying \in Exc \cup {None} /\ fs[i].caught \in Exc \cup {None}
    BY ShapeFacts
  <2>2. i \in Handlers(fs, fs[i].caught) /\ i \in Flights(fs, fs[i].flying)
    BY DEF Handlers, Flights
  <2> QED
    BY <2>1, <2>2 DEF Held
<1>2. Held(fs) \subseteq Exc
  BY DEF Held
<1>3. \A e \in Exc : /\ Handlers(fs, e) = {} <=> \A i \in 1 .. Len(fs) : fs[i].caught # e
                     /\ Flights(fs, e) = {} <=> \A i \in 1 .. Len(fs) : fs[i].flying # e
  BY DEF Handlers, Flights
<1> QED
  BY <1>1, <1>2, <1>3

LEMMA ThreadAgrees ==
    ASSUME NEW x, NEW c, NEW u, NEW fs, StackOK(x, c, u, fs), AwaitsOK(x, fs),
           NEW y, Alike(x, y, Held(fs))
    PROVE  StackOK(y, c, u, fs) /\ AwaitsOK(y, fs)
<1>1. AgreeOn(x, y, Held(fs))
  BY DEF Alike, AgreeOn
<1>2. StackOK(y, c, u, fs)
  BY <1>1, StackAgrees
<1>3. ASSUME NEW i \in 1 .. Len(fs) PROVE AwaitAt(y, fs, i)
  <2>1. ShapeOK(fs) /\ x \in [Exc -> Header] /\ y \in [Exc -> Header]
    BY DEF StackOK, Alike
  <2>2. i \in Nat /\ fs[i].flying \in Exc \cup {None}
    BY <2>1, ShapeFacts
  <2>3. fs[i].flying # None => fs[i].flying \in Held(fs)
    BY <2>1, HeldFacts
  <2>4. AwaitAt(x, fs, i)
    BY DEF AwaitsOK
  <2> QED
    BY <2>1, <2>2, <2>3, <2>4, AwaitLocal DEF Alike
<1> QED
  BY <1>2, <1>3 DEF AwaitsOK

PadOf(e) == [site |-> NoPad, at |-> "pad", flying |-> e, sel |-> "cleanup", caught |-> None]

\* The exception e leaves the top of the stack.  x is what the headers were, y
\* what they are: e is new, or rethrown by the innermost clause.
Departs(x, y, c, fs, e) ==
    /\ e \in Exc /\ y \in [Exc -> Header] /\ Flights(fs, e) = {} /\ y[e].kind # "free"
    /\ Handlers(fs, e) # {} => /\ c = e /\ y[e].kind # "foreign"
                               /\ y[e].kind = x[e].kind /\ y[e].nextException = x[e].nextException
    /\ Alike(x, y, Held(fs) \ {e})
    /\ y[e].kind # "foreign" => y[e].handlerCount = -Cardinality(Handlers(fs, e))

LEMMA PushFlight ==
    ASSUME NEW x, NEW c, NEW u, NEW fs, StackOK(x, c, u, fs), AwaitsOK(x, fs),
           NEW y, NEW e, Departs(x, y, c, fs, e),
           NEW v, v = IF y[e].kind = "foreign" THEN u ELSE u + 1
    PROVE  /\ Airborne(y, c, v, Append(fs, PadOf(e)), e)
           /\ Pop(Append(fs, PadOf(e))) = fs
           /\ Held(Append(fs, PadOf(e))) = Held(fs) \cup {e}
<1> DEFINE n == Len(fs)
           gs == Append(fs, PadOf(e))
<1>0. /\ ShapeOK(fs) /\ x \in [Exc -> Header] /\ y \in [Exc -> Header] /\ e \in Exc
      /\ fs \in Seq(Frame) /\ n \in Nat /\ n >= 1 /\ None \notin Exc /\ e # None
  BY ShapeFacts DEF StackOK, Departs
<1>1. PadOf(e) \in Frame /\ FrameOK(PadOf(e)) /\ ~Clause(PadOf(e))
  BY <1>0 DEF PadOf, Frame, FrameOK, Clause, Action
<1>2. /\ gs \in Seq(Frame) /\ Len(gs) = n + 1 /\ gs[n + 1] = PadOf(e)
      /\ \A i \in 1 .. n : gs[i] = fs[i]
  BY <1>0, <1>1
<1>3. Pop(gs) = fs
  BY <1>0, <1>1, <1>2 DEF Pop
<1> HIDE DEF gs
<1>4. ShapeOK(gs)
  BY <1>0, <1>1, <1>2 DEF ShapeOK
<1>5. gs[n + 1].at = "pad" /\ gs[n + 1].flying = e /\ gs[n + 1].sel = "cleanup"
      /\ gs[n + 1].caught = None
  BY <1>2 DEF PadOf
<1>6. /\ \A i \in 1 .. n : fs[i].flying # e
      /\ \A i \in 1 .. n : fs[i].caught = e =>
             /\ c = e /\ y[e].kind # "foreign"
             /\ y[e].kind = x[e].kind /\ y[e].nextException = x[e].nextException
  BY <1>0, HeldFacts DEF Departs
<1>7. /\ \A i \in 1 .. n : fs[i].flying # None =>
             LET d == fs[i].flying
             IN  /\ d \in Exc /\ d # e /\ y[d].kind = x[d].kind /\ y[d].type = x[d].type
                 /\ y[d].private_2 = x[d].private_2
                 /\ y[d].handlerSwitchValue = x[d].handlerSwitchValue
      /\ \A i \in 1 .. n : fs[i].caught # None =>
             LET d == fs[i].caught
             IN  y[d].kind = x[d].kind /\ y[d].nextException = x[d].nextException
  <2>1. ASSUME NEW d \in Held(fs), d # e
        PROVE  /\ d \in Exc /\ y[d].kind = x[d].kind /\ y[d].type = x[d].type
               /\ y[d].private_2 = x[d].private_2
               /\ y[d].handlerSwitchValue = x[d].handlerSwitchValue
               /\ y[d].nextException = x[d].nextException
    BY <1>0, <2>1, HeldFacts DEF Departs, Alike
  <2> QED
    BY <1>0, <1>6, <2>1, HeldFacts
<1>8. SameClauses(fs, gs, n)
  BY <1>0, <1>2 DEF SameClauses
<1>9. ASSUME NEW i \in 1 .. n + 1 PROVE ChainAt(y, gs, i)
  <2>1. CASE i = n + 1
    BY <1>1, <1>2, <2>1 DEF ChainAt
  <2>2. CASE i # n + 1
    <3>1. i \in 1 .. n /\ i \in Nat /\ i >= 1 /\ SameClauses(fs, gs, i)
      BY <1>0, <1>8, <2>2 DEF SameClauses
    <3>2. ChainAt(x, fs, i)
      BY <3>1 DEF StackOK
    <3>3. Len(fs) \in Nat /\ Len(gs) \in Nat
      BY <1>0, <1>2
    <3> QED
      BY <1>7, <3>1, <3>2, <3>3, ChainLocal
  <2> QED
    BY <2>1, <2>2
<1>10. HeadBelow(gs, n + 1) = c /\ HeadBelow(gs, n + 2) = c
  <2>1. c = HeadBelow(fs, n + 1)
    BY DEF StackOK
  <2>2. HeadBelow(gs, n + 1) = HeadBelow(fs, n + 1)
    BY <1>0, <1>2, <1>8, HeadSame
  <2>3. HeadBelow(gs, (n + 1) + 1) = HeadBelow(gs, n + 1)
    <3>1. n + 1 \in 1 .. Len(gs) /\ Len(gs) \in Nat
      BY <1>0, <1>2
    <3> QED
      BY <1>1, <1>2, <3>1, HeadAbove
  <2>4. (n + 1) + 1 = n + 2
    BY <1>0
  <2> QED
    BY <2>1, <2>2, <2>3, <2>4
<1>11. ASSUME NEW i \in 1 .. n + 1 PROVE FlightAt(y, gs, i)
  <2>1. CASE i = n + 1
    <3>1. SUFFICES ASSUME NEW j \in 1 .. n + 1
                   PROVE  /\ gs[j].flying = e => i = j
                          /\ gs[j].caught = e =>
                               /\ j <= i /\ y[e].kind # "foreign"
                               /\ HeadBelow(gs, i + 1) = e
      BY <1>2, <1>5, <2>1 DEF FlightAt
    <3>2. CASE j = n + 1
      BY <1>0, <1>5, <2>1, <3>2
    <3>3. CASE j # n + 1
      <4>1. j \in 1 .. n /\ gs[j] = fs[j] /\ j <= i /\ i + 1 = n + 2
        BY <1>0, <1>2, <2>1, <3>3
      <4> QED
        BY <1>6, <1>10, <4>1
    <3> QED
      BY <3>2, <3>3
  <2>2. CASE i # n + 1
    <3>1. i \in 1 .. n /\ i + 1 <= n + 1 /\ i + 1 \in Nat /\ gs[i] = fs[i]
      BY <1>0, <1>2, <2>2
    <3>2. HeadBelow(gs, i + 1) = HeadBelow(fs, i + 1)
      BY <1>0, <1>2, <1>8, <3>1, HeadSame
    <3>3. FlightAt(x, fs, i)
      BY <3>1 DEF StackOK
    <3>4. SUFFICES ASSUME gs[i].flying # None, NEW j \in 1 .. n + 1
                   PROVE  /\ gs[j].flying = gs[i].flying => i = j
                          /\ gs[j].caught = gs[i].flying =>
                               /\ j <= i /\ y[gs[i].flying].kind # "foreign"
                               /\ HeadBelow(gs, i + 1) = gs[i].flying
      BY <1>2 DEF FlightAt
    <3>5. CASE j = n + 1
      BY <1>5, <1>7, <3>1, <3>4, <3>5
    <3>6. CASE j # n + 1
      <4>1. j \in 1 .. n /\ gs[j] = fs[j]
        BY <1>0, <1>2, <3>6
      <4> QED
        BY <1>7, <3>1, <3>2, <3>3, <3>4, <4>1 DEF FlightAt
    <3> QED
      BY <3>5, <3>6
  <2> QED
    BY <2>1, <2>2
<1>12. ASSUME NEW d \in Exc PROVE Handlers(gs, d) = Handlers(fs, d)
  <2>1. \A i \in 1 .. n + 1 : gs[i].caught = d => i \in 1 .. n
    BY <1>0, <1>5
  <2> QED
    BY <1>0, <1>2, <2>1 DEF Handlers
<1>13. ASSUME NEW d \in Exc PROVE Flights(gs, d) # {} <=> (Flights(fs, d) # {} \/ d = e)
  <2>1. CASE d = e
    <3>1. n + 1 \in Flights(gs, d)
      BY <1>0, <1>2, <1>5, <2>1 DEF Flights
    <3> QED
      BY <2>1, <3>1
  <2>2. CASE d # e
    <3>1. \A i \in 1 .. n + 1 : gs[i].flying = d => i \in 1 .. n
      BY <1>0, <1>5, <2>2
    <3>2. Flights(gs, d) = Flights(fs, d)
      BY <1>0, <1>2, <3>1 DEF Flights
    <3> QED
      BY <2>2, <3>2
  <2> QED
    BY <2>1, <2>2
<1>14. Held(gs) = Held(fs) \cup {e}
  BY <1>0, <1>12, <1>13 DEF Held
<1>15. ASSUME NEW d \in Held(gs) PROVE y[d].kind # "free" /\ CountAt(y, gs, d)
  <2>1. d \in Exc
    BY <1>0, <1>14, HeldFacts
  <2>2. CASE d = e
    <3>1. Flights(gs, e) # {} /\ Handlers(gs, e) = Handlers(fs, e)
      BY <1>0, <1>12, <1>13
    <3> QED
      BY <2>2, <3>1 DEF CountAt, Departs
  <2>3. CASE d # e
    <3>1. d \in Held(fs)
      BY <1>14, <2>3
    <3>2. x[d].kind # "free" /\ CountAt(x, fs, d)
      BY <3>1 DEF StackOK
    <3>3. y[d].kind = x[d].kind /\ y[d].handlerCount = x[d].handlerCount
      BY <2>3, <3>1 DEF Departs, Alike
    <3>4. Handlers(gs, d) = Handlers(fs, d) /\ (Flights(gs, d) # {} <=> Flights(fs, d) # {})
      BY <1>12, <1>13, <2>1, <2>3
    <3> QED
      BY <3>2, <3>3, <3>4 DEF CountAt
  <2> QED
    BY <2>2, <2>3
<1>16. v = Cardinality(NativeFlights(y, gs))
  <2>0. PICK T : T = NativeFlights(x, fs)
    OBVIOUS
  <2>1. u = Cardinality(T) /\ IsFiniteSet(T) /\ T \subseteq 1 .. n
    <3>1. u = Cardinality(NativeFlights(x, fs))
      BY DEF StackOK
    <3>2. IsFiniteSet(NativeFlights(x, fs))
      BY <1>0, ShapeFacts
    <3>3. NativeFlights(x, fs) \subseteq 1 .. n
      BY DEF NativeFlights
    <3> QED
      BY <2>0, <3>1, <3>2, <3>3
  <2>2. \A i \in 1 .. n : i \in T <=> fs[i].flying # None /\ y[fs[i].flying].kind # "foreign"
    BY <1>7, <2>0 DEF NativeFlights
  <2>a. NativeFlights(y, gs) \subseteq 1 .. n + 1
    BY <1>2 DEF NativeFlights
  <2>b. \A i \in 1 .. n : i \in NativeFlights(y, gs) <=> i \in T
    BY <1>0, <1>2, <2>2 DEF NativeFlights
  <2>c. n + 1 \in NativeFlights(y, gs) <=> y[e].kind # "foreign"
    BY <1>0, <1>2, <1>5 DEF NativeFlights
  <2>d. \A i \in 1 .. n + 1 : i \in 1 .. n \/ i = n + 1
    BY <1>0
  <2>3. CASE y[e].kind = "foreign"
    <3>1. NativeFlights(y, gs) = T
      BY <1>0, <2>1, <2>3, <2>a, <2>b, <2>c, <2>d
    <3> QED
      BY <2>1, <2>3, <3>1
  <2>4. CASE y[e].kind # "foreign"
    <3>1. NativeFlights(y, gs) = T \cup {n + 1}
      BY <1>0, <2>1, <2>4, <2>a, <2>b, <2>c, <2>d
    <3>2. n + 1 \notin T
      BY <1>0, <2>1
    <3>3. Cardinality(T \cup {n + 1}) = Cardinality(T) + 1
      BY <2>1, <3>2, FS_AddElement
    <3> QED
      BY <2>1, <2>4, <3>1, <3>3
  <2> QED
    BY <2>3, <2>4
<1>17. StackOK(y, c, v, gs)
  <2>1. Len(gs) + 1 = n + 2
    BY <1>0, <1>2
  <2>2. c = HeadBelow(gs, Len(gs) + 1)
    BY <1>10, <2>1
  <2> QED
    BY <1>0, <1>2, <1>4, <1>9, <1>11, <1>15, <1>16, <2>2 DEF StackOK
<1>18. ASSUME NEW i \in 1 .. n PROVE AwaitAt(y, gs, i)
  <2>1. i \in Nat /\ fs[i].flying \in Exc \cup {None} /\ gs[i] = fs[i]
    BY <1>0, <1>2, ShapeFacts
  <2>2. \A j \in 1 .. i - 1 : gs[j].at = fs[j].at /\ gs[j].site = fs[j].site
    BY <1>0, <1>2
  <2>3. AwaitAt(x, fs, i)
    BY DEF AwaitsOK
  <2> QED
    BY <1>0, <1>7, <2>1, <2>2, <2>3, AwaitLocal
<1>19. Airborne(y, c, v, gs, e)
  <2>1. Len(gs) - 1 = n /\ Len(gs) > 1
    BY <1>0, <1>2
  <2> QED
    BY <1>0, <1>2, <1>5, <1>17, <1>18, <2>1 DEF Airborne
<1> QED
  BY <1>3, <1>14, <1>19 DEF gs

\* Frames once the clause of a foreign exception has nothing left to end.
Forget(fs, e) == [i \in DOMAIN fs |-> IF fs[i].caught = e THEN [fs[i] EXCEPT !.caught = None]
                                      ELSE fs[i]]

LEMMA ForgetFacts ==
    ASSUME NEW fs, ShapeOK(fs), NEW e \in Exc
    PROVE  /\ Forget(fs, e) \in Seq(Frame) /\ Len(Forget(fs, e)) = Len(fs) /\ ShapeOK(Forget(fs, e))
           /\ \A i \in 1 .. Len(fs) :
                 /\ Forget(fs, e)[i].at = fs[i].at /\ Forget(fs, e)[i].site = fs[i].site
                 /\ Forget(fs, e)[i].flying = fs[i].flying /\ Forget(fs, e)[i].sel = fs[i].sel
                 /\ Clause(Forget(fs, e)[i]) <=> Clause(fs[i])
                 /\ fs[i].caught # e => Forget(fs, e)[i].caught = fs[i].caught
                 /\ fs[i].caught = e => Forget(fs, e)[i].caught = None
<1>1. /\ fs \in Seq(Frame) /\ Len(fs) \in Nat /\ DOMAIN fs = 1 .. Len(fs) /\ Len(fs) >= 1
  BY ShapeFacts
<1>2. ASSUME NEW i \in 1 .. Len(fs)
      PROVE  /\ Forget(fs, e)[i] \in Frame /\ FrameOK(Forget(fs, e)[i])
             /\ Forget(fs, e)[i].at = fs[i].at /\ Forget(fs, e)[i].site = fs[i].site
             /\ Forget(fs, e)[i].flying = fs[i].flying /\ Forget(fs, e)[i].sel = fs[i].sel
             /\ Clause(Forget(fs, e)[i]) <=> Clause(fs[i])
             /\ fs[i].caught # e => Forget(fs, e)[i].caught = fs[i].caught
             /\ fs[i].caught = e => Forget(fs, e)[i].caught = None
  <2>1. fs[i] \in Frame /\ FrameOK(fs[i])
    BY ShapeFacts
  <2>2. Forget(fs, e)[i] = IF fs[i].caught = e THEN [fs[i] EXCEPT !.caught = None] ELSE fs[i]
    BY <1>1 DEF Forget
  <2> QED
    BY <2>1, <2>2 DEF Frame, FrameOK, Clause
<1>3. Forget(fs, e) \in [1 .. Len(fs) -> Frame]
  BY <1>1, <1>2 DEF Forget
<1>4. Forget(fs, e) \in Seq(Frame) /\ Len(Forget(fs, e)) = Len(fs)
  <2> HIDE DEF Forget
  <2> QED
    BY <1>1, <1>3
<1>5. ShapeOK(Forget(fs, e))
  <2>1. fs[1].at = "code" /\ fs[1].site = NoPad
    BY DEF ShapeOK
  <2> QED
    BY <1>1, <1>2, <1>4, <2>1 DEF ShapeOK
<1> QED
  BY <1>2, <1>4, <1>5

\* A foreign exception leaves the stack of caught exceptions, on which it was
\* alone.
LEMMA DropForeign ==
    ASSUME NEW x, NEW c, NEW u, NEW fs, StackOK(x, c, u, fs), AwaitsOK(x, fs),
           c \in Exc, x[c].kind = "foreign", NEW y, Alike(x, y, Held(fs) \ {c})
    PROVE  /\ StackOK(y, None, u, Forget(fs, c)) /\ AwaitsOK(y, Forget(fs, c))
           /\ Held(Forget(fs, c)) = Held(fs) \ {c}
<1> DEFINE n == Len(fs)
           gs == Forget(fs, c)
<1>0. /\ ShapeOK(fs) /\ x \in [Exc -> Header] /\ y \in [Exc -> Header]
      /\ n \in Nat /\ None \notin Exc /\ c # None
  BY ShapeFacts DEF StackOK, Alike
<1>1. /\ gs \in Seq(Frame) /\ Len(gs) = n /\ ShapeOK(gs)
      /\ \A i \in 1 .. n :
            /\ gs[i].at = fs[i].at /\ gs[i].site = fs[i].site
            /\ gs[i].flying = fs[i].flying /\ gs[i].sel = fs[i].sel
            /\ Clause(gs[i]) <=> Clause(fs[i])
            /\ fs[i].caught # c => gs[i].caught = fs[i].caught
            /\ fs[i].caught = c => gs[i].caught = None
  BY <1>0, ForgetFacts
<1> HIDE DEF gs
<1>2. PICK m \in 1 .. n : /\ Clause(fs[m]) /\ fs[m].caught = c
                          /\ \A i \in 1 .. n : m < i => ~Clause(fs[i])
  <2>1. c = HeadBelow(fs, n + 1) /\ n + 1 \in Nat
    BY <1>0 DEF StackOK
  <2>2. PICK m \in 1 .. n : /\ m < n + 1 /\ Clause(fs[m]) /\ HeadBelow(fs, n + 1) = fs[m].caught
                            /\ \A i \in 1 .. n : m < i /\ i < n + 1 => ~Clause(fs[i])
    BY <1>0, <2>1, HeadIs
  <2>3. \A i \in 1 .. n : m < i => i < n + 1
    BY <1>0
  <2> QED
    BY <2>1, <2>2, <2>3
<1>3. \A i \in 1 .. n : fs[i].caught = None \/ (fs[i].caught = c /\ i = m)
  <2>1. ChainAt(x, fs, m)
    BY DEF StackOK
  <2>2. \A j \in 1 .. m - 1 : Clause(fs[j]) => fs[j].caught = None
    BY <1>2, <2>1 DEF ChainAt
  <2>3. ASSUME NEW i \in 1 .. n, fs[i].caught # None PROVE i = m
    <3>1. Clause(fs[i])
      BY <1>0, <2>3, ShapeFacts
    <3>2. ~(m < i)
      BY <1>2, <3>1
    <3>3. ~(i < m)
      <4>1. i < m => i \in 1 .. m - 1
        BY <1>0
      <4> QED
        BY <2>2, <2>3, <3>1, <4>1
    <3> QED
      BY <1>0, <3>2, <3>3
  <2> QED
    BY <1>2, <2>3
<1>4. \A i \in 1 .. n : gs[i].caught = None
  BY <1>0, <1>1, <1>3
<1>5. \A i \in 1 .. n : fs[i].flying # c
  <2>1. ASSUME NEW i \in 1 .. n, fs[i].flying = c PROVE FALSE
    <3>1. FlightAt(x, fs, i)
      BY DEF StackOK
    <3> QED
      BY <1>0, <1>2, <2>1, <3>1 DEF FlightAt
  <2> QED
    BY <2>1
<1>6. ASSUME NEW i \in 1 .. n, fs[i].flying # None
      PROVE  /\ fs[i].flying \in Held(fs) \ {c}
             /\ y[fs[i].flying].kind = x[fs[i].flying].kind
             /\ y[fs[i].flying].type = x[fs[i].flying].type
             /\ y[fs[i].flying].private_2 = x[fs[i].flying].private_2
             /\ y[fs[i].flying].handlerSwitchValue = x[fs[i].flying].handlerSwitchValue
  BY <1>0, <1>5, <1>6, HeldFacts DEF Alike
<1>7. ASSUME NEW i \in 1 .. n PROVE ChainAt(y, gs, i)
  BY <1>0, <1>4 DEF ChainAt
<1>8. ASSUME NEW i \in 1 .. n PROVE FlightAt(y, gs, i)
  <2>1. FlightAt(x, fs, i)
    BY DEF StackOK
  <2> QED
    BY <1>1, <1>4, <2>1 DEF FlightAt
<1>9. ASSUME NEW d \in Exc PROVE Flights(gs, d) = Flights(fs, d) /\ Handlers(gs, d) = {}
                                 /\ (d # c => Handlers(fs, d) = {})
  BY <1>0, <1>1, <1>3, <1>4 DEF Flights, Handlers
<1>10. Held(gs) = Held(fs) \ {c}
  <2>1. Flights(fs, c) = {}
    BY <1>5 DEF Flights
  <2> QED
    BY <1>9, <2>1 DEF Held
<1>11. ASSUME NEW d \in Held(gs) PROVE y[d].kind # "free" /\ CountAt(y, gs, d)
  <2>1. d \in Held(fs) /\ d # c /\ d \in Exc
    BY <1>0, <1>10, HeldFacts
  <2>2. x[d].kind # "free" /\ CountAt(x, fs, d)
    BY <2>1 DEF StackOK
  <2>3. y[d].kind = x[d].kind /\ y[d].handlerCount = x[d].handlerCount
    BY <2>1 DEF Alike
  <2>4. Handlers(gs, d) = Handlers(fs, d) /\ Flights(gs, d) = Flights(fs, d)
    BY <1>9, <2>1
  <2> QED
    BY <2>2, <2>3, <2>4 DEF CountAt
<1>12. HeadBelow(gs, n + 1) = None
  BY <1>0, <1>1, <1>4, HeadIs
<1>13. NativeFlights(y, gs) = NativeFlights(x, fs)
  BY <1>1, <1>6 DEF NativeFlights
<1>14. StackOK(y, None, u, gs)
  <2>1. u = Cardinality(NativeFlights(y, gs))
    BY <1>13 DEF StackOK
  <2> QED
    BY <1>0, <1>1, <1>7, <1>8, <1>11, <1>12, <2>1 DEF StackOK
<1>15. ASSUME NEW i \in 1 .. n PROVE AwaitAt(y, gs, i)
  <2>1. i \in Nat /\ fs[i].flying \in Exc \cup {None}
    BY <1>0, ShapeFacts
  <2>2. \A j \in 1 .. i - 1 : gs[j].at = fs[j].at /\ gs[j].site = fs[j].site
    BY <1>0, <1>1
  <2>3. AwaitAt(x, fs, i)
    BY DEF AwaitsOK
  <2> QED
    BY <1>0, <1>1, <1>6, <2>1, <2>2, <2>3, AwaitLocal
<1> QED
  BY <1>1, <1>10, <1>14, <1>15 DEF gs, AwaitsOK

\* The frame of a clause that has been left: its code goes on, or the landing
\* pad does.
Left(f) == [f EXCEPT !.at = IF f.at = "handler" THEN "code" ELSE "pad", !.caught = None]

LEMMA LeftFacts ==
    ASSUME NEW f \in Frame, FrameOK(f), Clause(f)
    PROVE  /\ Left(f) \in Frame /\ FrameOK(Left(f)) /\ ~Clause(Left(f))
           /\ Left(f).at = IF f.at = "handler" THEN "code" ELSE "pad"
           /\ Left(f).caught = None /\ Left(f).flying = f.flying /\ Left(f).sel = f.sel
           /\ Left(f).site = f.site /\ f.sel = "cleanup"
<1>1. CASE f.at = "handler"
  BY <1>1 DEF Left, Frame, FrameOK, Clause
<1>2. CASE f.at = "leaving"
  BY <1>2 DEF Left, Frame, FrameOK, Clause
<1> QED
  BY <1>1, <1>2 DEF Clause

\* What __cxa_end_catch does to the header of e when its clause is left, short
\* of releasing it.
Leaves(x, y, e) ==
    /\ y \in [Exc -> Header]
    /\ \A d \in Exc : /\ y[d].kind = x[d].kind /\ y[d].type = x[d].type
                      /\ y[d].private_2 = x[d].private_2
                      /\ y[d].handlerSwitchValue = x[d].handlerSwitchValue
    /\ \A d \in Exc : d # e => /\ y[d].handlerCount = x[d].handlerCount
                               /\ y[d].nextException = x[d].nextException
    /\ e # None =>
         /\ y[e].handlerCount = IF x[e].handlerCount < 0 THEN x[e].handlerCount + 1
                                ELSE x[e].handlerCount - 1
         /\ y[e].handlerCount # 0 => y[e].nextException = x[e].nextException

\* What is known about e and the head below then.
LeftState(x, y, fs, gs, e) ==
    IF e = None THEN Held(gs) = Held(fs)
    ELSE /\ e \in Held(fs)
         /\ y[e].handlerCount # 0 => HeadBelow(fs, Len(fs)) = e
         /\ y[e].handlerCount = 0 => HeadBelow(fs, Len(fs)) = x[e].nextException
         /\ Held(gs) = IF y[e].handlerCount # 0 \/ x[e].handlerCount < 0 THEN Held(fs)
                       ELSE Held(fs) \ {e}

LeftTop(fs) == [fs EXCEPT ![Len(fs)] = Left(fs[Len(fs)])]

LEMMA LeaveClause ==
    ASSUME NEW x, NEW c, NEW u, NEW fs, StackOK(x, c, u, fs), AwaitsOK(x, fs),
           Clause(fs[Len(fs)]), NEW e, e = fs[Len(fs)].caught,
           e # None => x[e].kind # "foreign", NEW y, Leaves(x, y, e),
           NEW gs, gs = LeftTop(fs)
    PROVE  /\ c = e
           /\ StackOK(y, HeadBelow(fs, Len(fs)), u, gs) /\ AwaitsOK(y, gs)
           /\ LeftState(x, y, fs, gs, e)
<1> DEFINE n == Len(fs)
<1>0. /\ ShapeOK(fs) /\ x \in [Exc -> Header] /\ y \in [Exc -> Header]
      /\ fs \in Seq(Frame) /\ n \in Nat /\ n >= 1 /\ n \in 1 .. n /\ None \notin Exc
      /\ DOMAIN fs = 1 .. n /\ e \in Exc \cup {None}
  BY ShapeFacts DEF StackOK, Leaves
<1>a. n \in Nat
  BY <1>0
<1>1. fs[n] \in Frame /\ FrameOK(fs[n])
  BY <1>0, ShapeFacts
<1>2. /\ gs \in Seq(Frame) /\ Len(gs) = n /\ gs[n] = Left(fs[n])
      /\ \A i \in 1 .. n - 1 : gs[i] = fs[i]
  <2>1. Left(fs[n]) \in Frame
    BY <1>1, LeftFacts
  <2> QED
    BY <1>0, <2>1 DEF LeftTop
<1>3. /\ ~Clause(gs[n]) /\ FrameOK(gs[n]) /\ gs[n].caught = None /\ gs[n].flying = fs[n].flying
      /\ gs[n].sel = fs[n].sel /\ gs[n].site = fs[n].site
  BY <1>1, <1>2, LeftFacts
<1>4. ShapeOK(gs)
  <2>1. fs[1].at = "code"
    BY <1>0 DEF ShapeOK
  <2>2. n # 1
    BY <2>1 DEF Clause
  <2>3. \A i \in 1 .. n : FrameOK(gs[i])
    BY <1>0, <1>2, <1>3, ShapeFacts
  <2> QED
    BY <1>0, <1>2, <2>2, <2>3 DEF ShapeOK
<1>5. SameClauses(fs, gs, n - 1) /\ n - 1 \in Nat
  BY <1>0, <1>2 DEF SameClauses
<1>6. /\ \A i \in Nat : i <= n => HeadBelow(gs, i) = HeadBelow(fs, i)
      /\ HeadBelow(gs, n + 1) = HeadBelow(fs, n) /\ HeadBelow(fs, n + 1) = e /\ c = e
  <2>1. ASSUME NEW i \in Nat, i <= n PROVE HeadBelow(gs, i) = HeadBelow(fs, i)
    <3>1. i <= (n - 1) + 1 /\ Len(fs) \in Nat /\ Len(gs) \in Nat
      BY <1>0, <1>2, <2>1
    <3> QED
      BY <1>5, <3>1, HeadSame
  <2>2. HeadBelow(gs, n + 1) = HeadBelow(gs, n)
    BY <1>0, <1>2, <1>3, HeadAbove
  <2>3. HeadBelow(fs, n + 1) = e
    BY <1>0, HeadAbove
  <2>4. c = e
    BY <2>3 DEF StackOK
  <2> QED
    BY <1>0, <2>1, <2>2, <2>3, <2>4
<1>7. ASSUME NEW d \in Exc
      PROVE  /\ Flights(gs, d) = Flights(fs, d)
             /\ Handlers(gs, d) = Handlers(fs, d) \ {n}
             /\ n \in Handlers(fs, d) <=> d = e
  <2>1. \A i \in 1 .. n : gs[i].flying = fs[i].flying
    BY <1>0, <1>2, <1>3
  <2>2. Flights(gs, d) = Flights(fs, d)
    BY <1>2, <2>1 DEF Flights
  <2>3. \A i \in 1 .. n : gs[i].caught = d <=> fs[i].caught = d /\ i # n
    <3>1. \A i \in 1 .. n : i # n => i \in 1 .. n - 1
      BY <1>a
    <3>2. d # None
      BY <1>0
    <3> QED
      BY <1>2, <1>3, <3>1, <3>2
  <2>4. Handlers(gs, d) = Handlers(fs, d) \ {n}
    BY <1>2, <2>3 DEF Handlers
  <2>5. n \in Handlers(fs, d) <=> d = e
    BY <1>0 DEF Handlers
  <2> QED
    BY <2>2, <2>4, <2>5
<1>8. ASSUME e # None
      PROVE  /\ e \in Held(fs) /\ x[e].handlerCount \in Int
             /\ Cardinality(Handlers(gs, e)) \in Nat
             /\ x[e].handlerCount < 0 <=> Flights(fs, e) # {}
             /\ y[e].handlerCount = IF Flights(fs, e) # {} THEN -Cardinality(Handlers(gs, e))
                                    ELSE Cardinality(Handlers(gs, e))
             /\ y[e].handlerCount = 0 <=> Handlers(gs, e) = {}
  <2>1. e \in Exc /\ n \in Handlers(fs, e)
    BY <1>0, <1>7, <1>8
  <2>2. e \in Held(fs)
    BY <2>1 DEF Held
  <2>3. x[e].handlerCount = IF Flights(fs, e) # {} THEN -Cardinality(Handlers(fs, e))
                            ELSE Cardinality(Handlers(fs, e))
    <3>1. CountAt(x, fs, e)
      BY <2>2 DEF StackOK
    <3> QED
      BY <1>8, <3>1 DEF CountAt
  <2>4. PICK T : T = Handlers(fs, e)
    OBVIOUS
  <2>5. IsFiniteSet(T) /\ Cardinality(T) \in Nat /\ n \in T
    BY <1>0, <2>1, <2>4, ShapeFacts
  <2>6. Cardinality(T \ {n}) = Cardinality(T) - 1 /\ IsFiniteSet(T \ {n})
    BY <2>5, FS_RemoveElement
  <2>7. Handlers(gs, e) = T \ {n}
    BY <1>7, <2>1, <2>4
  <2>8. PICK K \in Nat : /\ K = Cardinality(Handlers(gs, e)) /\ K = Cardinality(T) - 1
                         /\ K = 0 <=> Handlers(gs, e) = {}
    BY <2>6, <2>7, FS_CardinalityType, FS_EmptySet
  <2>9. y[e].handlerCount = IF x[e].handlerCount < 0 THEN x[e].handlerCount + 1
                            ELSE x[e].handlerCount - 1
    BY <1>8 DEF Leaves
  <2>10. Cardinality(T) = K + 1
    BY <2>5, <2>8
  <2>11. CASE Flights(fs, e) # {}
    <3>1. x[e].handlerCount = -(K + 1)
      BY <2>3, <2>4, <2>10, <2>11
    <3>2. x[e].handlerCount \in Int /\ x[e].handlerCount < 0
      BY <3>1
    <3>3. y[e].handlerCount = -K
      BY <2>9, <3>1, <3>2
    <3>a. -K = 0 <=> K = 0
      OBVIOUS
    <3>4. y[e].handlerCount = 0 <=> Handlers(gs, e) = {}
      BY <2>8, <3>3, <3>a
    <3> QED
      BY <2>2, <2>8, <2>11, <3>2, <3>3, <3>4
  <2>12. CASE Flights(fs, e) = {}
    <3>1. x[e].handlerCount = K + 1
      BY <2>3, <2>4, <2>10, <2>12
    <3>2. x[e].handlerCount \in Int /\ ~(x[e].handlerCount < 0)
      BY <3>1
    <3>3. y[e].handlerCount = K
      BY <2>9, <3>1, <3>2
    <3>4. y[e].handlerCount = 0 <=> Handlers(gs, e) = {}
      BY <2>8, <3>3
    <3> QED
      BY <2>2, <2>8, <2>12, <3>2, <3>3, <3>4
  <2> QED
    BY <2>11, <2>12
<1>9. ASSUME NEW j \in 1 .. n - 1, fs[j].caught = e, e # None
      PROVE  y[e].handlerCount # 0 /\ HeadBelow(fs, n) = e
  <2>1. j \in Handlers(gs, e)
    BY <1>0, <1>2, <1>9 DEF Handlers
  <2>2. ChainAt(x, fs, n)
    BY <1>0 DEF StackOK
  <2> QED
    BY <1>8, <1>9, <2>1, <2>2 DEF ChainAt
<1>10. ASSUME NEW i \in 1 .. n PROVE ChainAt(y, gs, i)
  <2>1. CASE i = n
    BY <1>3, <2>1 DEF ChainAt
  <2>2. CASE i # n
    <3>1. i \in 1 .. n - 1 /\ i \in Nat /\ i >= 1 /\ SameClauses(fs, gs, i)
      BY <1>0, <1>5, <2>2 DEF SameClauses
    <3>2. ChainAt(x, fs, i)
      BY <3>1 DEF StackOK
    <3>3. Len(fs) \in Nat /\ Len(gs) \in Nat /\ fs[i].caught \in Exc \cup {None}
      BY <1>0, <1>2, ShapeFacts
    <3>4. fs[i].caught # None => /\ y[fs[i].caught].kind = x[fs[i].caught].kind
                                 /\ y[fs[i].caught].nextException = x[fs[i].caught].nextException
      BY <1>9, <3>1, <3>3 DEF Leaves
    <3> QED
      BY <3>1, <3>2, <3>3, <3>4, ChainLocal
  <2> QED
    BY <2>1, <2>2
<1>11. ASSUME NEW i \in 1 .. n PROVE FlightAt(y, gs, i)
  <2>0. /\ gs[i].flying = fs[i].flying /\ fs[i].flying \in Exc \cup {None} /\ FlightAt(x, fs, i)
        /\ fs[i].flying # None => y[fs[i].flying].kind = x[fs[i].flying].kind
    BY <1>0, <1>2, <1>3, ShapeFacts DEF StackOK, Leaves
  <2>1. SUFFICES ASSUME fs[i].flying # None, NEW j \in 1 .. n
                 PROVE  /\ gs[j].flying = fs[i].flying => i = j
                        /\ gs[j].caught = fs[i].flying =>
                             /\ j <= i /\ y[fs[i].flying].kind # "foreign"
                             /\ HeadBelow(gs, i + 1) = fs[i].flying
    BY <1>2, <2>0 DEF FlightAt
  <2>2. gs[j].flying = fs[j].flying
    BY <1>0, <1>2, <1>3
  <2>3. ASSUME gs[j].caught = fs[i].flying
        PROVE  /\ j <= i /\ x[fs[i].flying].kind # "foreign"
               /\ HeadBelow(gs, i + 1) = fs[i].flying
    <3>1. j \in 1 .. n - 1 /\ fs[j].caught = fs[i].flying
      BY <1>0, <1>2, <1>3, <2>1, <2>3
    <3>2. /\ j <= i /\ x[fs[i].flying].kind # "foreign"
          /\ HeadBelow(fs, i + 1) = fs[i].flying
      BY <2>0, <2>1, <3>1 DEF FlightAt
    <3>3. CASE i # n
      <4>1. i + 1 \in Nat /\ i + 1 <= n
        BY <1>a, <3>3
      <4> QED
        BY <1>6, <3>2, <4>1
    <3>4. CASE i = n
      <4>1. fs[i].flying = e /\ e # None
        BY <1>6, <2>1, <3>2, <3>4
      <4>2. HeadBelow(fs, n) = e
        BY <1>9, <3>1, <4>1
      <4> QED
        BY <1>6, <3>2, <3>4, <4>1, <4>2
    <3> QED
      BY <3>3, <3>4
  <2>4. gs[j].flying = fs[i].flying => i = j
    BY <2>0, <2>1, <2>2 DEF FlightAt
  <2> QED
    BY <2>0, <2>1, <2>3, <2>4
<1>12. ASSUME NEW d \in Exc, d # e PROVE d \in Held(gs) <=> d \in Held(fs)
  <2>1. Handlers(gs, d) = Handlers(fs, d) /\ Flights(gs, d) = Flights(fs, d)
    BY <1>7, <1>12
  <2> QED
    BY <2>1 DEF Held
<1>13. ASSUME e # None PROVE e \in Held(gs) <=> (y[e].handlerCount # 0 \/ x[e].handlerCount < 0)
  BY <1>0, <1>7, <1>8, <1>13 DEF Held
<1>14. LeftState(x, y, fs, gs, e)
  <2>1. Held(gs) \subseteq Exc /\ Held(fs) \subseteq Exc
    BY DEF Held
  <2>2. CASE e = None
    <3>1. \A d \in Exc : d \in Held(gs) <=> d \in Held(fs)
      BY <1>0, <1>12, <2>2
    <3>2. Held(gs) = Held(fs)
      BY <2>1, <3>1
    <3> QED
      BY <2>2, <3>2 DEF LeftState
  <2>3. CASE e # None
    <3>1. e \in Held(fs)
      BY <1>8, <2>3
    <3>2. Held(gs) = IF y[e].handlerCount # 0 \/ x[e].handlerCount < 0 THEN Held(fs)
                     ELSE Held(fs) \ {e}
      <4>1. \A d \in Exc : d # e => (d \in Held(gs) <=> d \in Held(fs))
        BY <1>12
      <4>2. CASE y[e].handlerCount # 0 \/ x[e].handlerCount < 0
        <5>1. e \in Held(gs)
          BY <1>13, <2>3, <4>2
        <5>2. Held(gs) = Held(fs)
          BY <2>1, <3>1, <4>1, <5>1
        <5> QED
          BY <4>2, <5>2
      <4>3. CASE ~(y[e].handlerCount # 0 \/ x[e].handlerCount < 0)
        <5>1. e \notin Held(gs)
          BY <1>13, <2>3, <4>3
        <5>2. Held(gs) = Held(fs) \ {e}
          BY <2>1, <3>1, <4>1, <5>1
        <5> QED
          BY <4>3, <5>2
      <4> QED
        BY <4>2, <4>3
    <3>3. ChainAt(x, fs, n)
      BY <1>0 DEF StackOK
    <3>4. y[e].handlerCount # 0 => HeadBelow(fs, n) = e
      <4>1. SUFFICES ASSUME y[e].handlerCount # 0 PROVE HeadBelow(fs, n) = e
        OBVIOUS
      <4>2. PICK j \in Handlers(gs, e) : TRUE
        BY <1>8, <2>3, <4>1
      <4>3. j \in 1 .. n - 1 /\ fs[j].caught = e
        BY <1>0, <1>2, <1>3, <2>3, <4>2 DEF Handlers
      <4> QED
        BY <1>9, <2>3, <4>3
    <3>5. y[e].handlerCount = 0 => HeadBelow(fs, n) = x[e].nextException
      <4>1. y[e].handlerCount = 0 => ~\E j \in 1 .. n - 1 : fs[j].caught = e
        BY <1>9, <2>3
      <4> QED
        BY <2>3, <3>3, <4>1 DEF ChainAt
    <3> QED
      BY <2>3, <3>1, <3>2, <3>4, <3>5 DEF LeftState
  <2> QED
    BY <2>2, <2>3
<1>15. ASSUME NEW d \in Held(gs) PROVE y[d].kind # "free" /\ CountAt(y, gs, d)
  <2>1. d \in Exc
    BY DEF Held
  <2>2. CASE d = e
    <3>1. e # None /\ e \in Held(fs)
      BY <1>0, <1>8, <2>1, <2>2
    <3>2. x[e].kind # "free" /\ y[e].kind = x[e].kind
      BY <2>1, <2>2, <3>1 DEF StackOK, Leaves
    <3> QED
      BY <1>7, <1>8, <2>1, <2>2, <3>1, <3>2 DEF CountAt
  <2>3. CASE d # e
    <3>1. d \in Held(fs)
      BY <1>12, <2>1, <2>3
    <3>2. x[d].kind # "free" /\ CountAt(x, fs, d)
      BY <3>1 DEF StackOK
    <3>3. y[d].kind = x[d].kind /\ y[d].handlerCount = x[d].handlerCount
      BY <2>1, <2>3 DEF Leaves
    <3>4. Handlers(gs, d) = Handlers(fs, d) /\ Flights(gs, d) = Flights(fs, d)
      BY <1>7, <2>1, <2>3
    <3> QED
      BY <3>2, <3>3, <3>4 DEF CountAt
  <2> QED
    BY <2>2, <2>3
<1>16. u = Cardinality(NativeFlights(y, gs))
  <2>1. \A i \in 1 .. n : gs[i].flying = fs[i].flying
    BY <1>0, <1>2, <1>3
  <2>2. \A i \in 1 .. n : fs[i].flying # None => y[fs[i].flying].kind = x[fs[i].flying].kind
    BY <1>0, ShapeFacts DEF Leaves
  <2>3. NativeFlights(y, gs) = NativeFlights(x, fs)
    BY <1>2, <2>1, <2>2 DEF NativeFlights
  <2> QED
    BY <2>3 DEF StackOK
<1>17. StackOK(y, HeadBelow(fs, n), u, gs)
  BY <1>0, <1>2, <1>4, <1>6, <1>10, <1>11, <1>15, <1>16 DEF StackOK
<1>18. ASSUME NEW i \in 1 .. n PROVE AwaitAt(y, gs, i)
  <2>1. i \in Nat /\ fs[i].flying \in Exc \cup {None}
    BY <1>0, ShapeFacts
  <2>2. \A j \in 1 .. i - 1 : gs[j].at = fs[j].at /\ gs[j].site = fs[j].site
    BY <1>0, <1>2
  <2>3. gs[i].flying = fs[i].flying /\ gs[i].sel = fs[i].sel /\ gs[i].site = fs[i].site
    BY <1>0, <1>2, <1>3
  <2>4. AwaitAt(x, fs, i)
    BY DEF AwaitsOK
  <2>5. /\ y \in [Exc -> Header]
        /\ fs[i].flying # None =>
               /\ y[fs[i].flying].kind = x[fs[i].flying].kind
               /\ y[fs[i].flying].type = x[fs[i].flying].type
               /\ y[fs[i].flying].private_2 = x[fs[i].flying].private_2
               /\ y[fs[i].flying].handlerSwitchValue = x[fs[i].flying].handlerSwitchValue
    BY <2>1 DEF Leaves
  <2> QED
    BY <1>0, <2>1, <2>2, <2>3, <2>4, <2>5, AwaitLocal
<1>19. AwaitsOK(y, gs)
  BY <1>2, <1>18 DEF AwaitsOK
<1> QED
  BY <1>6, <1>14, <1>17, <1>19

\* begin_catch of the native exception that flies in the landing pad on top.
CatchTop(fs, e) == [fs EXCEPT ![Len(fs)] =
                       [@ EXCEPT !.at = "handler", !.caught = e, !.flying = None, !.sel = "cleanup"]]

LEMMA CatchTopFacts ==
    ASSUME NEW fs, ShapeOK(fs), NEW e \in Exc, fs[Len(fs)].at = "pad"
    PROVE  /\ ShapeOK(CatchTop(fs, e)) /\ Len(CatchTop(fs, e)) = Len(fs)
           /\ \A i \in 1 .. Len(fs) - 1 : CatchTop(fs, e)[i] = fs[i]
           /\ CatchTop(fs, e)[Len(fs)].at = "handler" /\ CatchTop(fs, e)[Len(fs)].caught = e
           /\ CatchTop(fs, e)[Len(fs)].flying = None
<1> DEFINE n == Len(fs)
           f == [fs[n] EXCEPT !.at = "handler", !.caught = e, !.flying = None, !.sel = "cleanup"]
<1>1. /\ fs \in Seq(Frame) /\ n \in Nat /\ n >= 1 /\ n \in 1 .. n /\ fs[n] \in Frame
      /\ DOMAIN fs = 1 .. n
  BY ShapeFacts
<1>2. f \in Frame /\ f.at = "handler" /\ f.caught = e /\ f.flying = None /\ f.sel = "cleanup"
  BY <1>1 DEF Frame, Action
<1>3. FrameOK(f)
  <2> HIDE DEF f
  <2> QED
    BY <1>2 DEF FrameOK, Clause
<1>4. CatchTop(fs, e) = [fs EXCEPT ![n] = f]
  BY <1>1 DEF CatchTop
<1> HIDE DEF f
<1>5. /\ CatchTop(fs, e) \in Seq(Frame) /\ Len(CatchTop(fs, e)) = n /\ CatchTop(fs, e)[n] = f
      /\ \A i \in 1 .. n - 1 : CatchTop(fs, e)[i] = fs[i]
  BY <1>1, <1>2, <1>4
<1>6. ShapeOK(CatchTop(fs, e))
  <2>1. n # 1
    BY DEF ShapeOK
  <2>2. \A i \in 1 .. n : FrameOK(CatchTop(fs, e)[i])
    BY <1>1, <1>3, <1>5, ShapeFacts
  <2>3. CatchTop(fs, e)[1] = fs[1]
    BY <1>1, <1>5, <2>1
  <2> QED
    BY <1>1, <1>5, <2>2, <2>3 DEF ShapeOK
<1> QED
  BY <1>2, <1>5, <1>6

\* y: the headers after it.
Catching(x, y, c, e) ==
    /\ y \in [Exc -> Header] /\ e \in Exc /\ y[e].kind = x[e].kind
    /\ \A d \in Exc : d # e => y[d] = x[d]
    /\ x[e].kind # "foreign" =>
         /\ y[e].handlerCount = HandlerCountOnCatch(x[e].handlerCount)
         /\ y[e].nextException = IF c = e THEN x[e].nextException ELSE c
    /\ x[e].kind = "foreign" => c = None

CatchStep(x, c, u, fs, e, y, v, gs) ==
    /\ StackOK(x, c, u, fs) /\ AwaitsOK(x, fs)
    /\ fs[Len(fs)].at = "pad" /\ e = fs[Len(fs)].flying /\ Catching(x, y, c, e)
    /\ gs = CatchTop(fs, e) /\ v = IF x[e].kind = "foreign" THEN u ELSE u - 1

LEMMA CatchClause ==
    ASSUME NEW x, NEW c, NEW u, NEW fs, NEW e, NEW y, NEW v, NEW gs,
           CatchStep(x, c, u, fs, e, y, v, gs)
    PROVE  StackOK(y, e, v, gs) /\ AwaitsOK(y, gs) /\ Held(gs) = Held(fs) /\ v \in Nat
<1>h. /\ StackOK(x, c, u, fs) /\ AwaitsOK(x, fs)
      /\ fs[Len(fs)].at = "pad" /\ e = fs[Len(fs)].flying /\ Catching(x, y, c, e)
      /\ gs = CatchTop(fs, e) /\ v = IF x[e].kind = "foreign" THEN u ELSE u - 1
  BY DEF CatchStep
<1> USE <1>h
<1> DEFINE n == Len(fs)
<1>0. /\ ShapeOK(fs) /\ x \in [Exc -> Header] /\ y \in [Exc -> Header]
      /\ n \in 1 .. n /\ None \notin Exc /\ e \in Exc
  BY ShapeFacts DEF StackOK, Catching
<1>a. n \in Nat /\ e # None
  BY <1>0, ShapeFacts
<1>1. /\ ShapeOK(gs) /\ Len(gs) = n /\ \A i \in 1 .. n - 1 : gs[i] = fs[i]
      /\ gs[n].at = "handler" /\ gs[n].caught = e /\ gs[n].flying = None
  BY <1>0, CatchTopFacts
<1>b. \A i \in 1 .. n : i # n => i \in 1 .. n - 1
  BY <1>a
<1>2. Clause(gs[n]) /\ ~Clause(fs[n]) /\ fs[n].caught = None
  BY <1>0, <1>1, ShapeFacts DEF Clause
<1>3. SameClauses(fs, gs, n - 1) /\ n - 1 \in Nat
  BY <1>0, <1>a, <1>1 DEF SameClauses
<1>4. /\ \A i \in Nat : i <= n => HeadBelow(gs, i) = HeadBelow(fs, i)
      /\ HeadBelow(gs, n + 1) = e /\ HeadBelow(fs, n + 1) = c /\ HeadBelow(fs, n) = c
  <2>1. ASSUME NEW i \in Nat, i <= n PROVE HeadBelow(gs, i) = HeadBelow(fs, i)
    <3>1. i <= (n - 1) + 1 /\ Len(fs) \in Nat /\ Len(gs) \in Nat
      BY <1>a, <1>1, <2>1
    <3> QED
      BY <1>3, <3>1, HeadSame
  <2>2. HeadBelow(gs, n + 1) = e
    BY <1>0, <1>a, <1>1, <1>2, HeadAbove
  <2>3. HeadBelow(fs, n + 1) = c
    BY DEF StackOK
  <2>4. HeadBelow(fs, n + 1) = HeadBelow(fs, n)
    BY <1>0, <1>a, <1>2, HeadAbove
  <2> QED
    BY <1>0, <2>1, <2>2, <2>3, <2>4
<1>5. FlightAt(x, fs, n)
  BY <1>0 DEF StackOK
<1>6. /\ \A i \in 1 .. n - 1 : fs[i].flying # e
      /\ \A i \in 1 .. n - 1 : fs[i].caught = e => c = e /\ x[e].kind # "foreign"
  BY <1>0, <1>a, <1>4, <1>5 DEF FlightAt
<1>7. c = e => \E j \in 1 .. n - 1 : fs[j].caught = e
  <2>1. SUFFICES ASSUME c = e PROVE \E j \in 1 .. n - 1 : fs[j].caught = e
    OBVIOUS
  <2>2. PICK m \in 1 .. Len(fs) : m < n /\ HeadBelow(fs, n) = fs[m].caught
    BY <1>a, <1>4, <2>1, HeadIs
  <2>3. m \in 1 .. n - 1 /\ fs[m].caught = e
    BY <1>a, <1>4, <2>1, <2>2
  <2> QED
    BY <2>3
<1>8. ASSUME NEW i \in 1 .. n PROVE ChainAt(y, gs, i)
  <2>1. CASE i = n /\ x[e].kind = "foreign"
    <3>1. \A j \in 1 .. n - 1 : Clause(fs[j]) => fs[j].caught = None
      <4>1. \/ \A j \in 1 .. Len(fs) : j < n => ~Clause(fs[j])
            \/ \E m \in 1 .. Len(fs) :
                 /\ m < n /\ Clause(fs[m]) /\ HeadBelow(fs, n) = fs[m].caught
                 /\ \A j \in 1 .. Len(fs) : m < j /\ j < n => ~Clause(fs[j])
        BY <1>a, HeadIs
      <4>2. CASE \A j \in 1 .. Len(fs) : j < n => ~Clause(fs[j])
        BY <1>a, <4>2
      <4>3. CASE \E m \in 1 .. Len(fs) :
                 /\ m < n /\ Clause(fs[m]) /\ HeadBelow(fs, n) = fs[m].caught
                 /\ \A j \in 1 .. Len(fs) : m < j /\ j < n => ~Clause(fs[j])
        <5>1. PICK m \in 1 .. Len(fs) :
                 /\ m < n /\ Clause(fs[m]) /\ HeadBelow(fs, n) = fs[m].caught
                 /\ \A j \in 1 .. Len(fs) : m < j /\ j < n => ~Clause(fs[j])
          BY <4>3
        <5>2. fs[m].caught = None
          BY <1>4, <2>1, <5>1 DEF Catching
        <5>3. ChainAt(x, fs, m)
          BY DEF StackOK
        <5>4. \A j \in 1 .. m - 1 : Clause(fs[j]) => fs[j].caught = None
          BY <5>1, <5>2, <5>3 DEF ChainAt
        <5>5. ASSUME NEW j \in 1 .. n - 1, Clause(fs[j]) PROVE fs[j].caught = None
          <6>1. j \in 1 .. Len(fs) /\ j < n
            BY <1>a
          <6>2. ~(m < j)
            BY <5>1, <5>5, <6>1
          <6>3. j = m \/ j \in 1 .. m - 1
            BY <1>a, <6>1, <6>2
          <6> QED
            BY <5>2, <5>4, <5>5, <6>3
        <5> QED
          BY <5>5
      <4> QED
        BY <4>1, <4>2, <4>3
    <3>2. \A j \in 1 .. n - 1 : Clause(gs[j]) => gs[j].caught = None
      BY <1>1, <3>1
    <3>3. y[e].kind = "foreign"
      BY <2>1 DEF Catching
    <3> QED
      BY <1>1, <2>1, <3>2, <3>3 DEF ChainAt
  <2>2. CASE i = n /\ x[e].kind # "foreign"
    <3>1. /\ y[e].kind # "foreign"
          /\ y[e].nextException = IF c = e THEN x[e].nextException ELSE c
      BY <2>2 DEF Catching
    <3>2. HeadBelow(gs, n) = c
      BY <1>a, <1>4
    <3>3. (\E j \in 1 .. n - 1 : gs[j].caught = e) <=> c = e
      BY <1>1, <1>6, <1>7
    <3>4. ChainAt(y, gs, n)
      <4> HIDE DEF n
      <4> QED
        BY <1>a, <1>1, <3>1, <3>2, <3>3 DEF ChainAt
    <3> QED
      BY <2>2, <3>4
  <2>3. CASE i # n
    <3>0. i \in 1 .. n - 1 /\ i \in Nat /\ i >= 1 /\ i <= n - 1
      BY <1>a, <1>b, <2>3
    <3>1. i \in 1 .. n - 1 /\ i \in Nat /\ i >= 1 /\ SameClauses(fs, gs, i)
      BY <1>3, <3>0 DEF SameClauses
    <3>2. ChainAt(x, fs, i)
      BY <3>1 DEF StackOK
    <3>3. Len(fs) \in Nat /\ Len(gs) \in Nat /\ fs[i].caught \in Exc \cup {None}
      BY <1>0, <1>a, <1>1, ShapeFacts
    <3>4. fs[i].caught # None => /\ y[fs[i].caught].kind = x[fs[i].caught].kind
                                 /\ y[fs[i].caught].nextException = x[fs[i].caught].nextException
      <4>1. CASE fs[i].caught = e
        BY <1>6, <3>1, <4>1 DEF Catching
      <4>2. CASE fs[i].caught # e
        BY <3>3, <4>2 DEF Catching
      <4> QED
        BY <4>1, <4>2
    <3> QED
      BY <3>1, <3>2, <3>3, <3>4, ChainLocal
  <2> QED
    BY <2>1, <2>2, <2>3
<1>9. ASSUME NEW i \in 1 .. n PROVE FlightAt(y, gs, i)
  <2>1. CASE i = n
    BY <1>1, <2>1 DEF FlightAt
  <2>2. CASE i # n
    <3>1. i \in 1 .. n - 1 /\ i + 1 \in Nat /\ i + 1 <= n /\ gs[i] = fs[i]
      BY <1>a, <1>b, <1>1, <2>2
    <3>2. HeadBelow(gs, i + 1) = HeadBelow(fs, i + 1)
      BY <1>4, <3>1
    <3>3. FlightAt(x, fs, i)
      BY DEF StackOK
    <3>4. SUFFICES ASSUME gs[i].flying # None, NEW j \in 1 .. n
                   PROVE  /\ gs[j].flying = gs[i].flying => i = j
                          /\ gs[j].caught = gs[i].flying =>
                               /\ j <= i /\ y[gs[i].flying].kind # "foreign"
                               /\ HeadBelow(gs, i + 1) = gs[i].flying
      BY <1>1 DEF FlightAt
    <3>5. fs[i].flying # e /\ fs[i].flying \in Exc
      BY <1>0, <1>6, <3>1, <3>4, ShapeFacts
    <3>6. y[fs[i].flying].kind = x[fs[i].flying].kind
      BY <3>5 DEF Catching
    <3>7. CASE j = n
      BY <1>1, <3>1, <3>4, <3>5, <3>7
    <3>8. CASE j # n
      <4>1. gs[j] = fs[j]
        BY <1>b, <1>1, <3>8
      <4> QED
        BY <3>1, <3>2, <3>3, <3>4, <3>6, <4>1 DEF FlightAt
    <3> QED
      BY <3>7, <3>8
  <2> QED
    BY <2>1, <2>2
<1>10. ASSUME NEW d \in Exc, d # e
       PROVE  Handlers(gs, d) = Handlers(fs, d) /\ Flights(gs, d) = Flights(fs, d)
  <2>1. \A i \in 1 .. n : (gs[i].caught = d <=> fs[i].caught = d)
                          /\ (gs[i].flying = d <=> fs[i].flying = d)
    BY <1>0, <1>b, <1>1, <1>2, <1>10
  <2> QED
    BY <1>1, <2>1 DEF Handlers, Flights
<1>11. /\ Handlers(gs, e) = Handlers(fs, e) \cup {n} /\ n \notin Handlers(fs, e)
       /\ Flights(gs, e) = {} /\ Flights(fs, e) # {}
  <2>1. \A i \in 1 .. n : (gs[i].caught = e <=> fs[i].caught = e \/ i = n) /\ gs[i].flying # e
    BY <1>a, <1>b, <1>1, <1>6
  <2>2. fs[n].caught # e /\ fs[n].flying = e
    BY <1>a, <1>2
  <2> QED
    BY <1>0, <1>1, <2>1, <2>2 DEF Handlers, Flights
<1>12. Held(gs) = Held(fs)
  <2>1. \A d \in Exc : d # e => (d \in Held(gs) <=> d \in Held(fs))
    BY <1>10 DEF Held
  <2>2. e \in Held(gs) /\ e \in Held(fs)
    BY <1>0, <1>11 DEF Held
  <2>3. Held(gs) \subseteq Exc /\ Held(fs) \subseteq Exc
    BY DEF Held
  <2>4. ASSUME NEW d \in Exc PROVE d \in Held(gs) <=> d \in Held(fs)
    <3>1. CASE d = e
      BY <2>2, <3>1
    <3>2. CASE d # e
      BY <2>1, <3>2
    <3> QED
      BY <3>1, <3>2
  <2> QED
    BY <2>3, <2>4
<1>13. ASSUME NEW d \in Held(gs) PROVE y[d].kind # "free" /\ CountAt(y, gs, d)
  <2>1. d \in Exc /\ x[d].kind # "free" /\ CountAt(x, fs, d)
    BY <1>12 DEF StackOK, Held
  <2>2. CASE d # e
    <3>1. y[d] = x[d]
      BY <2>1, <2>2 DEF Catching
    <3>2. Handlers(gs, d) = Handlers(fs, d) /\ Flights(gs, d) = Flights(fs, d)
      BY <1>10, <2>1, <2>2
    <3> QED
      BY <2>1, <3>1, <3>2 DEF CountAt
  <2>3. CASE d = e /\ x[e].kind = "foreign"
    BY <2>1, <2>3 DEF CountAt, Catching
  <2>4. CASE d = e /\ x[e].kind # "foreign"
    <3>1. x[e].handlerCount = -Cardinality(Handlers(fs, e))
      BY <1>11, <2>1, <2>4 DEF CountAt
    <3>2. PICK T : T = Handlers(fs, e)
      OBVIOUS
    <3>3. IsFiniteSet(T) /\ Cardinality(T) \in Nat /\ n \notin T
      BY <1>0, <1>11, <3>2, ShapeFacts
    <3>4. Cardinality(T \cup {n}) = Cardinality(T) + 1
      BY <3>3, FS_AddElement
    <3>5. PICK k \in Nat : k = Cardinality(T)
      BY <3>3
    <3>6. x[e].handlerCount = -k
      BY <3>1, <3>2, <3>5
    <3>7. HandlerCountOnCatch(-k) = k + 1
      BY DEF HandlerCountOnCatch
    <3>8. y[e].handlerCount = k + 1
      BY <2>4, <3>6, <3>7 DEF Catching
    <3>9. Cardinality(Handlers(gs, e)) = k + 1
      BY <1>11, <3>2, <3>4, <3>5
    <3>10. y[e].kind = x[e].kind
      BY DEF Catching
    <3> QED
      BY <1>11, <2>1, <2>4, <3>8, <3>9, <3>10 DEF CountAt
  <2> QED
    BY <2>2, <2>3, <2>4
<1>14. v = Cardinality(NativeFlights(y, gs)) /\ v \in Nat
  <2>0. PICK T : T = NativeFlights(x, fs)
    OBVIOUS
  <2>1. u = Cardinality(T) /\ IsFiniteSet(T) /\ T \subseteq 1 .. n
    <3>1. u = Cardinality(NativeFlights(x, fs))
      BY DEF StackOK
    <3>2. IsFiniteSet(NativeFlights(x, fs))
      BY <1>0, ShapeFacts
    <3>3. NativeFlights(x, fs) \subseteq 1 .. n
      BY DEF NativeFlights
    <3> QED
      BY <2>0, <3>1, <3>2, <3>3
  <2>2. \A i \in 1 .. n - 1 : fs[i].flying # None => y[fs[i].flying].kind = x[fs[i].flying].kind
    <3>1. \A i \in 1 .. n - 1 : fs[i].flying \in Exc \cup {None}
      BY <1>0, <1>a, ShapeFacts
    <3> QED
      BY <1>6, <3>1 DEF Catching
  <2>3. n \in T <=> x[e].kind # "foreign"
    BY <1>0, <1>a, <2>0 DEF NativeFlights
  <2>4. \A i \in 1 .. n : i \in NativeFlights(y, gs) <=> i \in T /\ i # n
    <3>1. n \notin NativeFlights(y, gs)
      BY <1>1 DEF NativeFlights
    <3>2. \A i \in 1 .. n - 1 : i \in NativeFlights(y, gs) <=> i \in T
      BY <1>a, <1>1, <2>0, <2>2 DEF NativeFlights
    <3> QED
      BY <1>b, <3>1, <3>2
  <2>5. NativeFlights(y, gs) = T \ {n}
    <3>1. NativeFlights(y, gs) \subseteq 1 .. n
      BY <1>1 DEF NativeFlights
    <3> QED
      BY <2>1, <2>4, <3>1
  <2>6. /\ Cardinality(T \ {n}) = IF n \in T THEN Cardinality(T) - 1 ELSE Cardinality(T)
        /\ IsFiniteSet(T \ {n})
    BY <2>1, FS_RemoveElement
  <2>7. Cardinality(T \ {n}) \in Nat
    BY <2>6, FS_CardinalityType
  <2> QED
    BY <2>1, <2>3, <2>5, <2>6, <2>7
<1>15. StackOK(y, e, v, gs)
  BY <1>0, <1>1, <1>4, <1>8, <1>9, <1>13, <1>14 DEF StackOK
<1>16. ASSUME NEW i \in 1 .. n PROVE AwaitAt(y, gs, i)
  <2>1. CASE i = n
    BY <1>1, <2>1 DEF AwaitAt
  <2>2. CASE i # n
    <3>1. i \in 1 .. n - 1 /\ i \in Nat /\ gs[i] = fs[i]
      BY <1>a, <1>b, <1>1, <2>2
    <3>2. \A j \in 1 .. i - 1 : gs[j].at = fs[j].at /\ gs[j].site = fs[j].site
      BY <1>a, <1>1, <3>1
    <3>3. AwaitAt(x, fs, i) /\ fs[i].flying \in Exc \cup {None}
      BY <1>0, ShapeFacts DEF AwaitsOK
    <3>4. fs[i].flying # None => y[fs[i].flying] = x[fs[i].flying]
      BY <1>6, <3>1, <3>3 DEF Catching
    <3> QED
      BY <1>0, <3>1, <3>2, <3>3, <3>4, AwaitLocal
  <2> QED
    BY <2>1, <2>2
<1>17. AwaitsOK(y, gs)
  BY <1>1, <1>16 DEF AwaitsOK
<1> QED
  BY <1>12, <1>14, <1>15, <1>17

-----------------------------------------------------------------------------
(***************************************************************************)
(* References.                                                             *)
(***************************************************************************)
LEMMA RefsNums ==
    ASSUME NEW x, NEW q, NEW e
    PROVE  /\ IsFiniteSet(PtrsTo(q, e)) /\ Cardinality(PtrsTo(q, e)) \in Nat
           /\ IsFiniteSet(DepsOf(x, e)) /\ Cardinality(DepsOf(x, e)) \in Nat
           /\ Cardinality(PtrsTo(q, e)) = 0 => \A p \in Ptr : q[p] # e
           /\ Cardinality(DepsOf(x, e)) = 0 =>
                \A d \in Exc : ~(x[d].kind = "dependent" /\ x[d].primary = e)
           /\ (\A p \in Ptr : q[p] # e) => Cardinality(PtrsTo(q, e)) = 0
           /\ (\A d \in Exc : ~(x[d].kind = "dependent" /\ x[d].primary = e)) =>
                Cardinality(DepsOf(x, e)) = 0
<1>1. IsFiniteSet(PtrsTo(q, e)) /\ IsFiniteSet(DepsOf(x, e))
  <2>1. PtrsTo(q, e) \subseteq Ptr /\ DepsOf(x, e) \subseteq Exc
    BY DEF PtrsTo, DepsOf
  <2>2. IsFiniteSet(Ptr) /\ IsFiniteSet(Exc)
    BY ExceptionAssumption
  <2> QED
    BY <2>1, <2>2, FS_Subset
<1>2. PICK P : P = PtrsTo(q, e)
  OBVIOUS
<1>3. PICK D : D = DepsOf(x, e)
  OBVIOUS
<1>4. /\ Cardinality(P) \in Nat /\ Cardinality(D) \in Nat
      /\ Cardinality(P) = 0 <=> P = {}
      /\ Cardinality(D) = 0 <=> D = {}
  BY <1>1, <1>2, <1>3, FS_CardinalityType, FS_EmptySet
<1>5. P = {} <=> \A p \in Ptr : q[p] # e
  BY <1>2 DEF PtrsTo
<1>6. D = {} <=> \A d \in Exc : ~(x[d].kind = "dependent" /\ x[d].primary = e)
  BY <1>3 DEF DepsOf
<1> QED
  BY <1>1, <1>2, <1>3, <1>4, <1>5, <1>6

LEMMA RefsNat ==
    ASSUME NEW x, NEW H, NEW q, NEW r, NEW e
    PROVE  /\ RefsOf(x, H, q, r, e) \in Nat
           /\ RefsOf(x, H, q, r, e) = 0 <=>
                /\ e \notin H /\ e # r /\ \A p \in Ptr : q[p] # e
                /\ \A d \in Exc : ~(x[d].kind = "dependent" /\ x[d].primary = e)
<1>1. PICK P \in Nat : P = Cardinality(PtrsTo(q, e))
  BY RefsNums
<1>2. PICK D \in Nat : D = Cardinality(DepsOf(x, e))
  BY RefsNums
<1>3. PICK h \in {0, 1} : h = One(e \in H) /\ (h = 0 <=> e \notin H)
  BY DEF One
<1>4. PICK s \in {0, 1} : s = One(e = r) /\ (s = 0 <=> e # r)
  BY DEF One
<1>5. RefsOf(x, H, q, r, e) = h + P + D + s
  BY <1>1, <1>2, <1>3, <1>4 DEF RefsOf
<1>6. h + P + D + s \in Nat /\ (h + P + D + s = 0 <=> h = 0 /\ P = 0 /\ D = 0 /\ s = 0)
  OBVIOUS
<1>7. P = 0 <=> \A p \in Ptr : q[p] # e
  BY <1>1, RefsNums
<1>8. D = 0 <=> \A d \in Exc : ~(x[d].kind = "dependent" /\ x[d].primary = e)
  BY <1>2, RefsNums
<1> QED
  BY <1>3, <1>4, <1>5, <1>6, <1>7, <1>8

\* Nothing that references are made of changes.
LEMMA RefsSame ==
    ASSUME NEW x, NEW y, NEW H, NEW q, NEW r, RefsOK(x, H, q, r),
           q \in [Ptr -> Exc \cup {None}],
           \A d \in Exc : /\ y[d].kind = x[d].kind /\ y[d].primary = x[d].primary
                          /\ y[d].referenceCount = x[d].referenceCount
    PROVE  RefsOK(y, H, q, r)
<1>1. \A e \in Exc : DepsOf(y, e) = DepsOf(x, e)
  BY DEF DepsOf
<1>2. \A e \in Exc : RefsOf(y, H, q, r, e) = RefsOf(x, H, q, r, e)
  BY <1>1 DEF RefsOf
<1> QED
  BY <1>2 DEF RefsOK

\* A reference moves from the running function to a frame and back.
LEMMA RefsHold ==
    ASSUME NEW x, NEW H, NEW q, NEW e \in Exc, RefsOK(x, H, q, e), e \notin H
    PROVE  RefsOK(x, H \cup {e}, q, None)
<1>1. ASSUME NEW d \in Exc PROVE RefsOf(x, H \cup {e}, q, None, d) = RefsOf(x, H, q, e, d)
  <2>1. PICK P \in Nat : P = Cardinality(PtrsTo(q, d))
    BY RefsNums
  <2>2. PICK D \in Nat : D = Cardinality(DepsOf(x, d))
    BY RefsNums
  <2>3. One(d = None) = 0
    BY ExceptionAssumption DEF One
  <2>4. One(d \in H \cup {e}) = One(d \in H) + One(d = e) /\ One(d \in H) \in Nat /\ One(d = e) \in Nat
    BY DEF One
  <2> QED
    BY <2>1, <2>2, <2>3, <2>4 DEF RefsOf
<1> QED
  BY <1>1 DEF RefsOK

LEMMA RefsDrop ==
    ASSUME NEW x, NEW H, NEW q, NEW e \in Exc, RefsOK(x, H, q, None), e \in H
    PROVE  RefsOK(x, H \ {e}, q, e)
<1>1. ASSUME NEW d \in Exc PROVE RefsOf(x, H \ {e}, q, e, d) = RefsOf(x, H, q, None, d)
  <2>1. PICK P \in Nat : P = Cardinality(PtrsTo(q, d))
    BY RefsNums
  <2>2. PICK D \in Nat : D = Cardinality(DepsOf(x, d))
    BY RefsNums
  <2>3. One(d = None) = 0
    BY ExceptionAssumption DEF One
  <2>4. /\ One(d \in H) = One(d \in H \ {e}) + One(d = e)
        /\ One(d \in H \ {e}) \in Nat /\ One(d = e) \in Nat
    BY DEF One
  <2> QED
    BY <2>1, <2>2, <2>3, <2>4 DEF RefsOf
<1> QED
  BY <1>1 DEF RefsOK

\* A new exception.
LEMMA RefsNew ==
    ASSUME NEW x, NEW H, NEW q \in [Ptr -> Exc \cup {None}], RefsOK(x, H, q, None),
           NEW e \in Exc, x[e].kind = "free", NEW y, \A d \in Exc : d # e => y[d] = x[d],
           y[e].kind \in {"native", "foreign"}, y[e].kind = "native" => y[e].referenceCount = 1
    PROVE  RefsOK(y, H, q, e) /\ e \notin H
<1>1. \A d \in Exc : DepsOf(y, d) = DepsOf(x, d)
  BY DEF DepsOf
<1>2. RefsOf(x, H, q, None, e) = 0
  BY DEF RefsOK
<1>3. /\ e \notin H /\ \A p \in Ptr : q[p] # e
      /\ \A d \in Exc : ~(x[d].kind = "dependent" /\ x[d].primary = e)
  BY <1>2, RefsNat
<1>4. ASSUME NEW d \in Exc
      PROVE  RefsOf(y, H, q, e, d) = RefsOf(x, H, q, None, d) + One(d = e)
  <2>1. PICK P \in Nat : P = Cardinality(PtrsTo(q, d))
    BY RefsNums
  <2>2. PICK D \in Nat : D = Cardinality(DepsOf(x, d))
    BY RefsNums
  <2>3. One(d = None) = 0 /\ One(d = e) \in Nat /\ One(d \in H) \in Nat
    BY ExceptionAssumption DEF One
  <2>4. Cardinality(DepsOf(y, d)) = D
    BY <1>1, <2>2
  <2> QED
    BY <2>1, <2>2, <2>3, <2>4 DEF RefsOf
<1>5. ASSUME NEW d \in Exc
      PROVE  /\ y[d].kind = "free" <=> RefsOf(y, H, q, e, d) = 0
             /\ y[d].kind = "native" => y[d].referenceCount = RefsOf(y, H, q, e, d)
  <2>1. CASE d = e
    <3>1. RefsOf(y, H, q, e, d) = 1
      BY <1>2, <1>4, <2>1 DEF One
    <3> QED
      BY <2>1, <3>1
  <2>2. CASE d # e
    <3>1. RefsOf(y, H, q, e, d) = RefsOf(x, H, q, None, d)
      <4>1. RefsOf(x, H, q, None, d) \in Nat
        BY RefsNat
      <4> QED
        BY <1>4, <2>2, <4>1 DEF One
    <3> QED
      BY <2>2, <3>1 DEF RefsOK
  <2> QED
    BY <2>1, <2>2
<1>6. \A p \in Ptr : q[p] # None => y[q[p]].kind = "native"
  BY <1>3 DEF RefsOK
<1>7. \A d \in Exc : y[d].kind = "dependent" => y[d].primary \in Exc /\ y[y[d].primary].kind = "native"
  BY <1>3 DEF RefsOK
<1> QED
  BY <1>3, <1>5, <1>6, <1>7 DEF RefsOK

LEMMA RefsIncrement ==
    ASSUME NEW x \in [Exc -> Header], NEW H, NEW q \in [Ptr -> Exc \cup {None}],
           RefsOK(x, H, q, None), NEW e \in Exc, x[e].kind = "native"
    PROVE  RefsOK(increment(x, e), H, q, e) /\ Alike(x, increment(x, e), Exc)
<1>1. PICK y : y = increment(x, e)
  OBVIOUS
<1>2. y = [x EXCEPT ![e] = [x[e] EXCEPT !.referenceCount = x[e].referenceCount + 1]]
  BY <1>1, ExceptionAssumption DEF increment
<1>3. y[e] = [x[e] EXCEPT !.referenceCount = x[e].referenceCount + 1] /\ x[e] \in Header
  BY <1>2
<1>4. /\ y \in [Exc -> Header] /\ \A d \in Exc : d # e => y[d] = x[d]
      /\ y[e].referenceCount = x[e].referenceCount + 1
      /\ y[e].kind = x[e].kind /\ y[e].type = x[e].type /\ y[e].primary = x[e].primary
      /\ y[e].handlerCount = x[e].handlerCount /\ y[e].nextException = x[e].nextException
      /\ y[e].private_2 = x[e].private_2 /\ y[e].handlerSwitchValue = x[e].handlerSwitchValue
  <2>1. y[e] \in Header
    BY <1>3 DEF Header
  <2>2. y \in [Exc -> Header] /\ \A d \in Exc : d # e => y[d] = x[d]
    BY <1>2, <1>3, <2>1
  <2> QED
    BY <1>3, <2>2 DEF Header
<1>5. \A d \in Exc : y[d].kind = x[d].kind /\ y[d].primary = x[d].primary
  BY <1>4
<1>6. \A d \in Exc : DepsOf(y, d) = DepsOf(x, d)
  BY <1>5 DEF DepsOf
<1>7. ASSUME NEW d \in Exc
      PROVE  /\ RefsOf(y, H, q, e, d) = RefsOf(x, H, q, None, d) + One(d = e)
             /\ RefsOf(x, H, q, None, d) \in Nat
  <2>1. PICK P \in Nat : P = Cardinality(PtrsTo(q, d))
    BY RefsNums
  <2>2. PICK D \in Nat : D = Cardinality(DepsOf(x, d))
    BY RefsNums
  <2>3. One(d = None) = 0 /\ One(d = e) \in Nat /\ One(d \in H) \in Nat
    BY ExceptionAssumption DEF One
  <2>4. Cardinality(DepsOf(y, d)) = D
    BY <1>6, <2>2
  <2> QED
    BY <2>1, <2>2, <2>3, <2>4 DEF RefsOf
<1>8. ASSUME NEW d \in Exc
      PROVE  /\ y[d].kind = "free" <=> RefsOf(y, H, q, e, d) = 0
             /\ y[d].kind = "native" => y[d].referenceCount = RefsOf(y, H, q, e, d)
  <2>1. CASE d = e
    <3>1. RefsOf(y, H, q, e, d) = RefsOf(x, H, q, None, d) + 1
      BY <1>7, <2>1 DEF One
    <3>2. x[d].referenceCount = RefsOf(x, H, q, None, d) /\ RefsOf(x, H, q, None, d) \in Nat
      BY <1>7, <2>1 DEF RefsOK
    <3> QED
      BY <1>4, <2>1, <3>1, <3>2
  <2>2. CASE d # e
    <3>1. RefsOf(y, H, q, e, d) = RefsOf(x, H, q, None, d)
      BY <1>7, <2>2 DEF One
    <3>2. y[d] = x[d]
      BY <1>4, <2>2
    <3> QED
      BY <3>1, <3>2 DEF RefsOK
  <2> QED
    BY <2>1, <2>2
<1>9. RefsOK(y, H, q, e)
  BY <1>5, <1>8 DEF RefsOK
<1>10. Alike(x, y, Exc)
  BY <1>4 DEF Alike
<1> QED
  BY <1>1, <1>9, <1>10

\* The last reference frees the exception, and only that one.
LEMMA RefsDecrement ==
    ASSUME NEW x \in [Exc -> Header], NEW H \in SUBSET Exc, NEW q \in [Ptr -> Exc \cup {None}],
           NEW r \in Exc, RefsOK(x, H, q, r), x[r].kind = "native"
    PROVE  /\ RefsOK(decrement(x, r), H, q, None) /\ Alike(x, decrement(x, r), H)
           /\ \A d \in Exc : d # r => decrement(x, r)[d] = x[d]
<1>1. PICK y : y = decrement(x, r)
  OBVIOUS
<1>2. r # None /\ x[r] \in Header /\ x[r].referenceCount \in Nat
  BY ExceptionAssumption DEF Header
<1>3. x[r].referenceCount = RefsOf(x, H, q, r, r)
  BY DEF RefsOK
<1>4. PICK P \in Nat : P = Cardinality(PtrsTo(q, r))
  BY RefsNums
<1>5. PICK D \in Nat : D = Cardinality(DepsOf(x, r))
  BY RefsNums
<1>6. x[r].referenceCount = One(r \in H) + P + D + 1
  BY <1>3, <1>4, <1>5 DEF RefsOf, One
<1>7. ASSUME NEW d \in Exc, \A i \in Exc : DepsOf(y, i) = DepsOf(x, i)
      PROVE  /\ RefsOf(x, H, q, r, d) = RefsOf(y, H, q, None, d) + One(d = r)
             /\ RefsOf(y, H, q, None, d) \in Nat
  <2>1. PICK P1 \in Nat : P1 = Cardinality(PtrsTo(q, d))
    BY RefsNums
  <2>2. PICK D1 \in Nat : D1 = Cardinality(DepsOf(x, d))
    BY RefsNums
  <2>3. One(d = None) = 0 /\ One(d = r) \in Nat /\ One(d \in H) \in Nat
    BY ExceptionAssumption DEF One
  <2>4. Cardinality(DepsOf(y, d)) = D1
    BY <1>7, <2>2
  <2> QED
    BY <2>1, <2>2, <2>3, <2>4 DEF RefsOf
<1>8. CASE x[r].referenceCount = 1
  <2>1. P = 0 /\ D = 0 /\ r \notin H
    BY <1>6, <1>8 DEF One
  <2>2. /\ \A p \in Ptr : q[p] # r
        /\ \A d \in Exc : ~(x[d].kind = "dependent" /\ x[d].primary = r)
    BY <1>4, <1>5, <2>1, RefsNums
  <2>3. y = [x EXCEPT ![r] = Unallocated]
    BY <1>1, <1>2, <1>8 DEF decrement
  <2>4. /\ Unallocated \in Header /\ Unallocated.kind = "free"
    BY ExceptionAssumption DEF Unallocated, Header, Action
  <2>5. /\ y \in [Exc -> Header] /\ y[r].kind = "free"
        /\ \A d \in Exc : d # r => y[d] = x[d]
    BY <2>3, <2>4
  <2>6. \A i \in Exc : DepsOf(y, i) = DepsOf(x, i)
    BY <2>5 DEF DepsOf
  <2>7. ASSUME NEW d \in Exc
        PROVE  /\ y[d].kind = "free" <=> RefsOf(y, H, q, None, d) = 0
               /\ y[d].kind = "native" => y[d].referenceCount = RefsOf(y, H, q, None, d)
    <3>1. CASE d = r
      <4>1. RefsOf(x, H, q, r, d) = RefsOf(y, H, q, None, d) + 1 /\ RefsOf(y, H, q, None, d) \in Nat
        BY <1>7, <2>6, <3>1 DEF One
      <4>2. RefsOf(x, H, q, r, d) = 1
        BY <1>3, <1>8, <3>1
      <4> QED
        BY <2>5, <3>1, <4>1, <4>2
    <3>2. CASE d # r
      <4>1. RefsOf(x, H, q, r, d) = RefsOf(y, H, q, None, d)
        BY <1>7, <2>6, <3>2 DEF One
      <4>2. y[d] = x[d]
        BY <2>5, <3>2
      <4> QED
        BY <4>1, <4>2 DEF RefsOK
    <3> QED
      BY <3>1, <3>2
  <2>8. RefsOK(y, H, q, None)
    <3>1. \A p \in Ptr : q[p] # None => y[q[p]].kind = "native"
      BY <2>2, <2>5 DEF RefsOK
    <3>2. \A d \in Exc : y[d].kind = "dependent" =>
              y[d].primary \in Exc /\ y[y[d].primary].kind = "native"
      BY <2>2, <2>5 DEF RefsOK
    <3> QED
      BY <2>7, <3>1, <3>2 DEF RefsOK
  <2>9. Alike(x, y, H)
    BY <2>1, <2>5 DEF Alike
  <2> QED
    BY <1>1, <2>5, <2>8, <2>9
<1>9. CASE x[r].referenceCount # 1
  <2>1. y = [x EXCEPT ![r] = [x[r] EXCEPT !.referenceCount = x[r].referenceCount - 1]]
    BY <1>1, <1>2, <1>9 DEF decrement
  <2>2. y[r] = [x[r] EXCEPT !.referenceCount = x[r].referenceCount - 1]
    BY <2>1
  <2>3. x[r].referenceCount - 1 \in Nat
    BY <1>6, <1>2 DEF One
  <2>4. y[r] \in Header
    BY <1>2, <2>2, <2>3 DEF Header
  <2>5. /\ y \in [Exc -> Header] /\ \A d \in Exc : d # r => y[d] = x[d]
    BY <2>1, <2>2, <2>4
  <2>6. /\ y[r].referenceCount = x[r].referenceCount - 1
        /\ y[r].kind = x[r].kind /\ y[r].type = x[r].type /\ y[r].primary = x[r].primary
        /\ y[r].handlerCount = x[r].handlerCount /\ y[r].nextException = x[r].nextException
        /\ y[r].private_2 = x[r].private_2 /\ y[r].handlerSwitchValue = x[r].handlerSwitchValue
    BY <1>2, <2>2 DEF Header
  <2>7. \A d \in Exc : y[d].kind = x[d].kind /\ y[d].primary = x[d].primary
    BY <2>5, <2>6
  <2>8. \A i \in Exc : DepsOf(y, i) = DepsOf(x, i)
    BY <2>7 DEF DepsOf
  <2>9. ASSUME NEW d \in Exc
        PROVE  /\ y[d].kind = "free" <=> RefsOf(y, H, q, None, d) = 0
               /\ y[d].kind = "native" => y[d].referenceCount = RefsOf(y, H, q, None, d)
    <3>1. CASE d = r
      <4>1. RefsOf(x, H, q, r, d) = RefsOf(y, H, q, None, d) + 1 /\ RefsOf(y, H, q, None, d) \in Nat
        BY <1>7, <2>8, <3>1 DEF One
      <4>2. RefsOf(x, H, q, r, d) # 1
        BY <1>3, <1>9, <3>1
      <4>3. y[d].referenceCount = RefsOf(y, H, q, None, d)
        BY <1>3, <2>6, <3>1, <4>1
      <4> QED
        BY <2>6, <3>1, <4>1, <4>2, <4>3
    <3>2. CASE d # r
      <4>1. RefsOf(x, H, q, r, d) = RefsOf(y, H, q, None, d)
        BY <1>7, <2>8, <3>2 DEF One
      <4>2. y[d] = x[d]
        BY <2>5, <3>2
      <4> QED
        BY <4>1, <4>2 DEF RefsOK
    <3> QED
      BY <3>1, <3>2
  <2>10. RefsOK(y, H, q, None)
    BY <2>7, <2>9 DEF RefsOK
  <2>11. Alike(x, y, H)
    <3>1. \A d \in Exc : /\ y[d].kind = x[d].kind /\ y[d].type = x[d].type
                         /\ y[d].handlerCount = x[d].handlerCount
                         /\ y[d].nextException = x[d].nextException
                         /\ y[d].private_2 = x[d].private_2
                         /\ y[d].handlerSwitchValue = x[d].handlerSwitchValue
      BY <2>5, <2>6
    <3> QED
      BY <2>5, <3>1 DEF Alike
  <2> QED
    BY <1>1, <2>5, <2>10, <2>11
<1> QED
  BY <1>8, <1>9

\* An exception_ptr takes over the reference and gives its own.
LEMMA RefsSwap ==
    ASSUME NEW x, NEW H, NEW q \in [Ptr -> Exc \cup {None}], NEW e \in Exc \cup {None},
           RefsOK(x, H, q, e), e # None => x[e].kind = "native", NEW p \in Ptr
    PROVE  RefsOK(x, H, [q EXCEPT ![p] = e], q[p])
<1>1. PICK s \in [Ptr -> Exc \cup {None}] :
          s[p] = e /\ (\A o \in Ptr : o # p => s[o] = q[o]) /\ s = [q EXCEPT ![p] = e]
  OBVIOUS
<1>2. ASSUME NEW d \in Exc PROVE RefsOf(x, H, s, q[p], d) = RefsOf(x, H, q, e, d)
  <2>1. PICK M : M = PtrsTo(q, d) \ {p}
    OBVIOUS
  <2>2. PICK A : A = PtrsTo(q, d)
    OBVIOUS
  <2>3. PICK B : B = PtrsTo(s, d)
    OBVIOUS
  <2>4. IsFiniteSet(A) /\ IsFiniteSet(M) /\ p \notin M
    <3>1. IsFiniteSet(A)
      BY <2>2, RefsNums
    <3> QED
      BY <2>1, <2>2, <3>1, FS_RemoveElement
  <2>5. A = (IF q[p] = d THEN M \cup {p} ELSE M) /\ B = (IF e = d THEN M \cup {p} ELSE M)
    BY <1>1, <2>1, <2>2, <2>3 DEF PtrsTo
  <2>6. Cardinality(M) \in Nat /\ Cardinality(M \cup {p}) = Cardinality(M) + 1
    BY <2>4, FS_CardinalityType, FS_AddElement
  <2>7. Cardinality(A) = Cardinality(M) + One(d = q[p]) /\ Cardinality(B) = Cardinality(M) + One(d = e)
    <3>1. Cardinality(A) = Cardinality(M) + One(d = q[p])
      BY <2>5, <2>6 DEF One
    <3>2. Cardinality(B) = Cardinality(M) + One(d = e)
      BY <2>5, <2>6 DEF One
    <3> QED
      BY <3>1, <3>2
  <2>8. PICK D \in Nat : D = Cardinality(DepsOf(x, d))
    BY RefsNums
  <2>9. One(d = q[p]) \in Nat /\ One(d = e) \in Nat /\ One(d \in H) \in Nat
    BY DEF One
  <2> QED
    BY <2>2, <2>3, <2>6, <2>7, <2>8, <2>9 DEF RefsOf
<1>3. \A o \in Ptr : s[o] # None => x[s[o]].kind = "native"
  BY <1>1 DEF RefsOK
<1>4. RefsOK(x, H, s, q[p])
  BY <1>2, <1>3 DEF RefsOK
<1> QED
  BY <1>1, <1>4

\* A dependent exception takes over the reference to its primary exception.
LEMMA RefsDependent ==
    ASSUME NEW x, NEW H, NEW q \in [Ptr -> Exc \cup {None}], NEW e \in Exc, RefsOK(x, H, q, e),
           x[e].kind = "native", NEW d \in Exc, x[d].kind = "free",
           NEW y, \A i \in Exc : i # d => y[i] = x[i], y[d].kind = "dependent", y[d].primary = e
    PROVE  RefsOK(y, H, q, d) /\ d \notin H
<1>1. RefsOf(x, H, q, e, d) = 0
  BY DEF RefsOK
<1>2. /\ d \notin H /\ d # e /\ \A p \in Ptr : q[p] # d
      /\ \A i \in Exc : ~(x[i].kind = "dependent" /\ x[i].primary = d)
  BY <1>1, RefsNat
<1>3. ASSUME NEW i \in Exc
      PROVE  RefsOf(y, H, q, d, i) = RefsOf(x, H, q, e, i) + One(i = d)
  <2>1. PICK A : A = DepsOf(x, i)
    OBVIOUS
  <2>2. PICK B : B = DepsOf(y, i)
    OBVIOUS
  <2>3. B = (IF i = e THEN A \cup {d} ELSE A) /\ d \notin A
    BY <2>1, <2>2 DEF DepsOf
  <2>4. IsFiniteSet(A) /\ Cardinality(A) \in Nat
    BY <2>1, RefsNums
  <2>5. Cardinality(B) = Cardinality(A) + One(i = e)
    <3>1. Cardinality(A \cup {d}) = Cardinality(A) + 1
      BY <2>3, <2>4, FS_AddElement
    <3> QED
      BY <2>3, <2>4, <3>1 DEF One
  <2>6. PICK P \in Nat : P = Cardinality(PtrsTo(q, i))
    BY RefsNums
  <2>7. One(i = d) \in Nat /\ One(i = e) \in Nat /\ One(i \in H) \in Nat
    BY DEF One
  <2> QED
    BY <2>1, <2>2, <2>4, <2>5, <2>6, <2>7 DEF RefsOf
<1>4. ASSUME NEW i \in Exc
      PROVE  /\ y[i].kind = "free" <=> RefsOf(y, H, q, d, i) = 0
             /\ y[i].kind = "native" => y[i].referenceCount = RefsOf(y, H, q, d, i)
  <2>1. CASE i = d
    BY <1>1, <1>3, <2>1 DEF One
  <2>2. CASE i # d
    <3>1. RefsOf(x, H, q, e, i) \in Nat
      BY RefsNat
    <3>2. RefsOf(y, H, q, d, i) = RefsOf(x, H, q, e, i)
      BY <1>3, <2>2, <3>1 DEF One
    <3> QED
      BY <2>2, <3>2 DEF RefsOK
  <2> QED
    BY <2>1, <2>2
<1>5. \A p \in Ptr : q[p] # None => y[q[p]].kind = "native"
  BY <1>2 DEF RefsOK
<1>6. \A i \in Exc : y[i].kind = "dependent" => y[i].primary \in Exc /\ y[y[i].primary].kind = "native"
  <2>1. ASSUME NEW i \in Exc, y[i].kind = "dependent"
        PROVE  y[i].primary \in Exc /\ y[y[i].primary].kind = "native"
    <3>1. CASE i = d
      BY <1>2, <3>1
    <3>2. CASE i # d
      BY <1>2, <2>1, <3>2 DEF RefsOK
    <3> QED
      BY <3>1, <3>2
  <2> QED
    BY <2>1
<1> QED
  BY <1>2, <1>4, <1>5, <1>6 DEF RefsOK

\* A dependent exception is freed and leaves the reference to its primary
\* exception; a foreign one leaves none.
LEMMA RefsFree ==
    ASSUME NEW x, NEW H, NEW q \in [Ptr -> Exc \cup {None}], NEW d \in Exc, RefsOK(x, H, q, d),
           d \notin H, x[d].kind \in {"dependent", "foreign"},
           NEW y, \A i \in Exc : i # d => y[i] = x[i], y[d].kind = "free",
           NEW r, r = IF x[d].kind = "dependent" THEN x[d].primary ELSE None
    PROVE  /\ RefsOK(y, H, q, r)
           /\ r # None => r \in Exc /\ y[r].kind = "native"
<1>1. /\ \A p \in Ptr : q[p] # d
      /\ \A i \in Exc : ~(x[i].kind = "dependent" /\ x[i].primary = d)
  BY ExceptionAssumption DEF RefsOK
<1>2. r # None => r \in Exc /\ x[r].kind = "native" /\ r # d
  BY DEF RefsOK
<1>3. ASSUME NEW i \in Exc
      PROVE  RefsOf(x, H, q, d, i) = RefsOf(y, H, q, r, i) + One(i = d)
  <2>1. PICK A : A = DepsOf(y, i)
    OBVIOUS
  <2>2. PICK B : B = DepsOf(x, i)
    OBVIOUS
  <2>3. B = (IF i = r THEN A \cup {d} ELSE A) /\ d \notin A
    BY ExceptionAssumption, <2>1, <2>2 DEF DepsOf
  <2>4. IsFiniteSet(A) /\ Cardinality(A) \in Nat
    BY <2>1, RefsNums
  <2>5. Cardinality(B) = Cardinality(A) + One(i = r)
    <3>1. Cardinality(A \cup {d}) = Cardinality(A) + 1
      BY <2>3, <2>4, FS_AddElement
    <3> QED
      BY <2>3, <2>4, <3>1 DEF One
  <2>6. PICK P \in Nat : P = Cardinality(PtrsTo(q, i))
    BY RefsNums
  <2>7. One(i = d) \in Nat /\ One(i = r) \in Nat /\ One(i \in H) \in Nat
    BY DEF One
  <2> QED
    BY <2>1, <2>2, <2>4, <2>5, <2>6, <2>7 DEF RefsOf
<1>4. ASSUME NEW i \in Exc
      PROVE  /\ y[i].kind = "free" <=> RefsOf(y, H, q, r, i) = 0
             /\ y[i].kind = "native" => y[i].referenceCount = RefsOf(y, H, q, r, i)
  <2>1. CASE i = d
    <3>1. \A j \in Exc : ~(y[j].kind = "dependent" /\ y[j].primary = d)
      BY <1>1
    <3>2. d # r
      BY <1>2, ExceptionAssumption
    <3>3. RefsOf(y, H, q, r, d) = 0
      BY <1>1, <3>1, <3>2, RefsNat
    <3> QED
      BY <2>1, <3>3
  <2>2. CASE i # d
    <3>1. RefsOf(y, H, q, r, i) \in Nat
      BY RefsNat
    <3>2. RefsOf(y, H, q, r, i) = RefsOf(x, H, q, d, i)
      BY <1>3, <2>2, <3>1 DEF One
    <3> QED
      BY <2>2, <3>2 DEF RefsOK
  <2> QED
    BY <2>1, <2>2
<1>5. \A p \in Ptr : q[p] # None => y[q[p]].kind = "native"
  BY <1>1 DEF RefsOK
<1>6. \A i \in Exc : y[i].kind = "dependent" => y[i].primary \in Exc /\ y[y[i].primary].kind = "native"
  BY <1>1 DEF RefsOK
<1> QED
  BY <1>2, <1>4, <1>5, <1>6 DEF RefsOK

-----------------------------------------------------------------------------
(***************************************************************************)
(* One thread among others: O are the exceptions that the frames of other  *)
(* threads hold.                                                           *)
(***************************************************************************)
Local(x, c, u, fs, q, O) ==
    /\ StackOK(x, c, u, fs) /\ AwaitsOK(x, fs)
    /\ O \subseteq Exc /\ O \cap Held(fs) = {} /\ q \in [Ptr -> Exc \cup {None}]
    /\ RefsOK(x, O \cup Held(fs), q, None)

\* What a library call may leave behind, x being the headers before and s the
\* exception_ptr objects after it: the thread is well formed again or the
\* process has ended, and other threads' exceptions are as they were.
Good(x, O, r, s) ==
    /\ r.exc \in [Exc -> Header] /\ r.caught \in Exc \cup {None} /\ r.uncaught \in Nat
    /\ r.frames \in Seq(Frame) \ {<<>>} /\ r.process \in {"running", "terminated"} \cup Exc
    /\ s \in [Ptr -> Exc \cup {None}]
    /\ r.uncaught = Cardinality(NativeFlights(r.exc, r.frames))
    /\ \A d \in O : r.exc[d].kind = x[d].kind
    /\ r.process = "running" => /\ Local(r.exc, r.caught, r.uncaught, r.frames, s, O)
                                /\ Alike(x, r.exc, O)

LEMMA LocalTypes ==
    ASSUME NEW x, NEW c, NEW u, NEW fs, StackOK(x, c, u, fs)
    PROVE  /\ x \in [Exc -> Header] /\ ShapeOK(fs) /\ fs \in Seq(Frame) \ {<<>>}
           /\ c \in Exc \cup {None} /\ u \in Nat /\ u = Cardinality(NativeFlights(x, fs))
<1>1. /\ ShapeOK(fs) /\ x \in [Exc -> Header] /\ c = HeadBelow(fs, Len(fs) + 1)
      /\ u = Cardinality(NativeFlights(x, fs))
  BY DEF StackOK
<1>2. fs \in Seq(Frame) /\ Len(fs) \in Nat /\ Len(fs) >= 1 /\ Cardinality(NativeFlights(x, fs)) \in Nat
  BY <1>1, ShapeFacts
<1>3. fs # <<>>
  BY <1>2
<1>4. Len(fs) + 1 \in Nat
  BY <1>2
<1>5. c \in Exc \cup {None}
  BY <1>1, <1>4, HeadType
<1> QED
  BY <1>1, <1>2, <1>3, <1>5

LEMMA GoodRunning ==
    ASSUME NEW x, NEW O, NEW y, NEW c, NEW u, NEW fs, NEW s, Local(y, c, u, fs, s, O), Alike(x, y, O)
    PROVE  Good(x, O, St(y, c, u, fs), s)
<1>1. PICK r : r = St(y, c, u, fs)
  OBVIOUS
<1>2. r.exc = y /\ r.caught = c /\ r.uncaught = u /\ r.frames = fs /\ r.process = "running"
  BY <1>1 DEF St
<1>3. /\ y \in [Exc -> Header] /\ fs \in Seq(Frame) \ {<<>>} /\ c \in Exc \cup {None} /\ u \in Nat
      /\ u = Cardinality(NativeFlights(y, fs))
  BY LocalTypes DEF Local
<1>4. s \in [Ptr -> Exc \cup {None}] /\ \A d \in O : y[d].kind = x[d].kind
  BY DEF Local, Alike
<1>5. Good(x, O, r, s)
  BY <1>2, <1>3, <1>4 DEF Good
<1> QED
  BY <1>1, <1>5

LEMMA GoodTerminated ==
    ASSUME NEW x, NEW c, NEW u, NEW fs, NEW s, NEW O, Local(x, c, u, fs, s, O)
    PROVE  Good(x, O, terminate(St(x, c, u, fs), "terminated"), s)
<1>1. PICK r : r = terminate(St(x, c, u, fs), "terminated")
  OBVIOUS
<1>2. r.exc = x /\ r.caught = c /\ r.uncaught = u /\ r.frames = fs /\ r.process = "terminated"
  BY <1>1 DEF St, terminate
<1>3. /\ x \in [Exc -> Header] /\ fs \in Seq(Frame) \ {<<>>} /\ c \in Exc \cup {None} /\ u \in Nat
      /\ u = Cardinality(NativeFlights(x, fs))
  BY LocalTypes DEF Local
<1>4. s \in [Ptr -> Exc \cup {None}]
  BY DEF Local
<1>5. Good(x, O, r, s)
  BY <1>2, <1>3, <1>4 DEF Good
<1> QED
  BY <1>1, <1>5

\* Unwinding has ended.
LEMMA FlyOn ==
    ASSUME NEW x, NEW y, NEW c, NEW u, NEW fs, NEW e, Airborne(y, c, u, fs, e),
           NEW q \in [Ptr -> Exc \cup {None}], NEW O \in SUBSET Exc, O \cap Held(fs) = {},
           Alike(x, y, O), RefsOK(y, O \cup Held(fs), q, None),
           NEW r, Died(y, Pop(fs), r) \/ Landed(y, fs, e, r)
    PROVE  Good(x, O, r, q)
<1>1. /\ y \in [Exc -> Header] /\ ShapeOK(fs) /\ Len(fs) \in Nat /\ Len(fs) > 1 /\ e \in Exc
  BY AirborneFacts
<1>2. CASE Died(y, Pop(fs), r)
  <2>1. PICK gs : gs = Pop(fs)
    OBVIOUS
  <2>2. ShapeOK(gs)
    BY <1>1, <2>1, PopFacts
  <2>3. /\ r.process \in {"terminated"} \cup Exc /\ r.exc \in [Exc -> Header]
        /\ r.caught \in Exc \cup {None} /\ r.frames = gs
        /\ \A d \in Exc : r.exc[d].kind = y[d].kind
        /\ r.uncaught = Cardinality(NativeFlights(y, gs))
    BY <1>2, <2>1 DEF Died
  <2>4. /\ gs \in Seq(Frame) /\ gs # <<>> /\ Cardinality(NativeFlights(y, gs)) \in Nat
        /\ \A i \in 1 .. Len(gs) : gs[i].flying \in Exc \cup {None}
    <3>1. gs \in Seq(Frame) /\ Len(gs) >= 1
      BY <2>2, ShapeFacts
    <3>2. gs # <<>>
      BY <3>1
    <3> QED
      BY <2>2, <3>1, <3>2, ShapeFacts
  <2>5. NativeFlights(r.exc, gs) = NativeFlights(y, gs)
    BY <2>3, <2>4 DEF NativeFlights
  <2>6. \A d \in O : r.exc[d].kind = x[d].kind
    BY <2>3 DEF Alike
  <2>7. r.process # "running"
    BY <2>3, ExceptionAssumption
  <2>8. /\ r.uncaught \in Nat /\ r.uncaught = Cardinality(NativeFlights(r.exc, r.frames))
        /\ r.frames \in Seq(Frame) \ {<<>>}
        /\ r.process \in {"running", "terminated"} \cup Exc
    BY <2>3, <2>4, <2>5
  <2> QED
    BY <2>3, <2>6, <2>7, <2>8 DEF Good
<1>3. CASE Landed(y, fs, e, r)
  <2>1. /\ r = St(r.exc, r.caught, r.uncaught, r.frames)
        /\ StackOK(r.exc, r.caught, r.uncaught, r.frames) /\ AwaitsOK(r.exc, r.frames)
        /\ Held(r.frames) = Held(fs) /\ OnlyTouched(y, r.exc, e)
    BY <1>3 DEF Landed
  <2>2. PICK z, c2, u2, gs : z = r.exc /\ c2 = r.caught /\ u2 = r.uncaught /\ gs = r.frames
    OBVIOUS
  <2>3. /\ r = St(z, c2, u2, gs) /\ StackOK(z, c2, u2, gs) /\ AwaitsOK(z, gs)
        /\ Held(gs) = Held(fs) /\ OnlyTouched(y, z, e)
    BY <2>1, <2>2
  <2>4. e \in Held(fs) /\ e \notin O
    <3>1. Len(fs) \in 1 .. Len(fs) /\ fs[Len(fs)].flying = e /\ e # None
      BY <1>1, ExceptionAssumption DEF Airborne
    <3>2. e \in Held(fs)
      BY <1>1, <3>1, HeldFacts
    <3> QED
      BY <3>2
  <2>5. /\ z \in [Exc -> Header] /\ \A d \in Exc : d # e => z[d] = y[d]
        /\ \A d \in Exc : /\ z[d].kind = y[d].kind /\ z[d].primary = y[d].primary
                          /\ z[d].referenceCount = y[d].referenceCount
    BY <2>3 DEF OnlyTouched
  <2>6. RefsOK(z, O \cup Held(gs), q, None)
    BY <2>3, <2>5, RefsSame
  <2>7. Alike(x, z, O)
    BY <2>4, <2>5 DEF Alike
  <2>8. Local(z, c2, u2, gs, q, O)
    BY <2>3, <2>6 DEF Local
  <2> QED
    BY <2>3, <2>7, <2>8, GoodRunning
<1> QED
  BY <1>2, <1>3

\* Raising e, with the headers y, from the top of the stack.
LEMMA Raised ==
    ASSUME NEW x, NEW c, NEW u, NEW fs, NEW q, NEW O, StackOK(x, c, u, fs), AwaitsOK(x, fs),
           q \in [Ptr -> Exc \cup {None}], O \subseteq Exc, O \cap Held(fs) = {},
           NEW y, NEW e, Departs(x, y, c, fs, e), e \notin O, Alike(x, y, O),
           RefsOK(y, O \cup (Held(fs) \cup {e}), q, None),
           NEW v, v = IF y[e].kind = "foreign" THEN u ELSE u + 1
    PROVE  Good(x, O, RaiseException(St(y, c, v, fs), e), q)
<1>1. PICK gs : gs = Append(fs, PadOf(e))
  OBVIOUS
<1>2. Airborne(y, c, v, gs, e) /\ Pop(gs) = fs /\ Held(gs) = Held(fs) \cup {e}
  BY <1>1, PushFlight
<1>3. PICK r : r = RaiseException(St(y, c, v, fs), e)
  OBVIOUS
<1>4. Died(y, Pop(gs), r) \/ Landed(y, gs, e, r)
  BY <1>2, <1>3, RaiseOutcome
<1>5. O \cap Held(gs) = {} /\ RefsOK(y, O \cup Held(gs), q, None)
  BY <1>2
<1>6. Good(x, O, r, q)
  BY <1>2, <1>4, <1>5, FlyOn
<1> QED
  BY <1>3, <1>6

-----------------------------------------------------------------------------
(***************************************************************************)
(* The operations, seen by their thread.                                   *)
(***************************************************************************)
LEMMA AlikeItself ==
    ASSUME NEW x \in [Exc -> Header], NEW H
    PROVE  Alike(x, x, H)
BY DEF Alike

LEMMA LocalCall ==
    ASSUME NEW x, NEW c, NEW u, NEW fs, NEW q, NEW O, Local(x, c, u, fs, q, O),
           NEW site \in CallSites
    PROVE  Good(x, O, St(x, c, u, Append(fs, NewFrame(site))), q)
<1>1. /\ StackOK(x, c, u, fs) /\ AwaitsOK(x, fs) /\ ShapeOK(fs) /\ x \in [Exc -> Header]
      /\ O \subseteq Exc /\ q \in [Ptr -> Exc \cup {None}]
      /\ O \cap Held(fs) = {} /\ RefsOK(x, O \cup Held(fs), q, None)
  BY DEF Local, StackOK
<1>2. PICK f : f = NewFrame(site)
  OBVIOUS
<1>3. f \in Frame /\ f.at = "code" /\ FrameOK(f)
  <2>1. /\ f.at = "code" /\ f.flying = None /\ f.caught = None /\ f.sel = "cleanup"
    BY <1>2 DEF NewFrame
  <2>2. f \in Frame
    BY <1>2, ExceptionAssumption DEF NewFrame, Frame, Action
  <2> QED
    BY <2>1, <2>2 DEF FrameOK
<1>4. PICK gs : gs = Append(fs, f)
  OBVIOUS
<1>5. fs \in Seq(Frame) /\ Len(fs) \in Nat /\ Len(fs) >= 1
  BY <1>1, ShapeFacts
<1>6. /\ gs \in Seq(Frame) /\ Len(gs) = Len(fs) + 1 /\ gs[Len(fs) + 1] = f
      /\ \A i \in 1 .. Len(fs) : gs[i] = fs[i]
  BY <1>3, <1>4, <1>5
<1>7. \A i \in 1 .. Len(gs) : i \in 1 .. Len(fs) \/ i = Len(fs) + 1
  BY <1>5, <1>6
<1>8. ShapeOK(gs)
  <2>1. \A i \in 1 .. Len(gs) : FrameOK(gs[i])
    BY <1>1, <1>3, <1>6, <1>7, ShapeFacts
  <2>2. gs[1] = fs[1] /\ Len(gs) > 0
    BY <1>5, <1>6
  <2> QED
    BY <1>1, <1>6, <2>1, <2>2 DEF ShapeOK
<1>9. /\ \A i \in 1 .. Len(fs) : Len(fs) < i => fs[i].at = "code"
      /\ \A i \in 1 .. Len(gs) : Len(fs) < i => gs[i].at = "code"
      /\ Len(fs) <= Len(fs) /\ Len(fs) <= Len(gs)
  BY <1>3, <1>5, <1>6, <1>7
<1>10. StackOK(x, c, u, gs) /\ AwaitsOK(x, gs) /\ Held(gs) = Held(fs)
  BY <1>1, <1>5, <1>6, <1>8, <1>9, CodeMove
<1>11. Local(x, c, u, gs, q, O)
  BY <1>1, <1>10 DEF Local
<1> QED
  BY <1>1, <1>2, <1>4, <1>11, AlikeItself, GoodRunning

\* Frames of normal code go away.
LEMMA LocalPop ==
    ASSUME NEW x, NEW y, NEW c, NEW u, NEW fs, NEW q, NEW O, Local(y, c, u, fs, q, O),
           Alike(x, y, O), Len(fs) > 1, fs[Len(fs)].at = "code"
    PROVE  Good(x, O, St(y, c, u, Pop(fs)), q)
<1>1. /\ StackOK(y, c, u, fs) /\ AwaitsOK(y, fs) /\ ShapeOK(fs)
      /\ O \subseteq Exc /\ q \in [Ptr -> Exc \cup {None}]
      /\ O \cap Held(fs) = {} /\ RefsOK(y, O \cup Held(fs), q, None)
  BY DEF Local, StackOK
<1>2. PICK gs : gs = Pop(fs)
  OBVIOUS
<1>3. Len(fs) \in Nat
  BY <1>1, ShapeFacts
<1>4. PICK m \in Nat : m = Len(fs) - 1
  BY <1>3
<1>5. ShapeOK(gs) /\ Len(gs) = m /\ \A i \in 1 .. m : gs[i] = fs[i]
  BY <1>1, <1>2, <1>4, PopFacts
<1>6. /\ \A i \in 1 .. Len(fs) : m < i => fs[i].at = "code"
      /\ \A i \in 1 .. Len(gs) : m < i => gs[i].at = "code"
      /\ m <= Len(fs) /\ m <= Len(gs)
  <2>1. \A i \in 1 .. Len(fs) : m < i => i = Len(fs)
    BY <1>3, <1>4
  <2>2. \A i \in 1 .. m : ~(m < i)
    OBVIOUS
  <2> QED
    BY <1>3, <1>4, <1>5, <2>1, <2>2
<1>7. StackOK(y, c, u, gs) /\ AwaitsOK(y, gs) /\ Held(gs) = Held(fs)
  BY <1>1, <1>5, <1>6, CodeMove
<1>8. Local(y, c, u, gs, q, O)
  BY <1>1, <1>7 DEF Local
<1> QED
  BY <1>2, <1>8, GoodRunning

LEMMA FreeNotHeld ==
    ASSUME NEW x, NEW H, NEW q, NEW r, RefsOK(x, H, q, r), NEW e \in Exc, x[e].kind = "free"
    PROVE  e \notin H
<1>1. RefsOf(x, H, q, r, e) = 0
  BY DEF RefsOK
<1> QED
  BY <1>1, RefsNat

\* A thread throws the exception e, new among the headers y.
LEMMA LocalThrow ==
    ASSUME NEW x, NEW c, NEW u, NEW fs, NEW q, NEW O, Local(x, c, u, fs, q, O),
           NEW e \in Exc, x[e].kind = "free", NEW y \in [Exc -> Header],
           y[e].kind # "free", y[e].handlerCount = 0,
           Alike(x, y, (O \cup Held(fs)) \ {e}), RefsOK(y, O \cup Held(fs), q, e),
           NEW v, v = IF y[e].kind = "foreign" THEN u ELSE u + 1
    PROVE  Good(x, O, RaiseException(St(y, c, v, fs), e), q)
<1>1. /\ StackOK(x, c, u, fs) /\ AwaitsOK(x, fs) /\ ShapeOK(fs)
      /\ O \subseteq Exc /\ q \in [Ptr -> Exc \cup {None}]
      /\ O \cap Held(fs) = {} /\ RefsOK(x, O \cup Held(fs), q, None)
  BY DEF Local, StackOK
<1>2. e \notin O \cup Held(fs)
  BY <1>1, FreeNotHeld
<1>3. RefsOK(y, O \cup (Held(fs) \cup {e}), q, None)
  <2>1. RefsOK(y, (O \cup Held(fs)) \cup {e}, q, None)
    BY <1>2, RefsHold
  <2>2. (O \cup Held(fs)) \cup {e} = O \cup (Held(fs) \cup {e})
    OBVIOUS
  <2> QED
    BY <2>1, <2>2
<1>4. Flights(fs, e) = {} /\ Handlers(fs, e) = {}
  BY <1>2 DEF Held
<1>5. Alike(x, y, O) /\ Alike(x, y, Held(fs) \ {e})
  BY <1>2 DEF Alike
<1>6. y[e].handlerCount = -Cardinality(Handlers(fs, e))
  <2>1. Cardinality({}) = 0
    BY FS_EmptySet
  <2> QED
    BY <1>4, <2>1
<1>7. Departs(x, y, c, fs, e)
  BY <1>4, <1>5, <1>6 DEF Departs
<1> QED
  BY <1>1, <1>2, <1>3, <1>5, <1>7, Raised

\* A new header.
LEMMA UnallocatedFacts ==
    Unallocated \in Header /\ Unallocated.kind = "free" /\ Unallocated.handlerCount = 0
BY ExceptionAssumption DEF Unallocated, Header, Action

NativeNew(ty) == [Unallocated EXCEPT !.kind = "native", !.type = ty, !.referenceCount = 1]

LEMMA NativeHeader ==
    ASSUME NEW ty \in Type
    PROVE  NativeNew(ty) \in Header /\ NativeNew(ty).handlerCount = 0
           /\ NativeNew(ty).kind = "native" /\ NativeNew(ty).referenceCount = 1
<1>1. Unallocated \in Header /\ Unallocated.handlerCount = 0
  BY UnallocatedFacts
<1>2. NativeNew(ty) \in Header
  BY <1>1 DEF Header, NativeNew
<1>3. NativeNew(ty).handlerCount = 0 /\ NativeNew(ty).kind = "native" /\ NativeNew(ty).referenceCount = 1
  BY <1>1 DEF Header, NativeNew
<1> QED
  BY <1>2, <1>3

ForeignNew == [Unallocated EXCEPT !.kind = "foreign"]

LEMMA ForeignHeader ==
           ForeignNew \in Header /\ ForeignNew.handlerCount = 0
           /\ ForeignNew.kind = "foreign"
<1>1. Unallocated \in Header /\ Unallocated.handlerCount = 0
  BY UnallocatedFacts
<1>2. ForeignNew \in Header
  BY <1>1 DEF Header, ForeignNew
<1>3. ForeignNew.handlerCount = 0 /\ ForeignNew.kind = "foreign"
  BY <1>1 DEF Header, ForeignNew
<1> QED
  BY <1>2, <1>3

DependentOn(e, ty) == [Unallocated EXCEPT !.kind = "dependent", !.primary = e, !.type = ty]

LEMMA DependentHeader ==
    ASSUME NEW e \in Exc, NEW ty \in Type
    PROVE  DependentOn(e, ty) \in Header /\ DependentOn(e, ty).handlerCount = 0
           /\ DependentOn(e, ty).kind = "dependent" /\ DependentOn(e, ty).primary = e
<1>1. Unallocated \in Header /\ Unallocated.handlerCount = 0
  BY UnallocatedFacts
<1>2. DependentOn(e, ty) \in Header
  BY <1>1 DEF Header, DependentOn
<1>3. DependentOn(e, ty).handlerCount = 0 /\ DependentOn(e, ty).kind = "dependent" /\ DependentOn(e, ty).primary = e
  BY <1>1 DEF Header, DependentOn
<1> QED
  BY <1>2, <1>3

LEMMA LocalThrowNew ==
    ASSUME NEW x, NEW c, NEW u, NEW fs, NEW q, NEW O, Local(x, c, u, fs, q, O),
           NEW e \in Exc, x[e].kind = "free", NEW h \in Header,
           h.kind \in {"native", "foreign"}, h.kind = "native" => h.referenceCount = 1,
           h.handlerCount = 0, NEW v, v = IF h.kind = "foreign" THEN u ELSE u + 1
    PROVE  Good(x, O, RaiseException(St([x EXCEPT ![e] = h], c, v, fs), e), q)
<1>1. /\ x \in [Exc -> Header] /\ O \subseteq Exc /\ q \in [Ptr -> Exc \cup {None}]
      /\ RefsOK(x, O \cup Held(fs), q, None)
  BY DEF Local, StackOK
<1>2. PICK y : y = [x EXCEPT ![e] = h]
  OBVIOUS
<1>3. y \in [Exc -> Header] /\ y[e] = h /\ \A d \in Exc : d # e => y[d] = x[d]
  BY <1>1, <1>2
<1>4. RefsOK(y, O \cup Held(fs), q, e)
  BY <1>1, <1>3, RefsNew
<1>5. Held(fs) \subseteq Exc
  BY DEF Held
<1>6. Alike(x, y, (O \cup Held(fs)) \ {e})
  BY <1>1, <1>3, <1>5 DEF Alike
<1>7. y[e].kind # "free" /\ y[e].handlerCount = 0 /\ v = IF y[e].kind = "foreign" THEN u ELSE u + 1
  BY <1>3
<1> QED
  BY <1>2, <1>3, <1>4, <1>6, <1>7, LocalThrow

\* std::rethrow_exception of a pointer to e.
LEMMA LocalRethrowPtr ==
    ASSUME NEW x, NEW c, NEW u, NEW fs, NEW q, NEW O, Local(x, c, u, fs, q, O),
           NEW p \in Ptr, NEW e, e = q[p], e # None, NEW d \in Exc, x[d].kind = "free"
    PROVE  Good(x, O, RaiseException(St(rethrow_primary_exception(x, e, d), c, u + 1, fs), d), q)
<1>1. /\ x \in [Exc -> Header] /\ O \subseteq Exc /\ q \in [Ptr -> Exc \cup {None}]
      /\ RefsOK(x, O \cup Held(fs), q, None)
  BY DEF Local, StackOK
<1>2. e \in Exc /\ x[e].kind = "native" /\ d # e
  BY <1>1 DEF RefsOK
<1>3. PICK z : z = increment(x, e)
  OBVIOUS
<1>4. RefsOK(z, O \cup Held(fs), q, e) /\ Alike(x, z, Exc)
  BY <1>1, <1>2, <1>3, RefsIncrement
<1>5. PICK h : h = DependentOn(e, x[e].type)
  OBVIOUS
<1>6. h \in Header /\ h.kind = "dependent" /\ h.primary = e /\ h.handlerCount = 0
  <2>1. x[e].type \in Type
    BY <1>1, <1>2 DEF Header
  <2> QED
    BY <1>2, <1>5, <2>1, DependentHeader
<1>7. PICK y : y = rethrow_primary_exception(x, e, d)
  OBVIOUS
<1>8. y = [z EXCEPT ![d] = h]
  <2>1. z = [x EXCEPT ![e].referenceCount = @ + 1]
    BY <1>2, <1>3, ExceptionAssumption DEF increment
  <2>2. Dependent(x, e, d) = [x EXCEPT ![d] = h]
    BY <1>5 DEF Dependent, DependentOn
  <2>3. y = [[x EXCEPT ![d] = h] EXCEPT ![e].referenceCount = @ + 1]
    BY <1>2, <1>7, <2>2, ExceptionAssumption DEF rethrow_primary_exception, increment
  <2> HIDE <1>5
  <2> QED
    BY <1>1, <1>2, <2>1, <2>3
<1>9. z \in [Exc -> Header] /\ z[d].kind = "free" /\ z[e].kind = "native"
  BY <1>2, <1>4 DEF Alike
<1>10. y \in [Exc -> Header] /\ y[d] = h /\ \A i \in Exc : i # d => y[i] = z[i]
  BY <1>6, <1>8, <1>9
<1>11. RefsOK(y, O \cup Held(fs), q, d)
  BY <1>1, <1>2, <1>4, <1>6, <1>9, <1>10, RefsDependent
<1>12. Held(fs) \subseteq Exc
  BY DEF Held
<1>13. Alike(x, y, (O \cup Held(fs)) \ {d})
  BY <1>1, <1>4, <1>10, <1>12 DEF Alike
<1>14. y[d].kind # "free" /\ y[d].handlerCount = 0 /\ u + 1 = IF y[d].kind = "foreign" THEN u ELSE u + 1
  BY <1>6, <1>10
<1> QED
  BY <1>7, <1>10, <1>11, <1>13, <1>14, LocalThrow

\* An exception_ptr is changed, and with it one reference.
LEMMA LocalPtr ==
    ASSUME NEW x, NEW c, NEW u, NEW fs, NEW q, NEW O, Local(x, c, u, fs, q, O),
           NEW y, NEW s \in [Ptr -> Exc \cup {None}], Alike(x, y, O \cup Held(fs)),
           RefsOK(y, O \cup Held(fs), s, None)
    PROVE  Good(x, O, St(y, c, u, fs), s)
<1>1. /\ StackOK(x, c, u, fs) /\ AwaitsOK(x, fs) /\ O \subseteq Exc /\ O \cap Held(fs) = {}
  BY DEF Local
<1>2. Alike(x, y, Held(fs)) /\ Alike(x, y, O)
  BY DEF Alike
<1>3. StackOK(y, c, u, fs) /\ AwaitsOK(y, fs)
  BY <1>1, <1>2, ThreadAgrees
<1>4. Local(y, c, u, fs, s, O)
  BY <1>1, <1>3 DEF Local
<1> QED
  BY <1>2, <1>4, GoodRunning

\* BeginCatch enters the clause.
Entering(g, e) == [g EXCEPT !.frames[Len(g.frames)] =
                      [@ EXCEPT !.at = "handler", !.caught = e, !.flying = None, !.sel = "cleanup"]]

LEMMA EnteringIs ==
    ASSUME NEW x, NEW c, NEW u, NEW fs, NEW e, NEW p, NEW g,
           g = [exc |-> x, caught |-> c, uncaught |-> u, frames |-> fs, process |-> p]
    PROVE  Entering(g, e) = [exc |-> x, caught |-> c, uncaught |-> u, frames |-> CatchTop(fs, e),
                             process |-> p]
<1>1. g.frames = fs
  OBVIOUS
<1>2. Entering(g, e) = [g EXCEPT !.frames = CatchTop(fs, e)]
  BY <1>1 DEF Entering, CatchTop
<1>3. PICK hs : hs = CatchTop(fs, e)
  OBVIOUS
<1>4. [g EXCEPT !.frames = hs] =
         [exc |-> x, caught |-> c, uncaught |-> u, frames |-> hs, process |-> p]
  OBVIOUS
<1> QED
  BY <1>2, <1>3, <1>4

LEMMA EnteringRunning ==
    ASSUME NEW x, NEW c, NEW u, NEW fs, NEW e
    PROVE  Entering(St(x, c, u, fs), e) = St(x, c, u, CatchTop(fs, e))
BY EnteringIs DEF St

LEMMA EnteringTerminated ==
    ASSUME NEW x, NEW c, NEW u, NEW fs, NEW e
    PROVE  Entering([St(x, c, u, fs) EXCEPT !.process = "terminated"], e) =
             terminate(St(x, c, u, CatchTop(fs, e)), "terminated")
<1>1. PICK g : g = [St(x, c, u, fs) EXCEPT !.process = "terminated"]
  OBVIOUS
<1>2. g = [exc |-> x, caught |-> c, uncaught |-> u, frames |-> fs, process |-> "terminated"]
  BY <1>1 DEF St
<1>3. Entering(g, e) = [exc |-> x, caught |-> c, uncaught |-> u, frames |-> CatchTop(fs, e),
                        process |-> "terminated"]
  BY <1>2, EnteringIs
<1>4. PICK hs : hs = CatchTop(fs, e)
  OBVIOUS
<1>5. terminate(St(x, c, u, hs), "terminated") =
         [exc |-> x, caught |-> c, uncaught |-> u, frames |-> hs, process |-> "terminated"]
  BY DEF terminate, St
<1> QED
  BY <1>1, <1>3, <1>4, <1>5

LEMMA LocalBeginCatch ==
    ASSUME NEW x, NEW c, NEW u, NEW fs, NEW q, NEW O, Local(x, c, u, fs, q, O),
           fs[Len(fs)].at = "pad", NEW e, e = fs[Len(fs)].flying
    PROVE  Good(x, O, Entering(begin_catch(St(x, c, u, fs), e), e), q)
<1>1. /\ StackOK(x, c, u, fs) /\ AwaitsOK(x, fs) /\ ShapeOK(fs) /\ x \in [Exc -> Header]
      /\ O \subseteq Exc /\ q \in [Ptr -> Exc \cup {None}] /\ c \in Exc \cup {None}
      /\ O \cap Held(fs) = {} /\ RefsOK(x, O \cup Held(fs), q, None)
      /\ u \in Nat /\ u = Cardinality(NativeFlights(x, fs))
  BY LocalTypes DEF Local
<1>2. /\ e \in Exc /\ Len(fs) \in 1 .. Len(fs) /\ Len(fs) \in Nat
  BY <1>1, ShapeFacts
<1>3. e \in Held(fs) /\ x[e].kind # "free" /\ x[e].kind \in {"native", "dependent", "foreign"}
  <2>1. e \in Held(fs)
    BY <1>1, <1>2, HeldFacts, ExceptionAssumption
  <2>2. x[e].kind # "free"
    BY <1>1, <2>1 DEF StackOK
  <2> QED
    BY <1>1, <1>2, <2>1, <2>2 DEF Header
<1>4. PICK gs : gs = CatchTop(fs, e)
  OBVIOUS
<1>5. ASSUME NEW y, Catching(x, y, c, e), NEW v, v = IF x[e].kind = "foreign" THEN u ELSE u - 1,
             \A d \in Exc : y[d].primary = x[d].primary /\ y[d].referenceCount = x[d].referenceCount
      PROVE  Good(x, O, St(y, e, v, gs), q)
  <2>0. CatchStep(x, c, u, fs, e, y, v, gs)
    BY <1>1, <1>4, <1>5 DEF CatchStep
  <2>1. StackOK(y, e, v, gs) /\ AwaitsOK(y, gs) /\ Held(gs) = Held(fs)
    BY <2>0, CatchClause
  <2>2. \A d \in Exc : y[d].kind = x[d].kind
    BY <1>5 DEF Catching
  <2>3. RefsOK(y, O \cup Held(gs), q, None)
    BY <1>1, <1>5, <2>1, <2>2, RefsSame
  <2>4. Local(y, e, v, gs, q, O)
    BY <1>1, <2>1, <2>3 DEF Local
  <2>5. Alike(x, y, O)
    BY <1>1, <1>3, <1>5 DEF Alike, Catching
  <2> QED
    BY <2>4, <2>5, GoodRunning
<1>6. CASE x[e].kind # "foreign"
  <2>1. PICK y : y = Caught(x, c, e)
    OBVIOUS
  <2>2. begin_catch(St(x, c, u, fs), e) = St(y, e, u - 1, fs)
    BY <1>1, <1>2, <1>3, <1>6, <2>1, BeginCatchNative
  <2>3. /\ Catching(x, y, c, e)
        /\ \A d \in Exc : y[d].primary = x[d].primary /\ y[d].referenceCount = x[d].referenceCount
    BY <1>1, <1>2, <1>6, <2>1, CaughtFacts DEF Catching
  <2>4. Good(x, O, St(y, e, u - 1, gs), q)
    BY <1>5, <1>6, <2>3
  <2> QED
    BY <1>4, <2>2, <2>4, EnteringRunning
<1>7. CASE x[e].kind = "foreign" /\ c = None
  <2>1. begin_catch(St(x, c, u, fs), e) = St(x, e, u, fs)
    BY <1>1, <1>2, <1>7, BeginCatchAlone
  <2>2. Catching(x, x, c, e)
    BY <1>1, <1>2, <1>7 DEF Catching
  <2>3. Good(x, O, St(x, e, u, gs), q)
    BY <1>5, <1>7, <2>2
  <2> QED
    BY <1>4, <2>1, <2>3, EnteringRunning
<1>8. CASE x[e].kind = "foreign" /\ c \in Exc
  <2>1. begin_catch(St(x, c, u, fs), e) = [St(x, c, u, fs) EXCEPT !.process = "terminated"]
    BY <1>1, <1>2, <1>8, BeginCatchForeign
  <2>2. PICK r : r = terminate(St(x, c, u, gs), "terminated")
    OBVIOUS
  <2>3. r.exc = x /\ r.caught = c /\ r.uncaught = u /\ r.frames = gs /\ r.process = "terminated"
    BY <2>2 DEF terminate, St
  <2>4. /\ ShapeOK(gs) /\ Len(gs) = Len(fs) /\ \A i \in 1 .. Len(fs) - 1 : gs[i] = fs[i]
        /\ gs[Len(fs)].flying = None
    BY <1>1, <1>2, <1>4, CatchTopFacts
  <2>5. NativeFlights(x, gs) = NativeFlights(x, fs)
    <3>1. \A i \in 1 .. Len(fs) : i = Len(fs) \/ i \in 1 .. Len(fs) - 1
      BY <1>2
    <3>2. \A i \in 1 .. Len(fs) :
             (gs[i].flying # None /\ x[gs[i].flying].kind # "foreign") <=>
             (fs[i].flying # None /\ x[fs[i].flying].kind # "foreign")
      BY <1>8, <2>4, <3>1
    <3> QED
      BY <2>4, <3>2 DEF NativeFlights
  <2>6. gs \in Seq(Frame) \ {<<>>}
    <3>1. gs \in Seq(Frame) /\ Len(gs) >= 1
      BY <2>4, ShapeFacts
    <3>2. gs # <<>>
      BY <3>1
    <3> QED
      BY <3>1, <3>2
  <2>7. Good(x, O, r, q)
    BY <1>1, <2>3, <2>5, <2>6 DEF Good
  <2> QED
    BY <1>4, <2>1, <2>2, <2>7, EnteringTerminated
<1> QED
  BY <1>1, <1>6, <1>7, <1>8

-----------------------------------------------------------------------------
\* __cxa_end_catch at the end of the clause on top.  hs are the frames that it
\* leaves, ks are those with the clause gone.
Ended(x, u, fs, q, O, r) ==
    \E y, c, hs, ks :
        /\ r = St(y, c, u, hs) /\ Pop(hs) = Pop(ks) /\ Len(ks) = Len(fs)
        /\ Local(y, c, u, ks, q, O) /\ Alike(x, y, O)
        /\ ks[Len(fs)].at = IF fs[Len(fs)].at = "handler" THEN "code" ELSE "pad"
        /\ ks[Len(fs)].flying = fs[Len(fs)].flying /\ ks[Len(fs)].sel = "cleanup"

LEMMA LeftTopFacts ==
    ASSUME NEW fs, ShapeOK(fs), Clause(fs[Len(fs)])
    PROVE  /\ Len(LeftTop(fs)) = Len(fs) /\ Pop(LeftTop(fs)) = Pop(fs)
           /\ LeftTop(fs)[Len(fs)].at = IF fs[Len(fs)].at = "handler" THEN "code" ELSE "pad"
           /\ LeftTop(fs)[Len(fs)].flying = fs[Len(fs)].flying
           /\ LeftTop(fs)[Len(fs)].sel = "cleanup"
<1>1. /\ fs \in Seq(Frame) /\ Len(fs) \in Nat /\ Len(fs) \in 1 .. Len(fs)
      /\ fs[Len(fs)] \in Frame /\ FrameOK(fs[Len(fs)]) /\ DOMAIN fs = 1 .. Len(fs)
  BY ShapeFacts
<1>2. PICK f \in Frame : f = Left(fs[Len(fs)])
  BY <1>1, LeftFacts
<1>3. PICK gs : gs = LeftTop(fs)
  OBVIOUS
<1>4. gs = [fs EXCEPT ![Len(fs)] = f]
  BY <1>2, <1>3 DEF LeftTop
<1>5. gs \in Seq(Frame) /\ Len(gs) = Len(fs) /\ gs[Len(fs)] = f /\ \A i \in 1 .. Len(fs) - 1 : gs[i] = fs[i]
  BY <1>1, <1>4
<1>6. Pop(gs) = Pop(fs)
  <2>1. SubSeq(gs, 1, Len(fs) - 1) = SubSeq(fs, 1, Len(fs) - 1)
    <3>1. \A i \in 1 .. Len(fs) - 1 : gs[1 + i - 1] = fs[1 + i - 1]
      BY <1>5
    <3>2. /\ SubSeq(gs, 1, Len(fs) - 1) = [i \in 1 .. Len(fs) - 1 |-> gs[i]]
          /\ SubSeq(fs, 1, Len(fs) - 1) = [i \in 1 .. Len(fs) - 1 |-> fs[i]]
      BY <1>1, <1>5
    <3> QED
      BY <1>5, <3>2
  <2> QED
    BY <1>5, <2>1 DEF Pop
<1>7. /\ f.at = (IF fs[Len(fs)].at = "handler" THEN "code" ELSE "pad")
      /\ f.flying = fs[Len(fs)].flying /\ f.sel = "cleanup"
  BY <1>1, <1>2, LeftFacts
<1> QED
  BY <1>3, <1>5, <1>6, <1>7

\* The clause on top handles nothing any more.
LEMMA EndNone ==
    ASSUME NEW x, NEW c, NEW u, NEW fs, StackOK(x, c, u, fs), AwaitsOK(x, fs),
           Clause(fs[Len(fs)]), fs[Len(fs)].caught = None
    PROVE  /\ c = None /\ StackOK(x, None, u, LeftTop(fs)) /\ AwaitsOK(x, LeftTop(fs))
           /\ Held(LeftTop(fs)) = Held(fs)
<1>1. ShapeOK(fs) /\ x \in [Exc -> Header] /\ ChainAt(x, fs, Len(fs))
  BY ShapeFacts DEF StackOK
<1>2. Len(fs) \in Nat /\ Len(fs) \in 1 .. Len(fs)
  BY <1>1, ShapeFacts
<1>3. Leaves(x, x, None)
  BY <1>1, ExceptionAssumption DEF Leaves
<1>4. /\ c = None /\ StackOK(x, HeadBelow(fs, Len(fs)), u, LeftTop(fs)) /\ AwaitsOK(x, LeftTop(fs))
      /\ LeftState(x, x, fs, LeftTop(fs), None)
  BY <1>3, LeaveClause
<1>5. \A j \in 1 .. Len(fs) - 1 : Clause(fs[j]) => fs[j].caught = None
  BY <1>1 DEF ChainAt
<1>6. HeadBelow(fs, Len(fs)) = None
  <2>1. SUFFICES ASSUME HeadBelow(fs, Len(fs)) # None PROVE FALSE
    OBVIOUS
  <2>2. PICK m \in 1 .. Len(fs) : m < Len(fs) /\ Clause(fs[m]) /\ HeadBelow(fs, Len(fs)) = fs[m].caught
    <3>1. \/ HeadBelow(fs, Len(fs)) = None
          \/ \E m \in 1 .. Len(fs) : m < Len(fs) /\ Clause(fs[m]) /\ HeadBelow(fs, Len(fs)) = fs[m].caught
      BY <1>2, HeadIs
    <3> QED
      BY <2>1, <3>1
  <2>3. m \in 1 .. Len(fs) - 1
    BY <1>2, <2>2
  <2> QED
    BY <1>5, <2>1, <2>2, <2>3
<1> QED
  BY <1>4, <1>6 DEF LeftState

-----------------------------------------------------------------------------
\* __cxa_end_catch lowers handlerCount and, when it reaches 0, takes the
\* exception off the stack.
Lowered(x, e) ==
    [x EXCEPT ![e] = [x[e] EXCEPT !.handlerCount = IF x[e].handlerCount < 0 THEN x[e].handlerCount + 1
                                                   ELSE x[e].handlerCount - 1]]
Unlinked(x, e) == [Lowered(x, e) EXCEPT ![e] = [Lowered(x, e)[e] EXCEPT !.nextException = None]]

LEMMA LoweredFacts ==
    ASSUME NEW x \in [Exc -> Header], NEW e \in Exc
    PROVE  /\ Leaves(x, Lowered(x, e), e)
           /\ \A d \in Exc : d # e => Lowered(x, e)[d] = x[d]
           /\ \A d \in Exc : /\ Lowered(x, e)[d].primary = x[d].primary
                             /\ Lowered(x, e)[d].referenceCount = x[d].referenceCount
<1>1. x[e] \in Header /\ x[e].handlerCount \in Int
  BY DEF Header
<1>2. PICK n \in Int : n = IF x[e].handlerCount < 0 THEN x[e].handlerCount + 1
                           ELSE x[e].handlerCount - 1
  BY <1>1
<1>3. PICK h : h = [x[e] EXCEPT !.handlerCount = n]
  OBVIOUS
<1>4. h \in Header
  BY <1>1, <1>3 DEF Header
<1>5. /\ h.kind = x[e].kind /\ h.type = x[e].type /\ h.private_2 = x[e].private_2
      /\ h.handlerSwitchValue = x[e].handlerSwitchValue /\ h.handlerCount = n
      /\ h.nextException = x[e].nextException /\ h.primary = x[e].primary
      /\ h.referenceCount = x[e].referenceCount
  BY <1>1, <1>3 DEF Header
<1>6. PICK y : y = Lowered(x, e)
  OBVIOUS
<1>7. y = [x EXCEPT ![e] = h]
  BY <1>2, <1>3, <1>6 DEF Lowered
<1>8. y \in [Exc -> Header] /\ y[e] = h /\ \A d \in Exc : d # e => y[d] = x[d]
  BY <1>4, <1>7
<1>9. /\ \A d \in Exc : /\ y[d].kind = x[d].kind /\ y[d].type = x[d].type
                        /\ y[d].private_2 = x[d].private_2
                        /\ y[d].handlerSwitchValue = x[d].handlerSwitchValue
                        /\ y[d].primary = x[d].primary
                        /\ y[d].referenceCount = x[d].referenceCount
                        /\ y[d].nextException = x[d].nextException
      /\ \A d \in Exc : d # e => y[d].handlerCount = x[d].handlerCount
      /\ y[e].handlerCount = n
  BY <1>5, <1>8
<1>10. Leaves(x, y, e)
  BY <1>2, <1>8, <1>9 DEF Leaves
<1> QED
  BY <1>6, <1>8, <1>9, <1>10

LEMMA UnlinkedFacts ==
    ASSUME NEW x \in [Exc -> Header], NEW e \in Exc, Lowered(x, e)[e].handlerCount = 0
    PROVE  /\ Leaves(x, Unlinked(x, e), e) /\ Unlinked(x, e)[e].handlerCount = 0
           /\ \A d \in Exc : d # e => Unlinked(x, e)[d] = x[d]
           /\ \A d \in Exc : /\ Unlinked(x, e)[d].primary = x[d].primary
                             /\ Unlinked(x, e)[d].referenceCount = x[d].referenceCount
<1>1. PICK z : z = Lowered(x, e)
  OBVIOUS
<1>2. /\ Leaves(x, z, e) /\ z[e].handlerCount = 0
      /\ \A d \in Exc : d # e => z[d] = x[d]
      /\ \A d \in Exc : z[d].primary = x[d].primary /\ z[d].referenceCount = x[d].referenceCount
  BY <1>1, LoweredFacts
<1>3. z \in [Exc -> Header] /\ z[e] \in Header
  BY <1>2 DEF Leaves
<1>4. PICK h : h = [z[e] EXCEPT !.nextException = None]
  OBVIOUS
<1>5. h \in Header
  BY <1>3, <1>4 DEF Header
<1>6. /\ h.kind = z[e].kind /\ h.type = z[e].type /\ h.private_2 = z[e].private_2
      /\ h.handlerSwitchValue = z[e].handlerSwitchValue /\ h.handlerCount = z[e].handlerCount
      /\ h.primary = z[e].primary /\ h.referenceCount = z[e].referenceCount
  BY <1>3, <1>4 DEF Header
<1>7. PICK y : y = Unlinked(x, e)
  OBVIOUS
<1>8. y = [z EXCEPT ![e] = h]
  BY <1>1, <1>4, <1>7 DEF Unlinked
<1>9. y \in [Exc -> Header] /\ y[e] = h /\ \A d \in Exc : d # e => y[d] = z[d]
  BY <1>3, <1>5, <1>8
<1>10. /\ \A d \in Exc : /\ y[d].kind = z[d].kind /\ y[d].type = z[d].type
                         /\ y[d].private_2 = z[d].private_2
                         /\ y[d].handlerSwitchValue = z[d].handlerSwitchValue
                         /\ y[d].primary = z[d].primary
                         /\ y[d].referenceCount = z[d].referenceCount
                         /\ y[d].handlerCount = z[d].handlerCount
       /\ \A d \in Exc : d # e => y[d].nextException = z[d].nextException
  BY <1>6, <1>9
<1>11. Leaves(x, y, e)
  BY <1>2, <1>9, <1>10 DEF Leaves
<1>12. \A d \in Exc : d # e => y[d] = x[d]
  BY <1>2, <1>9
<1>13. /\ y[e].handlerCount = 0
       /\ \A d \in Exc : y[d].primary = x[d].primary /\ y[d].referenceCount = x[d].referenceCount
  BY <1>2, <1>10
<1> QED
  BY <1>7, <1>11, <1>12, <1>13

LEMMA EndCatchNone ==
    ASSUME NEW x, NEW u, NEW fs
    PROVE  end_catch(St(x, None, u, fs)) = St(x, None, u, fs)
BY DEF end_catch, St

LEMMA EndCatchForeign ==
    ASSUME NEW x \in [Exc -> Header], NEW c \in Exc, NEW u, NEW fs, x[c].kind = "foreign"
    PROVE  end_catch(St(x, c, u, fs)) = St([x EXCEPT ![c] = Unallocated], None, u, Forget(fs, c))
<1>1. PICK g : g = St(x, c, u, fs)
  OBVIOUS
<1>2. g.caught = c /\ g.exc = x /\ g.frames = fs
  BY <1>1 DEF St
<1>3. c # None
  BY ExceptionAssumption
<1>4. end_catch(g) = DeleteForeign(g, c)
  BY <1>2, <1>3 DEF end_catch
<1>5. DeleteForeign(g, c) = [g EXCEPT !.exc = [x EXCEPT ![c] = Unallocated], !.caught = None,
                                      !.frames = Forget(fs, c)]
  BY <1>2 DEF DeleteForeign, Forget
<1>6. PICK y : y = [x EXCEPT ![c] = Unallocated]
  OBVIOUS
<1>7. PICK gs : gs = Forget(fs, c)
  OBVIOUS
<1>8. PICK r : r = [g EXCEPT !.exc = y, !.caught = None, !.frames = gs]
  OBVIOUS
<1>9. r = St(y, None, u, gs)
  BY <1>1, <1>8 DEF St
<1> QED
  BY <1>1, <1>4, <1>5, <1>6, <1>7, <1>8, <1>9

AfterCatch(x, c, u, fs) ==
    IF Lowered(x, c)[c].handlerCount # 0 THEN St(Lowered(x, c), c, u, fs)
    ELSE IF x[c].handlerCount < 0 THEN St(Unlinked(x, c), x[c].nextException, u, fs)
    ELSE IF x[c].kind = "dependent"
    THEN St(decrement([Unlinked(x, c) EXCEPT ![c] = Unallocated], x[c].primary),
            x[c].nextException, u, fs)
    ELSE St(decrement(Unlinked(x, c), c), x[c].nextException, u, fs)

LEMMA EndCatchNative ==
    ASSUME NEW x \in [Exc -> Header], NEW c \in Exc, NEW u, NEW fs,
           x[c].kind \in {"native", "dependent"}
    PROVE  end_catch(St(x, c, u, fs)) = AfterCatch(x, c, u, fs)
<1> DEFINE g == St(x, c, u, fs)
           left == [g EXCEPT !.exc[c].handlerCount = IF x[c].handlerCount < 0 THEN @ + 1 ELSE @ - 1]
           popped == [left EXCEPT !.caught = x[c].nextException, !.exc[c].nextException = None]
<1>1. g.caught = c /\ g.exc = x /\ c # None /\ x[c].kind # "foreign"
  BY ExceptionAssumption DEF St
<1>2. left = St(Lowered(x, c), c, u, fs)
  BY DEF St, Lowered
<1>3. popped = St(Unlinked(x, c), x[c].nextException, u, fs)
  <2>1. PICK z : z = Lowered(x, c)
    OBVIOUS
  <2>2. PICK n : n = x[c].nextException
    OBVIOUS
  <2>3. Unlinked(x, c) = [z EXCEPT ![c] = [z[c] EXCEPT !.nextException = None]]
    BY <2>1 DEF Unlinked
  <2> HIDE DEF left
  <2>4. PICK r : r = popped
    OBVIOUS
  <2>5. r = [St(z, c, u, fs) EXCEPT !.caught = n, !.exc[c].nextException = None]
    BY <1>2, <2>1, <2>2, <2>4
  <2>6. r = St([z EXCEPT ![c] = [z[c] EXCEPT !.nextException = None]], n, u, fs)
    BY <2>5 DEF St
  <2> HIDE DEF popped
  <2> QED
    BY <2>2, <2>3, <2>4, <2>6
<1>4. end_catch(g) = IF left.exc[c].handlerCount # 0 THEN left
                     ELSE IF x[c].handlerCount < 0 THEN popped
                     ELSE IF x[c].kind = "dependent"
                     THEN [popped EXCEPT !.exc = decrement([@ EXCEPT ![c] = Unallocated], x[c].primary)]
                     ELSE [popped EXCEPT !.exc = decrement(@, c)]
  <2> HIDE DEF g
  <2> QED
    BY <1>1 DEF end_catch
<1>5. left.exc = Lowered(x, c)
  <2> HIDE DEF left
  <2> QED
    BY <1>2 DEF St
<1>6. /\ [popped EXCEPT !.exc = decrement(@, c)] =
           St(decrement(Unlinked(x, c), c), x[c].nextException, u, fs)
      /\ [popped EXCEPT !.exc = decrement([@ EXCEPT ![c] = Unallocated], x[c].primary)] =
           St(decrement([Unlinked(x, c) EXCEPT ![c] = Unallocated], x[c].primary),
              x[c].nextException, u, fs)
  <2> HIDE DEF popped
  <2> QED
    BY <1>3 DEF St
<1> HIDE DEF g, left, popped
<1>7. end_catch(g) = AfterCatch(x, c, u, fs)
  BY <1>2, <1>3, <1>4, <1>5, <1>6 DEF AfterCatch
<1> QED
  BY <1>7 DEF g

\* The clause on top is left with the headers z; y are the headers when what
\* is no longer referred to has been freed.
LEMMA EndedIs ==
    ASSUME NEW x, NEW z, NEW y, NEW c, NEW u, NEW fs, NEW q \in [Ptr -> Exc \cup {None}],
           NEW O \in SUBSET Exc, ShapeOK(fs), Clause(fs[Len(fs)]),
           StackOK(z, c, u, LeftTop(fs)), AwaitsOK(z, LeftTop(fs)),
           O \cap Held(LeftTop(fs)) = {}, Alike(x, z, O), Alike(z, y, O \cup Held(LeftTop(fs))),
           RefsOK(y, O \cup Held(LeftTop(fs)), q, None)
    PROVE  Ended(x, u, fs, q, O, St(y, c, u, fs))
<1>1. PICK ks : ks = LeftTop(fs)
  OBVIOUS
<1>2. /\ Len(ks) = Len(fs) /\ Pop(fs) = Pop(ks)
      /\ ks[Len(fs)].at = (IF fs[Len(fs)].at = "handler" THEN "code" ELSE "pad")
      /\ ks[Len(fs)].flying = fs[Len(fs)].flying /\ ks[Len(fs)].sel = "cleanup"
  BY <1>1, LeftTopFacts
<1>3. Alike(z, y, Held(ks)) /\ Alike(x, y, O)
  BY <1>1 DEF Alike
<1>4. StackOK(y, c, u, ks) /\ AwaitsOK(y, ks)
  BY <1>1, <1>3, ThreadAgrees
<1>5. Local(y, c, u, ks, q, O)
  BY <1>1, <1>4 DEF Local
<1> QED
  BY <1>2, <1>3, <1>5 DEF Ended

LEMMA LocalLeave ==
    ASSUME NEW x, NEW c, NEW u, NEW fs, NEW q, NEW O, Local(x, c, u, fs, q, O),
           Clause(fs[Len(fs)])
    PROVE  Ended(x, u, fs, q, O, end_catch(St(x, c, u, fs)))
<1>1. /\ StackOK(x, c, u, fs) /\ AwaitsOK(x, fs) /\ ShapeOK(fs) /\ x \in [Exc -> Header]
      /\ O \subseteq Exc /\ q \in [Ptr -> Exc \cup {None}] /\ c \in Exc \cup {None}
      /\ O \cap Held(fs) = {} /\ RefsOK(x, O \cup Held(fs), q, None)
  BY LocalTypes DEF Local
<1>2. Len(fs) \in Nat /\ Len(fs) \in 1 .. Len(fs) /\ Held(fs) \subseteq Exc
  BY <1>1, ShapeFacts, HeldFacts
<1>3. c = fs[Len(fs)].caught
  <2>1. HeadBelow(fs, Len(fs) + 1) = fs[Len(fs)].caught
    BY <1>2, HeadAbove
  <2> QED
    BY <1>1, <2>1 DEF StackOK
<1>4. CASE c = None
  <2>1. /\ StackOK(x, None, u, LeftTop(fs)) /\ AwaitsOK(x, LeftTop(fs))
        /\ Held(LeftTop(fs)) = Held(fs)
    BY <1>1, <1>3, <1>4, EndNone
  <2>2. Alike(x, x, O) /\ Alike(x, x, O \cup Held(LeftTop(fs)))
    BY <1>1, AlikeItself
  <2>3. Ended(x, u, fs, q, O, St(x, None, u, fs))
    BY <1>1, <2>1, <2>2, EndedIs
  <2> QED
    BY <1>4, <2>3, EndCatchNone
<1>5. ASSUME c \in Exc PROVE c \in Held(fs) /\ x[c].kind \in {"native", "dependent", "foreign"} /\ c # None
  <2>1. c \in Held(fs) /\ c # None
    BY <1>1, <1>2, <1>3, <1>5, HeldFacts, ExceptionAssumption
  <2>2. x[c].kind # "free"
    BY <1>1, <2>1 DEF StackOK
  <2> QED
    BY <1>1, <1>5, <2>1, <2>2 DEF Header
<1>6. CASE c \in Exc /\ x[c].kind = "foreign"
  <2>1. PICK y : y = [x EXCEPT ![c] = Unallocated]
    OBVIOUS
  <2>2. /\ y \in [Exc -> Header] /\ y[c].kind = "free" /\ \A d \in Exc : d # c => y[d] = x[d]
    BY <1>1, <1>6, <2>1, UnallocatedFacts
  <2>3. PICK hs : hs = Forget(fs, c)
    OBVIOUS
  <2>4. Alike(x, y, Held(fs) \ {c}) /\ Alike(x, y, O) /\ c \notin O
    BY <1>1, <1>2, <1>5, <1>6, <2>2 DEF Alike
  <2>5. StackOK(y, None, u, hs) /\ AwaitsOK(y, hs) /\ Held(hs) = Held(fs) \ {c}
    BY <1>1, <1>6, <2>3, <2>4, DropForeign
  <2>6. /\ Len(hs) = Len(fs) /\ ShapeOK(hs) /\ Clause(hs[Len(fs)]) /\ hs[Len(fs)].caught = None
        /\ hs[Len(fs)].at = fs[Len(fs)].at /\ hs[Len(fs)].flying = fs[Len(fs)].flying
    BY <1>1, <1>2, <1>3, <1>6, <2>3, ForgetFacts
  <2>7. RefsOK(y, O \cup Held(hs), q, None)
    <3>1. c \in O \cup Held(fs) /\ (O \cup Held(fs)) \ {c} = O \cup Held(hs)
      BY <1>5, <1>6, <2>4, <2>5
    <3>2. RefsOK(x, (O \cup Held(fs)) \ {c}, q, c)
      BY <1>1, <1>6, <3>1, RefsDrop
    <3>3. RefsOK(x, O \cup Held(hs), q, c) /\ c \notin O \cup Held(hs)
      BY <2>4, <2>5, <3>1, <3>2
    <3>4. None = IF x[c].kind = "dependent" THEN x[c].primary ELSE None
      BY <1>6
    <3> QED
      BY <1>1, <1>6, <2>2, <3>3, <3>4, RefsFree
  <2>8. /\ StackOK(y, None, u, LeftTop(hs)) /\ AwaitsOK(y, LeftTop(hs))
        /\ Held(LeftTop(hs)) = Held(hs)
    BY <2>5, <2>6, EndNone
  <2>9. Alike(y, y, O \cup Held(LeftTop(hs)))
    BY <2>2, AlikeItself
  <2>10. O \cap Held(LeftTop(hs)) = {} /\ RefsOK(y, O \cup Held(LeftTop(hs)), q, None)
    BY <1>1, <2>5, <2>7, <2>8
  <2>11. Ended(x, u, hs, q, O, St(y, None, u, hs))
    BY <1>1, <2>4, <2>6, <2>8, <2>9, <2>10, EndedIs
  <2>12. Ended(x, u, fs, q, O, St(y, None, u, hs))
    BY <2>6, <2>11 DEF Ended
  <2> QED
    BY <1>1, <1>6, <2>1, <2>3, <2>12, EndCatchForeign
<1>7. CASE c \in Exc /\ x[c].kind # "foreign"
  <2>1. x[c].kind \in {"native", "dependent"} /\ c \in Held(fs) /\ c \notin O
    BY <1>1, <1>5, <1>7
  <2>2. ASSUME NEW z, Leaves(x, z, c), \A d \in Exc : d # c => z[d] = x[d],
               \A d \in Exc : z[d].primary = x[d].primary /\ z[d].referenceCount = x[d].referenceCount
        PROVE  /\ StackOK(z, HeadBelow(fs, Len(fs)), u, LeftTop(fs)) /\ AwaitsOK(z, LeftTop(fs))
               /\ z[c].handlerCount # 0 => HeadBelow(fs, Len(fs)) = c
               /\ z[c].handlerCount = 0 => HeadBelow(fs, Len(fs)) = x[c].nextException
               /\ Held(LeftTop(fs)) = IF z[c].handlerCount # 0 \/ x[c].handlerCount < 0 THEN Held(fs)
                                      ELSE Held(fs) \ {c}
               /\ Alike(x, z, O) /\ RefsOK(z, O \cup Held(fs), q, None) /\ z \in [Exc -> Header]
               /\ \A d \in Exc : z[d].kind = x[d].kind
    <3>1. /\ StackOK(z, HeadBelow(fs, Len(fs)), u, LeftTop(fs)) /\ AwaitsOK(z, LeftTop(fs))
          /\ LeftState(x, z, fs, LeftTop(fs), c)
      BY <1>1, <1>3, <1>7, <2>2, LeaveClause
    <3>2. z \in [Exc -> Header] /\ \A d \in Exc : z[d].kind = x[d].kind
      BY <2>2 DEF Leaves
    <3>3. Alike(x, z, O)
      BY <1>1, <2>1, <2>2, <3>2 DEF Alike
    <3>4. RefsOK(z, O \cup Held(fs), q, None)
      BY <1>1, <2>2, <3>2, RefsSame
    <3>5. c # None
      BY <1>5, <1>7
    <3> QED
      BY <3>1, <3>2, <3>3, <3>4, <3>5 DEF LeftState
  <2>e. PICK g : g = end_catch(St(x, c, u, fs))
    OBVIOUS
  <2>f. g = AfterCatch(x, c, u, fs)
    BY <1>1, <1>7, <2>1, <2>e, EndCatchNative
  <2>3. CASE Lowered(x, c)[c].handlerCount # 0
    <3>1. PICK z : z = Lowered(x, c)
      OBVIOUS
    <3>2. /\ Leaves(x, z, c) /\ \A d \in Exc : d # c => z[d] = x[d]
          /\ \A d \in Exc : z[d].primary = x[d].primary /\ z[d].referenceCount = x[d].referenceCount
      BY <1>1, <1>7, <3>1, LoweredFacts
    <3>3. /\ StackOK(z, c, u, LeftTop(fs)) /\ AwaitsOK(z, LeftTop(fs)) /\ Held(LeftTop(fs)) = Held(fs)
          /\ Alike(x, z, O) /\ RefsOK(z, O \cup Held(fs), q, None) /\ z \in [Exc -> Header]
      BY <2>2, <2>3, <3>1, <3>2
    <3>4. Alike(z, z, O \cup Held(LeftTop(fs)))
      BY <3>3, AlikeItself
    <3>5. Ended(x, u, fs, q, O, St(z, c, u, fs))
      BY <1>1, <3>3, <3>4, EndedIs
    <3> QED
      BY <2>e, <2>f, <2>3, <3>1, <3>5 DEF AfterCatch
  <2>4. CASE Lowered(x, c)[c].handlerCount = 0
    <3>1. PICK z : z = Unlinked(x, c)
      OBVIOUS
    <3>2. PICK n : n = x[c].nextException
      OBVIOUS
    <3>3. /\ Leaves(x, z, c) /\ z[c].handlerCount = 0 /\ \A d \in Exc : d # c => z[d] = x[d]
          /\ \A d \in Exc : z[d].primary = x[d].primary /\ z[d].referenceCount = x[d].referenceCount
      BY <1>1, <1>7, <2>4, <3>1, UnlinkedFacts
    <3>4. /\ StackOK(z, n, u, LeftTop(fs)) /\ AwaitsOK(z, LeftTop(fs))
          /\ Held(LeftTop(fs)) = IF x[c].handlerCount < 0 THEN Held(fs) ELSE Held(fs) \ {c}
          /\ Alike(x, z, O) /\ RefsOK(z, O \cup Held(fs), q, None) /\ z \in [Exc -> Header]
          /\ z[c].kind = x[c].kind
      BY <1>7, <2>2, <3>2, <3>3
    <3>5. CASE x[c].handlerCount < 0
      <4>1. Held(LeftTop(fs)) = Held(fs)
        BY <3>4, <3>5
      <4>2. Alike(z, z, O \cup Held(LeftTop(fs)))
        BY <3>4, AlikeItself
      <4>3. Ended(x, u, fs, q, O, St(z, n, u, fs))
        BY <1>1, <3>4, <4>1, <4>2, EndedIs
      <4> QED
        BY <2>e, <2>f, <2>4, <3>1, <3>2, <3>5, <4>3 DEF AfterCatch
    <3>6. CASE ~(x[c].handlerCount < 0)
      <4>1. PICK K : K = O \cup Held(LeftTop(fs))
        OBVIOUS
      <4>2. K = (O \cup Held(fs)) \ {c} /\ c \in O \cup Held(fs) /\ c \notin K /\ K \in SUBSET Exc
            /\ O \cap Held(LeftTop(fs)) = {}
        BY <1>1, <1>2, <2>1, <3>4, <3>6, <4>1
      <4>3. RefsOK(z, K, q, c)
        BY <1>7, <3>4, <4>2, RefsDrop
      <4>4. CASE x[c].kind = "native"
        <5>1. PICK y : y = decrement(z, c)
          OBVIOUS
        <5>2. RefsOK(y, K, q, None) /\ Alike(z, y, K)
          BY <1>1, <1>7, <3>4, <4>2, <4>3, <4>4, <5>1, RefsDecrement
        <5>3. Ended(x, u, fs, q, O, St(y, n, u, fs))
          BY <1>1, <3>4, <4>1, <4>2, <5>2, EndedIs
        <5> QED
          BY <2>e, <2>f, <2>4, <3>1, <3>2, <3>6, <4>4, <5>1, <5>3 DEF AfterCatch
      <4>5. CASE x[c].kind = "dependent"
        <5>1. PICK w : w = [z EXCEPT ![c] = Unallocated]
          OBVIOUS
        <5>2. /\ w \in [Exc -> Header] /\ w[c].kind = "free" /\ \A d \in Exc : d # c => w[d] = z[d]
          BY <1>7, <3>4, <5>1, UnallocatedFacts
        <5>3. PICK r : r = x[c].primary
          OBVIOUS
        <5>4. r \in Exc
          BY <1>1, <1>7, <4>5, <5>3 DEF RefsOK
        <5>5. r = IF z[c].kind = "dependent" THEN z[c].primary ELSE None
          BY <1>7, <3>3, <3>4, <4>5, <5>3
        <5>6. RefsOK(w, K, q, r) /\ w[r].kind = "native"
          <6>1. r # None /\ z[c].kind \in {"dependent", "foreign"}
            BY <3>4, <4>5, <5>4, ExceptionAssumption
          <6> QED
            BY <1>1, <1>7, <4>2, <4>3, <5>2, <5>5, <6>1, RefsFree
        <5>7. PICK y : y = decrement(w, r)
          OBVIOUS
        <5>8. RefsOK(y, K, q, None) /\ Alike(w, y, K)
          BY <1>1, <4>2, <5>2, <5>4, <5>6, <5>7, RefsDecrement
        <5>9. Alike(z, y, K)
          <6>1. \A d \in K : w[d] = z[d]
            BY <4>2, <5>2
          <6> QED
            BY <5>8, <6>1 DEF Alike
        <5>10. Ended(x, u, fs, q, O, St(y, n, u, fs))
          BY <1>1, <3>4, <4>1, <4>2, <5>8, <5>9, EndedIs
        <5> QED
          BY <2>e, <2>f, <2>4, <3>1, <3>2, <3>6, <4>5, <5>1, <5>3, <5>7, <5>10 DEF AfterCatch
      <4> QED
        BY <2>1, <4>4, <4>5
    <3> QED
      BY <3>5, <3>6
  <2> QED
    BY <2>3, <2>4
<1> QED
  BY <1>1, <1>4, <1>6, <1>7

LEMMA LocalEndCatch ==
    ASSUME NEW x, NEW c, NEW u, NEW fs, NEW q, NEW O, Local(x, c, u, fs, q, O),
           fs[Len(fs)].at = "handler"
    PROVE  Good(x, O, [end_catch(St(x, c, u, fs)) EXCEPT !.frames = Pop(@)], q)
<1>1. PICK r : r = end_catch(St(x, c, u, fs))
  OBVIOUS
<1>2. Ended(x, u, fs, q, O, r)
  BY <1>1, LocalLeave DEF Clause
<1>3. PICK y, c2, hs, ks :
        /\ r = St(y, c2, u, hs) /\ Pop(hs) = Pop(ks) /\ Len(ks) = Len(fs)
        /\ Local(y, c2, u, ks, q, O) /\ Alike(x, y, O) /\ ks[Len(fs)].at = "code"
  BY <1>2 DEF Ended
<1>4. Len(fs) > 1
  <2>1. ShapeOK(fs)
    BY DEF Local, StackOK
  <2>2. Len(fs) \in Nat /\ Len(fs) >= 1 /\ Len(fs) # 1
    BY <2>1, ShapeFacts DEF ShapeOK
  <2> QED
    BY <2>2
<1>5. Good(x, O, St(y, c2, u, Pop(ks)), q)
  BY <1>3, <1>4, LocalPop
<1>6. r.frames = hs
  BY <1>3 DEF St
<1>7. [r EXCEPT !.frames = Pop(hs)] = St(y, c2, u, Pop(hs))
  BY <1>3 DEF St
<1>8. [r EXCEPT !.frames = Pop(@)] = [r EXCEPT !.frames = Pop(hs)]
  BY <1>6
<1> QED
  BY <1>1, <1>3, <1>5, <1>7, <1>8

\* A landing pad ends.
LEMMA LocalResume ==
    ASSUME NEW x, NEW y, NEW c, NEW u, NEW fs, NEW q, NEW O, Local(y, c, u, fs, q, O),
           Alike(x, y, O), fs[Len(fs)].at = "pad", fs[Len(fs)].sel = "cleanup",
           NEW e, e = fs[Len(fs)].flying, NEW hs, Pop(hs) = Pop(fs)
    PROVE  Good(x, O, Resume(St(y, c, u, hs), e), q)
<1>1. /\ StackOK(y, c, u, fs) /\ AwaitsOK(y, fs) /\ ShapeOK(fs)
      /\ O \subseteq Exc /\ q \in [Ptr -> Exc \cup {None}]
      /\ O \cap Held(fs) = {} /\ RefsOK(y, O \cup Held(fs), q, None)
  BY DEF Local, StackOK
<1>2. Len(fs) \in Nat /\ Len(fs) >= 1 /\ Len(fs) \in 1 .. Len(fs) /\ e \in Exc /\ e # None
  BY <1>1, ShapeFacts
<1>3. Len(fs) > 1
  <2>1. Len(fs) # 1
    BY <1>1 DEF ShapeOK
  <2> QED
    BY <1>2, <2>1
<1>4. \A i \in 1 .. Len(fs) - 1 : AwaitAt(y, fs, i)
  BY <1>1, <1>2 DEF AwaitsOK
<1>5. Airborne(y, c, u, fs, e)
  BY <1>1, <1>2, <1>3, <1>4 DEF Airborne
<1>6. Marked(y, fs, e, Len(fs))
  <2>1. AwaitAt(y, fs, Len(fs))
    BY <1>1, <1>2 DEF AwaitsOK
  <2> QED
    BY <1>2, <2>1 DEF AwaitAt
<1>7. PICK r : r = Resume(St(y, c, u, hs), e)
  OBVIOUS
<1>8. Died(y, Pop(fs), r) \/ Landed(y, fs, e, r)
  BY <1>5, <1>6, <1>7, ResumeOutcome
<1>9. Good(x, O, r, q)
  BY <1>1, <1>5, <1>8, FlyOn
<1> QED
  BY <1>7, <1>9

\* The cleanup of a catch clause ends.
LEMMA LocalLeaveResume ==
    ASSUME NEW x, NEW c, NEW u, NEW fs, NEW q, NEW O, Local(x, c, u, fs, q, O),
           fs[Len(fs)].at = "leaving", NEW e, e = fs[Len(fs)].flying
    PROVE  Good(x, O, Resume(end_catch(St(x, c, u, fs)), e), q)
<1>1. PICK r : r = end_catch(St(x, c, u, fs))
  OBVIOUS
<1>2. Ended(x, u, fs, q, O, r)
  BY <1>1, LocalLeave DEF Clause
<1>3. PICK y, c2, hs, ks :
        /\ r = St(y, c2, u, hs) /\ Pop(hs) = Pop(ks) /\ Len(ks) = Len(fs)
        /\ Local(y, c2, u, ks, q, O) /\ Alike(x, y, O) /\ ks[Len(fs)].at = "pad"
        /\ ks[Len(fs)].flying = fs[Len(fs)].flying /\ ks[Len(fs)].sel = "cleanup"
  BY <1>2 DEF Ended
<1>4. Good(x, O, Resume(St(y, c2, u, hs), e), q)
  BY <1>3, LocalResume
<1> QED
  BY <1>1, <1>3, <1>4

LEMMA MarkRethrownIs ==
    ASSUME NEW x \in [Exc -> Header], NEW c \in Exc, NEW u, NEW fs
    PROVE  \E y \in [Exc -> Header] :
             /\ MarkRethrown(St(x, c, u, fs), c) = St(y, c, u + 1, fs)
             /\ \A d \in Exc : d # c => y[d] = x[d]
             /\ y[c].handlerCount = -x[c].handlerCount
             /\ \A d \in Exc : /\ y[d].kind = x[d].kind /\ y[d].nextException = x[d].nextException
                               /\ y[d].primary = x[d].primary
                               /\ y[d].referenceCount = x[d].referenceCount
<1>1. x[c] \in Header /\ x[c].handlerCount \in Int
  BY DEF Header
<1>2. PICK h : h = [x[c] EXCEPT !.handlerCount = -x[c].handlerCount]
  OBVIOUS
<1>3. h \in Header
  BY <1>1, <1>2 DEF Header
<1>4. /\ h.handlerCount = -x[c].handlerCount /\ h.kind = x[c].kind
      /\ h.nextException = x[c].nextException /\ h.primary = x[c].primary
      /\ h.referenceCount = x[c].referenceCount
  BY <1>1, <1>2 DEF Header
<1>5. PICK y : y = [x EXCEPT ![c] = h]
  OBVIOUS
<1>6. y \in [Exc -> Header] /\ y[c] = h /\ \A d \in Exc : d # c => y[d] = x[d]
  BY <1>3, <1>5
<1>7. PICK r : r = MarkRethrown(St(x, c, u, fs), c)
  OBVIOUS
<1>8. r = St(y, c, u + 1, fs)
  BY <1>2, <1>5, <1>7 DEF MarkRethrown, St
<1>9. \A d \in Exc : /\ y[d].kind = x[d].kind /\ y[d].nextException = x[d].nextException
                     /\ y[d].primary = x[d].primary /\ y[d].referenceCount = x[d].referenceCount
  BY <1>4, <1>6
<1> QED
  BY <1>4, <1>6, <1>7, <1>8, <1>9

LEMMA ForgetForeignIs ==
    ASSUME NEW x, NEW c, NEW u, NEW fs
    PROVE  ForgetForeign(St(x, c, u, fs), c) = St(x, None, u, Forget(fs, c))
<1>1. PICK g : g = St(x, c, u, fs)
  OBVIOUS
<1>2. g.frames = fs
  BY <1>1 DEF St
<1>3. ForgetForeign(g, c) = [g EXCEPT !.caught = None, !.frames = Forget(fs, c)]
  BY <1>2 DEF ForgetForeign, Forget
<1>4. PICK hs : hs = Forget(fs, c)
  OBVIOUS
<1>5. PICK r : r = [g EXCEPT !.caught = None, !.frames = hs]
  OBVIOUS
<1>6. r = St(x, None, u, hs)
  BY <1>1, <1>5 DEF St
<1> QED
  BY <1>1, <1>3, <1>4, <1>5, <1>6

\* "throw;" when what it throws is not in flight.
LEMMA LocalRethrow ==
    ASSUME NEW x, NEW c \in Exc, NEW u, NEW fs, NEW q, NEW O, Local(x, c, u, fs, q, O),
           x[c].handlerCount >= 0
    PROVE  /\ x[c].kind # "foreign" =>
                Good(x, O, RaiseException(MarkRethrown(St(x, c, u, fs), c), c), q)
           /\ x[c].kind = "foreign" =>
                Good(x, O, RaiseException(ForgetForeign(St(x, c, u, fs), c), c), q)
<1>1. /\ StackOK(x, c, u, fs) /\ AwaitsOK(x, fs) /\ ShapeOK(fs) /\ x \in [Exc -> Header]
      /\ O \subseteq Exc /\ q \in [Ptr -> Exc \cup {None}]
      /\ O \cap Held(fs) = {} /\ RefsOK(x, O \cup Held(fs), q, None)
  BY DEF Local, StackOK
<1>2. Len(fs) \in Nat /\ Len(fs) + 1 \in Nat /\ c = HeadBelow(fs, Len(fs) + 1) /\ c # None
  BY <1>1, ShapeFacts, ExceptionAssumption DEF StackOK
<1>3. PICK m \in 1 .. Len(fs) : fs[m].caught = c
  BY <1>2, HeadIs
<1>4. Handlers(fs, c) # {} /\ m \in Handlers(fs, c)
  BY <1>3 DEF Handlers
<1>5. c \in Held(fs) /\ c \notin O /\ x[c].kind # "free" /\ CountAt(x, fs, c)
  <2>1. c \in Held(fs)
    BY <1>4 DEF Held
  <2> QED
    BY <1>1, <2>1 DEF StackOK
<1>6. CASE x[c].kind # "foreign"
  <2>1. PICK T : T = Handlers(fs, c)
    OBVIOUS
  <2>2. PICK n \in Nat : n = Cardinality(T)
    BY <1>1, <2>1, ShapeFacts
  <2>3. n # 0
    BY <1>1, <1>4, <2>1, <2>2, ShapeFacts, FS_EmptySet
  <2>4. Flights(fs, c) = {} /\ x[c].handlerCount = n
    <3>1. x[c].handlerCount = IF Flights(fs, c) # {} THEN -n ELSE n
      BY <1>5, <1>6, <2>1, <2>2 DEF CountAt
    <3> QED
      BY <2>3, <3>1
  <2>5. PICK y \in [Exc -> Header] :
             /\ MarkRethrown(St(x, c, u, fs), c) = St(y, c, u + 1, fs)
             /\ \A d \in Exc : d # c => y[d] = x[d]
             /\ y[c].handlerCount = -x[c].handlerCount
             /\ \A d \in Exc : /\ y[d].kind = x[d].kind /\ y[d].nextException = x[d].nextException
                               /\ y[d].primary = x[d].primary
                               /\ y[d].referenceCount = x[d].referenceCount
    BY <1>1, MarkRethrownIs
  <2>6. Held(fs) \subseteq Exc
    BY DEF Held
  <2>7. Alike(x, y, O) /\ Alike(x, y, Held(fs) \ {c})
    BY <1>1, <1>5, <2>5, <2>6 DEF Alike
  <2>8. y[c].handlerCount = -Cardinality(Handlers(fs, c)) /\ y[c].kind = x[c].kind
    BY <2>1, <2>2, <2>4, <2>5
  <2>9. Departs(x, y, c, fs, c)
    BY <1>5, <1>6, <2>4, <2>5, <2>7, <2>8 DEF Departs
  <2>10. RefsOK(y, O \cup Held(fs), q, None)
    BY <1>1, <2>5, RefsSame
  <2>11. O \cup (Held(fs) \cup {c}) = O \cup Held(fs)
    BY <1>5
  <2>12. u + 1 = IF y[c].kind = "foreign" THEN u ELSE u + 1
    BY <1>6, <2>8
  <2>13. Good(x, O, RaiseException(St(y, c, u + 1, fs), c), q)
    BY <1>1, <1>5, <2>7, <2>9, <2>10, <2>11, <2>12, Raised
  <2> QED
    BY <1>6, <2>5, <2>13
<1>7. CASE x[c].kind = "foreign"
  <2>1. PICK gs : gs = Forget(fs, c)
    OBVIOUS
  <2>2. Alike(x, x, Held(fs) \ {c}) /\ Alike(x, x, O)
    BY <1>1, AlikeItself
  <2>3. StackOK(x, None, u, gs) /\ AwaitsOK(x, gs) /\ Held(gs) = Held(fs) \ {c}
    BY <1>1, <1>7, <2>1, <2>2, DropForeign
  <2>4. Flights(gs, c) = {} /\ Handlers(gs, c) = {}
    <3>1. c \notin Held(gs)
      BY <2>3
    <3> QED
      BY <3>1 DEF Held
  <2>5. Departs(x, x, None, gs, c)
    <3>1. Alike(x, x, Held(gs) \ {c})
      BY <1>1, AlikeItself
    <3> QED
      BY <1>1, <1>5, <1>7, <2>4, <3>1 DEF Departs
  <2>6. O \cup (Held(gs) \cup {c}) = O \cup Held(fs) /\ O \cap Held(gs) = {}
    BY <1>1, <1>5, <2>3
  <2>7. Good(x, O, RaiseException(St(x, None, u, gs), c), q)
    <3>1. u = IF x[c].kind = "foreign" THEN u ELSE u + 1
      BY <1>7
    <3> QED
      BY <1>1, <1>5, <2>2, <2>3, <2>5, <2>6, <3>1, Raised
  <2> QED
    BY <1>7, <2>1, <2>7, ForgetForeignIs
<1> QED
  BY <1>6, <1>7

-----------------------------------------------------------------------------
(***************************************************************************)
(* All threads.                                                            *)
(***************************************************************************)
Threads(x, C, U, F, q) ==
    /\ \A t \in Thread : StackOK(x, C[t], U[t], F[t]) /\ AwaitsOK(x, F[t])
    /\ \A t, v \in Thread : t # v => Held(F[t]) \cap Held(F[v]) = {}
    /\ RefsOK(x, {e \in Exc : \E t \in Thread : e \in Held(F[t])}, q, None)

Others(F, t) == {e \in Exc : \E v \in Thread : v # t /\ e \in Held(F[v])}

LEMMA Focus ==
    ASSUME NEW x, NEW C, NEW U, NEW F, NEW q \in [Ptr -> Exc \cup {None}],
           Threads(x, C, U, F, q), NEW t \in Thread
    PROVE  Local(x, C[t], U[t], F[t], q, Others(F, t))
<1>1. Others(F, t) \subseteq Exc
  BY DEF Others
<1>2. Others(F, t) \cap Held(F[t]) = {}
  BY DEF Others, Threads
<1>3. Others(F, t) \cup Held(F[t]) = {e \in Exc : \E v \in Thread : e \in Held(F[v])}
  <2>1. Held(F[t]) \subseteq Exc
    BY DEF Held
  <2>2. \A e \in Exc : (e \in Others(F, t) \/ e \in Held(F[t])) <=> \E v \in Thread : e \in Held(F[v])
    BY DEF Others
  <2> QED
    BY <1>1, <2>1, <2>2
<1>4. RefsOK(x, Others(F, t) \cup Held(F[t]), q, None)
  BY <1>3 DEF Threads
<1>5. StackOK(x, C[t], U[t], F[t]) /\ AwaitsOK(x, F[t])
  BY DEF Threads
<1> QED
  BY <1>1, <1>2, <1>4, <1>5 DEF Local

LEMMA Lift ==
    ASSUME NEW x, NEW C, NEW U, NEW F, NEW q, Threads(x, C, U, F, q), NEW t \in Thread,
           NEW y, NEW s, NEW D, NEW V, NEW G,
           Local(y, D[t], V[t], G[t], s, Others(F, t)), Alike(x, y, Others(F, t)),
           \A v \in Thread : v # t => D[v] = C[v] /\ V[v] = U[v] /\ G[v] = F[v]
    PROVE  Threads(y, D, V, G, s)
<1>1. ASSUME NEW v \in Thread PROVE StackOK(y, D[v], V[v], G[v]) /\ AwaitsOK(y, G[v])
  <2>1. CASE v = t
    BY <2>1 DEF Local
  <2>2. CASE v # t
    <3>1. StackOK(x, C[v], U[v], F[v]) /\ AwaitsOK(x, F[v])
      BY DEF Threads
    <3>2. Held(F[v]) \subseteq Others(F, t)
      <4>1. Held(F[v]) \subseteq Exc
        BY DEF Held
      <4> QED
        BY <2>2, <4>1 DEF Others
    <3>3. Alike(x, y, Held(F[v]))
      BY <3>2 DEF Alike
    <3>4. StackOK(y, C[v], U[v], F[v]) /\ AwaitsOK(y, F[v])
      BY <3>1, <3>3, ThreadAgrees
    <3> QED
      BY <2>2, <3>4
  <2> QED
    BY <2>1, <2>2
<1>2. \A v \in Thread : v # t => Held(G[v]) \subseteq Others(F, t) /\ Held(G[v]) = Held(F[v])
  <2>1. \A v \in Thread : Held(F[v]) \subseteq Exc
    BY DEF Held
  <2> QED
    BY <2>1 DEF Others
<1>3. Others(F, t) \cap Held(G[t]) = {}
  BY DEF Local
<1>4. ASSUME NEW v \in Thread, NEW w \in Thread, v # w PROVE Held(G[v]) \cap Held(G[w]) = {}
  <2>1. CASE v = t
    BY <1>2, <1>3, <1>4, <2>1
  <2>2. CASE w = t
    BY <1>2, <1>3, <1>4, <2>2
  <2>3. CASE v # t /\ w # t
    <3>1. Held(F[v]) \cap Held(F[w]) = {}
      BY <1>4 DEF Threads
    <3> QED
      BY <1>2, <2>3, <3>1
  <2> QED
    BY <2>1, <2>2, <2>3
<1>5. Others(F, t) \cup Held(G[t]) = {e \in Exc : \E v \in Thread : e \in Held(G[v])}
  <2>1. Held(G[t]) \subseteq Exc /\ Others(F, t) \subseteq Exc
    BY DEF Held, Others
  <2>2. ASSUME NEW e \in Exc
        PROVE  (e \in Others(F, t) \/ e \in Held(G[t])) <=> \E v \in Thread : e \in Held(G[v])
    <3>1. e \in Others(F, t) <=> \E v \in Thread : v # t /\ e \in Held(F[v])
      BY DEF Others
    <3>2. e \in Others(F, t) <=> \E v \in Thread : v # t /\ e \in Held(G[v])
      BY <1>2, <3>1
    <3> QED
      BY <3>2
  <2> QED
    BY <2>1, <2>2
<1>6. RefsOK(y, {e \in Exc : \E v \in Thread : e \in Held(G[v])}, s, None)
  BY <1>5 DEF Local
<1> QED
  BY <1>1, <1>4, <1>6 DEF Threads

LEMMA ThreadsIs == ThreadsOK <=> Threads(exc, caughtExceptions, uncaughtExceptions, frames, ptr)
BY DEF ThreadsOK, Threads, AllHeld

\* The number of native exceptions in flight depends on the kinds of those
\* only that frames hold.
LEMMA SameNativeFlights ==
    ASSUME NEW fs \in Seq(Frame), NEW x, NEW y,
           \A d \in Held(fs) : y[d].kind = x[d].kind
    PROVE  NativeFlights(y, fs) = NativeFlights(x, fs)
<1>1. Len(fs) \in Nat /\ \A i \in 1 .. Len(fs) : fs[i].flying \in Exc \cup {None}
  <2>1. Len(fs) \in Nat /\ \A i \in 1 .. Len(fs) : fs[i] \in Frame
    OBVIOUS
  <2> QED
    BY <2>1 DEF Frame
<1>2. \A i \in 1 .. Len(fs) : fs[i].flying # None => fs[i].flying \in Held(fs)
  BY <1>1 DEF Held, Flights
<1> QED
  BY <1>2 DEF NativeFlights

\* A thread has taken a step with a good outcome.
LEMMA GoodStep ==
    ASSUME IInv, process = "running", NEW t \in Thread, NEW r,
           Good(exc, Others(frames, t), r, ptr'), Set(t, r)
    PROVE  IInv'
<1>1. /\ TypeOK /\ ThreadsOK
      /\ \A v \in Thread : uncaughtExceptions[v] = Cardinality(NativeFlights(exc, frames[v]))
  BY DEF IInv
<1>2. /\ r.exc \in [Exc -> Header] /\ r.caught \in Exc \cup {None} /\ r.uncaught \in Nat
      /\ r.frames \in Seq(Frame) \ {<<>>} /\ r.process \in {"running", "terminated"} \cup Exc
      /\ ptr' \in [Ptr -> Exc \cup {None}]
      /\ r.uncaught = Cardinality(NativeFlights(r.exc, r.frames))
      /\ \A d \in Others(frames, t) : r.exc[d].kind = exc[d].kind
      /\ r.process = "running" =>
           /\ Local(r.exc, r.caught, r.uncaught, r.frames, ptr', Others(frames, t))
           /\ Alike(exc, r.exc, Others(frames, t))
  BY DEF Good
<1>3. /\ exc' = r.exc /\ process' = r.process
      /\ caughtExceptions' = [caughtExceptions EXCEPT ![t] = r.caught]
      /\ uncaughtExceptions' = [uncaughtExceptions EXCEPT ![t] = r.uncaught]
      /\ frames' = [frames EXCEPT ![t] = r.frames]
  BY DEF Set
<1>4. /\ caughtExceptions \in [Thread -> Exc \cup {None}]
      /\ uncaughtExceptions \in [Thread -> Nat]
      /\ frames \in [Thread -> Seq(Frame) \ {<<>>}]
  BY <1>1 DEF TypeOK
<1>5. TypeOK'
  <2>1. caughtExceptions' \in [Thread -> Exc \cup {None}]
    BY <1>2, <1>3, <1>4
  <2>2. uncaughtExceptions' \in [Thread -> Nat]
    BY <1>2, <1>3, <1>4
  <2>3. frames' \in [Thread -> Seq(Frame) \ {<<>>}]
    BY <1>2, <1>3, <1>4
  <2>4. process' \in {"running", "terminated", "aborted"} \cup Exc
    BY <1>2, <1>3
  <2>5. exc' \in [Exc -> Header]
    BY <1>2, <1>3
  <2> QED
    BY <1>2, <2>1, <2>2, <2>3, <2>4, <2>5 DEF TypeOK
<1>6. process' # "aborted"
  BY <1>2, <1>3, ExceptionAssumption
<1>7. /\ caughtExceptions'[t] = r.caught /\ uncaughtExceptions'[t] = r.uncaught /\ frames'[t] = r.frames
      /\ \A v \in Thread : v # t => /\ caughtExceptions'[v] = caughtExceptions[v]
                                    /\ uncaughtExceptions'[v] = uncaughtExceptions[v]
                                    /\ frames'[v] = frames[v]
  BY <1>3, <1>4
<1>8. ASSUME NEW v \in Thread
      PROVE  uncaughtExceptions'[v] = Cardinality(NativeFlights(exc', frames'[v]))
  <2>1. CASE v = t
    BY <1>2, <1>3, <1>7, <2>1
  <2>2. CASE v # t
    <3>1. Held(frames[v]) \subseteq Others(frames, t)
      <4>1. Held(frames[v]) \subseteq Exc
        BY DEF Held
      <4> QED
        BY <2>2, <4>1 DEF Others
    <3>2. \A d \in Held(frames[v]) : exc'[d].kind = exc[d].kind
      BY <1>2, <1>3, <3>1
    <3>3. frames[v] \in Seq(Frame)
      BY <1>4
    <3>4. NativeFlights(exc', frames[v]) = NativeFlights(exc, frames[v])
      BY <3>2, <3>3, SameNativeFlights
    <3> QED
      BY <1>1, <1>7, <2>2, <3>4
  <2> QED
    BY <2>1, <2>2
<1>9. ASSUME process' = "running" PROVE ThreadsOK'
  <2>1. /\ Local(exc', caughtExceptions'[t], uncaughtExceptions'[t], frames'[t], ptr', Others(frames, t))
        /\ Alike(exc, exc', Others(frames, t))
    BY <1>2, <1>3, <1>7, <1>9
  <2>2. Threads(exc, caughtExceptions, uncaughtExceptions, frames, ptr)
    BY <1>1, ThreadsIs
  <2>3. Threads(exc', caughtExceptions', uncaughtExceptions', frames', ptr')
    BY <1>7, <2>1, <2>2, Lift
  <2> QED
    BY <2>3 DEF ThreadsOK, Threads, AllHeld
<1> QED
  BY <1>5, <1>6, <1>8, <1>9 DEF IInv

\* What a thread starts from.
LEMMA Start ==
    ASSUME IInv, process = "running", NEW t \in Thread
    PROVE  /\ Local(exc, caughtExceptions[t], uncaughtExceptions[t], frames[t], ptr, Others(frames, t))
           /\ View(t) = St(exc, caughtExceptions[t], uncaughtExceptions[t], frames[t])
<1>1. TypeOK /\ ThreadsOK
  BY DEF IInv
<1>2. ptr \in [Ptr -> Exc \cup {None}]
  BY <1>1 DEF TypeOK
<1>3. Threads(exc, caughtExceptions, uncaughtExceptions, frames, ptr)
  BY <1>1, ThreadsIs
<1>4. Local(exc, caughtExceptions[t], uncaughtExceptions[t], frames[t], ptr, Others(frames, t))
  BY <1>2, <1>3, Focus
<1>5. View(t) = St(exc, caughtExceptions[t], uncaughtExceptions[t], frames[t])
  BY DEF View, St
<1> QED
  BY <1>4, <1>5

\* An action that changes only the frames of its thread, headers or pointers.
LEMMA SetIs ==
    ASSUME IInv, process = "running", NEW t \in Thread, NEW y, NEW fs,
           exc' = y, frames' = [frames EXCEPT ![t] = fs],
           UNCHANGED <<caughtExceptions, uncaughtExceptions, process>>
    PROVE  Set(t, St(y, caughtExceptions[t], uncaughtExceptions[t], fs))
<1>1. TypeOK
  BY DEF IInv
<1>2. PICK r : r = St(y, caughtExceptions[t], uncaughtExceptions[t], fs)
  OBVIOUS
<1>3. /\ r.exc = y /\ r.caught = caughtExceptions[t] /\ r.uncaught = uncaughtExceptions[t]
      /\ r.frames = fs /\ r.process = "running"
  BY <1>2 DEF St
<1>4. /\ caughtExceptions = [caughtExceptions EXCEPT ![t] = caughtExceptions[t]]
      /\ uncaughtExceptions = [uncaughtExceptions EXCEPT ![t] = uncaughtExceptions[t]]
  BY <1>1 DEF TypeOK
<1>5. Set(t, r)
  BY <1>3, <1>4 DEF Set
<1> QED
  BY <1>2, <1>5

-----------------------------------------------------------------------------
(***************************************************************************)
(* Every action preserves the invariant.                                   *)
(***************************************************************************)
LEMMA StepCall ==
    ASSUME IInv, NEW t \in Thread, NEW site \in CallSites, Call(t, site)
    PROVE  IInv'
<1>1. /\ process = "running" /\ ptr' = ptr /\ exc' = exc
      /\ frames' = [frames EXCEPT ![t] = Append(frames[t], NewFrame(site))]
      /\ UNCHANGED <<caughtExceptions, uncaughtExceptions, process>>
  BY DEF Call
<1>2. PICK r : r = St(exc, caughtExceptions[t], uncaughtExceptions[t], Append(frames[t], NewFrame(site)))
  OBVIOUS
<1>3. Local(exc, caughtExceptions[t], uncaughtExceptions[t], frames[t], ptr, Others(frames, t))
  BY <1>1, Start
<1>4. Good(exc, Others(frames, t), r, ptr)
  BY <1>2, <1>3, LocalCall
<1>5. Set(t, r)
  BY <1>1, <1>2, SetIs
<1> QED
  BY <1>1, <1>4, <1>5, GoodStep

LEMMA StepReturn ==
    ASSUME IInv, NEW t \in Thread, Return(t)
    PROVE  IInv'
<1>1. /\ process = "running" /\ ptr' = ptr /\ exc' = exc
      /\ frames' = [frames EXCEPT ![t] = Pop(frames[t])]
      /\ UNCHANGED <<caughtExceptions, uncaughtExceptions, process>>
      /\ Len(frames[t]) > 1 /\ frames[t][Len(frames[t])].at = "code"
  BY DEF Return, At, Top
<1>2. PICK r : r = St(exc, caughtExceptions[t], uncaughtExceptions[t], Pop(frames[t]))
  OBVIOUS
<1>3. Local(exc, caughtExceptions[t], uncaughtExceptions[t], frames[t], ptr, Others(frames, t))
  BY <1>1, Start
<1>4. Alike(exc, exc, Others(frames, t))
  BY AlikeItself DEF IInv, TypeOK
<1>5. Good(exc, Others(frames, t), r, ptr)
  BY <1>1, <1>2, <1>3, <1>4, LocalPop
<1>6. Set(t, r)
  BY <1>1, <1>2, SetIs
<1> QED
  BY <1>1, <1>5, <1>6, GoodStep

LEMMA StepThrow ==
    ASSUME IInv, NEW t \in Thread, NEW e \in Exc, NEW type \in Type, Throw(t, e, type)
    PROVE  IInv'
<1>1. process = "running" /\ ptr' = ptr /\ exc[e].kind = "free"
  BY DEF Throw, At, Free
<1>2. /\ Local(exc, caughtExceptions[t], uncaughtExceptions[t], frames[t], ptr, Others(frames, t))
      /\ View(t) = St(exc, caughtExceptions[t], uncaughtExceptions[t], frames[t])
  BY <1>1, Start
<1>3. PICK y : y = [exc EXCEPT ![e] = NativeNew(type)]
  OBVIOUS
<1>4. PICK g : g = St(y, caughtExceptions[t], uncaughtExceptions[t] + 1, frames[t])
  OBVIOUS
<1>5. PICK h : h = [View(t) EXCEPT
                    !.exc[e] = [Unallocated EXCEPT !.kind = "native", !.type = type,
                                                        !.referenceCount = 1],
                    !.uncaught = @ + 1]
  OBVIOUS
<1>6. h = g
  <2>1. h = [St(exc, caughtExceptions[t], uncaughtExceptions[t], frames[t]) EXCEPT
                    !.exc[e] = NativeNew(type), !.uncaught = @ + 1]
    BY <1>2, <1>5 DEF NativeNew
  <2>2. PICK n : n = NativeNew(type)
    OBVIOUS
  <2>3. h = [St(exc, caughtExceptions[t], uncaughtExceptions[t], frames[t]) EXCEPT
                    !.exc[e] = n, !.uncaught = @ + 1]
    BY <2>1, <2>2
  <2>4. h = St([exc EXCEPT ![e] = n], caughtExceptions[t], uncaughtExceptions[t] + 1, frames[t])
    BY <2>3 DEF St
  <2> QED
    BY <1>3, <1>4, <2>2, <2>4
<1>7. Set(t, RaiseException(g, e))
  <2>1. Set(t, RaiseException(h, e))
    BY <1>5 DEF Throw
  <2> QED
    BY <1>6, <2>1
<1>8. Good(exc, Others(frames, t), RaiseException(g, e), ptr)
  <2>1. NativeNew(type) \in Header /\ NativeNew(type).handlerCount = 0
        /\ NativeNew(type).kind = "native" /\ NativeNew(type).referenceCount = 1
    BY NativeHeader
  <2>2. PICK k \in Header : k = NativeNew(type) /\ k.handlerCount = 0 /\ k.kind = "native"
                            /\ k.referenceCount = 1
    BY <2>1
  <2>3. uncaughtExceptions[t] + 1 = IF k.kind = "foreign" THEN uncaughtExceptions[t]
                                    ELSE uncaughtExceptions[t] + 1
    BY <2>2
  <2> QED
    BY <1>1, <1>2, <1>3, <1>4, <2>2, <2>3, LocalThrowNew
<1> QED
  BY <1>1, <1>7, <1>8, GoodStep

LEMMA StepAllocateFails ==
    ASSUME IInv, NEW t \in Thread, AllocateFails(t)
    PROVE  IInv'
<1>1. process = "running" /\ ptr' = ptr /\ Set(t, terminate(View(t), "terminated"))
  BY DEF AllocateFails, At
<1>2. /\ Local(exc, caughtExceptions[t], uncaughtExceptions[t], frames[t], ptr, Others(frames, t))
      /\ View(t) = St(exc, caughtExceptions[t], uncaughtExceptions[t], frames[t])
  BY <1>1, Start
<1>3. Good(exc, Others(frames, t), terminate(View(t), "terminated"), ptr)
  BY <1>2, GoodTerminated
<1> QED
  BY <1>1, <1>3, GoodStep

LEMMA StepThrowForeign ==
    ASSUME IInv, NEW t \in Thread, NEW e \in Exc, ThrowForeign(t, e)
    PROVE  IInv'
<1>1. process = "running" /\ ptr' = ptr /\ exc[e].kind = "free"
  BY DEF ThrowForeign, At, Free
<1>2. /\ Local(exc, caughtExceptions[t], uncaughtExceptions[t], frames[t], ptr, Others(frames, t))
      /\ View(t) = St(exc, caughtExceptions[t], uncaughtExceptions[t], frames[t])
  BY <1>1, Start
<1>3. PICK y : y = [exc EXCEPT ![e] = ForeignNew]
  OBVIOUS
<1>4. PICK g : g = St(y, caughtExceptions[t], uncaughtExceptions[t], frames[t])
  OBVIOUS
<1>5. PICK h : h = [View(t) EXCEPT !.exc[e] = [Unallocated EXCEPT !.kind = "foreign"]]
  OBVIOUS
<1>6. h = g
  <2>1. h = [St(exc, caughtExceptions[t], uncaughtExceptions[t], frames[t]) EXCEPT !.exc[e] = ForeignNew]
    BY <1>2, <1>5 DEF ForeignNew
  <2> QED
    BY <1>3, <1>4, <2>1 DEF St
<1>7. Set(t, RaiseException(g, e))
  <2>1. Set(t, RaiseException(h, e))
    BY <1>5 DEF ThrowForeign
  <2> QED
    BY <1>6, <2>1
<1>8. Good(exc, Others(frames, t), RaiseException(g, e), ptr)
  <2>1. PICK k \in Header : k = ForeignNew /\ k.handlerCount = 0 /\ k.kind = "foreign"
    BY ForeignHeader
  <2>2. uncaughtExceptions[t] = IF k.kind = "foreign" THEN uncaughtExceptions[t]
                                ELSE uncaughtExceptions[t] + 1
    BY <2>1
  <2> QED
    BY <1>1, <1>2, <1>3, <1>4, <2>1, <2>2, LocalThrowNew
<1> QED
  BY <1>1, <1>7, <1>8, GoodStep

LEMMA StepBeginCatch ==
    ASSUME IInv, NEW t \in Thread, BeginCatch(t)
    PROVE  IInv'
<1>1. process = "running" /\ ptr' = ptr /\ frames[t][Len(frames[t])].at = "pad"
  BY DEF BeginCatch, At, Top
<1>2. /\ Local(exc, caughtExceptions[t], uncaughtExceptions[t], frames[t], ptr, Others(frames, t))
      /\ View(t) = St(exc, caughtExceptions[t], uncaughtExceptions[t], frames[t])
  BY <1>1, Start
<1>3. PICK e : e = frames[t][Len(frames[t])].flying
  OBVIOUS
<1>4. Set(t, Entering(begin_catch(View(t), e), e))
  BY <1>3 DEF BeginCatch, Entering, Top
<1>5. Good(exc, Others(frames, t), Entering(begin_catch(View(t), e), e), ptr)
  BY <1>1, <1>2, <1>3, LocalBeginCatch
<1> QED
  BY <1>1, <1>4, <1>5, GoodStep

LEMMA StepEndCatch ==
    ASSUME IInv, NEW t \in Thread, EndCatch(t)
    PROVE  IInv'
<1>1. process = "running" /\ ptr' = ptr /\ frames[t][Len(frames[t])].at = "handler"
  BY DEF EndCatch, At, Top
<1>2. /\ Local(exc, caughtExceptions[t], uncaughtExceptions[t], frames[t], ptr, Others(frames, t))
      /\ View(t) = St(exc, caughtExceptions[t], uncaughtExceptions[t], frames[t])
  BY <1>1, Start
<1>3. PICK r : r = [end_catch(View(t)) EXCEPT !.frames = Pop(@)]
  OBVIOUS
<1>4. Set(t, r)
  BY <1>3 DEF EndCatch
<1>5. Good(exc, Others(frames, t), r, ptr)
  BY <1>1, <1>2, <1>3, LocalEndCatch
<1> QED
  BY <1>1, <1>4, <1>5, GoodStep

LEMMA StepUnwindResume ==
    ASSUME IInv, NEW t \in Thread, UnwindResume(t)
    PROVE  IInv'
<1>1. process = "running" /\ ptr' = ptr
  BY DEF UnwindResume, At
<1>2. /\ Local(exc, caughtExceptions[t], uncaughtExceptions[t], frames[t], ptr, Others(frames, t))
      /\ View(t) = St(exc, caughtExceptions[t], uncaughtExceptions[t], frames[t])
  BY <1>1, Start
<1>3. PICK e : e = frames[t][Len(frames[t])].flying
  OBVIOUS
<1>4. CASE frames[t][Len(frames[t])].at = "leaving"
  <2>1. Set(t, Resume(end_catch(View(t)), e))
    BY <1>3, <1>4 DEF UnwindResume, Top
  <2>2. Good(exc, Others(frames, t), Resume(end_catch(View(t)), e), ptr)
    BY <1>2, <1>3, <1>4, LocalLeaveResume
  <2> QED
    BY <1>1, <2>1, <2>2, GoodStep
<1>5. CASE frames[t][Len(frames[t])].at # "leaving"
  <2>1. frames[t][Len(frames[t])].at = "pad" /\ frames[t][Len(frames[t])].sel = "cleanup"
    BY <1>5 DEF UnwindResume, At, Top
  <2>2. Set(t, Resume(View(t), e))
    BY <1>3, <1>5 DEF UnwindResume, Top
  <2>3. Alike(exc, exc, Others(frames, t))
    BY AlikeItself DEF IInv, TypeOK
  <2>4. Good(exc, Others(frames, t), Resume(View(t), e), ptr)
    BY <1>2, <1>3, <2>1, <2>3, LocalResume
  <2> QED
    BY <1>1, <2>2, <2>4, GoodStep
<1> QED
  BY <1>4, <1>5

LEMMA StepRethrow ==
    ASSUME IInv, ~NestedRethrow, NEW t \in Thread, Rethrow(t)
    PROVE  IInv'
<1>1. process = "running" /\ ptr' = ptr
  BY DEF Rethrow, At
<1>2. /\ Local(exc, caughtExceptions[t], uncaughtExceptions[t], frames[t], ptr, Others(frames, t))
      /\ View(t) = St(exc, caughtExceptions[t], uncaughtExceptions[t], frames[t])
  BY <1>1, Start
<1>3. PICK e : e = caughtExceptions[t]
  OBVIOUS
<1>4. PICK g : g = View(t)
  OBVIOUS
<1>5. /\ e # None => exc[e].handlerCount >= 0
      /\ Set(t, CASE e = None -> terminate(g, "terminated")
                  [] e # None /\ Native(g, e) -> RaiseException(MarkRethrown(g, e), e)
                  [] OTHER -> RaiseException(ForgetForeign(g, e), e))
  BY <1>3, <1>4 DEF Rethrow
<1>6. e \in Exc \cup {None} /\ None \notin Exc
  BY <1>3, ExceptionAssumption DEF IInv, TypeOK
<1>7. CASE e = None
  <2>1. Set(t, terminate(g, "terminated"))
    BY <1>5, <1>7
  <2>2. Good(exc, Others(frames, t), terminate(g, "terminated"), ptr)
    BY <1>2, <1>4, GoodTerminated
  <2> QED
    BY <1>1, <2>1, <2>2, GoodStep
<1>8. CASE e \in Exc
  <2>1. e # None /\ exc[e].handlerCount >= 0
    BY <1>5, <1>6, <1>8
  <2>2. exc[e].kind \in {"native", "dependent", "foreign"}
    <3>1. /\ StackOK(exc, e, uncaughtExceptions[t], frames[t])
      BY <1>2, <1>3 DEF Local
    <3>2. ShapeOK(frames[t]) /\ e = HeadBelow(frames[t], Len(frames[t]) + 1) /\ exc \in [Exc -> Header]
      BY <3>1 DEF StackOK
    <3>3. Len(frames[t]) \in Nat /\ Len(frames[t]) + 1 \in Nat
      BY <3>2, ShapeFacts
    <3>4. PICK m \in 1 .. Len(frames[t]) : frames[t][m].caught = e
      BY <2>1, <3>2, <3>3, HeadIs
    <3>5. e \in Held(frames[t])
      BY <2>1, <3>2, <3>4, HeldFacts
    <3>6. exc[e].kind # "free"
      BY <3>1, <3>5 DEF StackOK
    <3> QED
      BY <1>8, <3>2, <3>6 DEF Header
  <2>3. Native(g, e) <=> exc[e].kind # "foreign"
    <3>1. g.exc = exc
      BY <1>4 DEF View
    <3> QED
      BY <2>2, <3>1 DEF Native
  <2>4. CASE exc[e].kind # "foreign"
    <3>1. Set(t, RaiseException(MarkRethrown(g, e), e))
      BY <1>5, <2>1, <2>3, <2>4
    <3>2. Good(exc, Others(frames, t), RaiseException(MarkRethrown(g, e), e), ptr)
      BY <1>2, <1>3, <1>4, <1>8, <2>1, <2>4, LocalRethrow
    <3> QED
      BY <1>1, <3>1, <3>2, GoodStep
  <2>5. CASE exc[e].kind = "foreign"
    <3>1. Set(t, RaiseException(ForgetForeign(g, e), e))
      BY <1>5, <2>1, <2>3, <2>5
    <3>2. Good(exc, Others(frames, t), RaiseException(ForgetForeign(g, e), e), ptr)
      BY <1>2, <1>3, <1>4, <1>8, <2>1, <2>5, LocalRethrow
    <3> QED
      BY <1>1, <3>1, <3>2, GoodStep
  <2> QED
    BY <2>4, <2>5
<1> QED
  BY <1>6, <1>7, <1>8

LEMMA StepCurrentException ==
    ASSUME IInv, NEW t \in Thread, NEW p \in Ptr, CurrentException(t, p)
    PROVE  IInv'
<1>1. /\ process = "running" /\ ptr[p] = None /\ frames' = frames
      /\ UNCHANGED <<caughtExceptions, uncaughtExceptions, process>>
  BY DEF CurrentException, At
<1>2. /\ Local(exc, caughtExceptions[t], uncaughtExceptions[t], frames[t], ptr, Others(frames, t))
      /\ View(t) = St(exc, caughtExceptions[t], uncaughtExceptions[t], frames[t])
  BY <1>1, Start
<1>3. PICK e : e = current_primary_exception(View(t))
  OBVIOUS
<1>4. ptr' = [ptr EXCEPT ![p] = e] /\ exc' = increment(exc, e)
  BY <1>3 DEF CurrentException
<1>5. PICK H : H = Others(frames, t) \cup Held(frames[t])
  OBVIOUS
<1>6. /\ exc \in [Exc -> Header] /\ ptr \in [Ptr -> Exc \cup {None}] /\ RefsOK(exc, H, ptr, None)
      /\ StackOK(exc, caughtExceptions[t], uncaughtExceptions[t], frames[t]) /\ H \subseteq Exc
  BY <1>2, <1>5 DEF Local, StackOK, Held
<1>7. /\ frames \in [Thread -> Seq(Frame) \ {<<>>}]
      /\ caughtExceptions[t] \in Exc \cup {None}
  BY DEF IInv, TypeOK
<1>8. e # None => e \in Exc /\ exc[e].kind = "native"
  <2>1. PICK c \in Exc \cup {None} : c = caughtExceptions[t]
    BY <1>7
  <2>2. View(t).caught = c /\ View(t).exc = exc
    BY <1>2, <2>1 DEF St
  <2>3. SUFFICES ASSUME e # None PROVE e \in Exc /\ exc[e].kind = "native"
    OBVIOUS
  <2>4. c \in Exc /\ exc[c].kind \in {"native", "dependent"}
        /\ e = IF exc[c].kind = "dependent" THEN exc[c].primary ELSE c
    BY <1>3, <2>2, <2>3 DEF current_primary_exception, Native
  <2> QED
    BY <1>6, <2>4 DEF RefsOK
<1>9. PICK y : y = increment(exc, e)
  OBVIOUS
<1>10. RefsOK(y, H, ptr, e) /\ Alike(exc, y, Exc)
  <2>1. CASE e = None
    <3>1. y = exc
      BY <1>9, <2>1 DEF increment
    <3> QED
      BY <1>6, <2>1, <3>1, AlikeItself
  <2>2. CASE e # None
    BY <1>6, <1>8, <1>9, <2>2, RefsIncrement
  <2> QED
    BY <2>1, <2>2
<1>11. Alike(exc, y, H) /\ (e # None => y[e].kind = "native") /\ e \in Exc \cup {None}
  BY <1>6, <1>8, <1>10 DEF Alike
<1>12. PICK s : s = [ptr EXCEPT ![p] = e]
  OBVIOUS
<1>13. RefsOK(y, H, s, None) /\ s \in [Ptr -> Exc \cup {None}]
  <2>1. RefsOK(y, H, s, ptr[p])
    BY <1>6, <1>10, <1>11, <1>12, RefsSwap
  <2>2. s \in [Ptr -> Exc \cup {None}]
    BY <1>6, <1>11, <1>12
  <2> QED
    BY <1>1, <2>1, <2>2
<1>14. PICK r : r = St(y, caughtExceptions[t], uncaughtExceptions[t], frames[t])
  OBVIOUS
<1>15. Good(exc, Others(frames, t), r, s)
  BY <1>2, <1>5, <1>11, <1>13, <1>14, LocalPtr
<1>16. Set(t, r)
  <2>1. frames' = [frames EXCEPT ![t] = frames[t]] /\ exc' = y
    BY <1>1, <1>4, <1>7, <1>9
  <2> QED
    BY <1>1, <1>14, <2>1, SetIs
<1> QED
  BY <1>1, <1>4, <1>12, <1>15, <1>16, GoodStep

LEMMA StepMakeExceptionPtr ==
    ASSUME IInv, NEW t \in Thread, NEW p \in Ptr, NEW e \in Exc, NEW type \in Type,
           MakeExceptionPtr(t, p, e, type)
    PROVE  IInv'
<1>1. /\ process = "running" /\ ptr[p] = None /\ frames' = frames /\ exc[e].kind = "free"
      /\ UNCHANGED <<caughtExceptions, uncaughtExceptions, process>>
      /\ ptr' = [ptr EXCEPT ![p] = e]
  BY DEF MakeExceptionPtr, At, Free
<1>2. /\ Local(exc, caughtExceptions[t], uncaughtExceptions[t], frames[t], ptr, Others(frames, t))
  BY <1>1, Start
<1>3. PICK H : H = Others(frames, t) \cup Held(frames[t])
  OBVIOUS
<1>4. /\ exc \in [Exc -> Header] /\ ptr \in [Ptr -> Exc \cup {None}] /\ RefsOK(exc, H, ptr, None)
      /\ H \subseteq Exc
  BY <1>2, <1>3 DEF Local, StackOK, Held
<1>5. PICK y : y = exc'
  OBVIOUS
<1>6. y = [exc EXCEPT ![e] = NativeNew(type)]
  <2>1. PICK n : n = [Unallocated EXCEPT !.kind = "native", !.type = type]
    OBVIOUS
  <2>2. PICK z : z = [exc EXCEPT ![e] = n]
    OBVIOUS
  <2>3. y = [z EXCEPT ![e].referenceCount = @ + 1]
    BY <1>5, <2>1, <2>2, ExceptionAssumption DEF MakeExceptionPtr, increment
  <2>4. z[e] = n
    BY <1>4, <2>2
  <2>5. NativeNew(type) = [n EXCEPT !.referenceCount = @ + 1]
    BY <2>1 DEF NativeNew, Unallocated
  <2>6. PICK k : k = NativeNew(type)
    OBVIOUS
  <2>7. y = [z EXCEPT ![e] = k]
    BY <2>3, <2>4, <2>5, <2>6
  <2> QED
    BY <1>4, <2>2, <2>6, <2>7
<1>7. PICK k \in Header : k = NativeNew(type) /\ k.kind = "native" /\ k.referenceCount = 1
  BY NativeHeader
<1>8. y \in [Exc -> Header] /\ y[e] = k /\ \A d \in Exc : d # e => y[d] = exc[d]
  BY <1>4, <1>6, <1>7
<1>9. RefsOK(y, H, ptr, e) /\ e \notin H
  BY <1>1, <1>4, <1>7, <1>8, RefsNew
<1>10. Alike(exc, y, H)
  BY <1>4, <1>8, <1>9 DEF Alike
<1>11. PICK s : s = [ptr EXCEPT ![p] = e]
  OBVIOUS
<1>12. RefsOK(y, H, s, None) /\ s \in [Ptr -> Exc \cup {None}]
  <2>1. RefsOK(y, H, s, ptr[p])
    BY <1>4, <1>7, <1>8, <1>9, <1>11, RefsSwap
  <2>2. s \in [Ptr -> Exc \cup {None}]
    BY <1>4, <1>11
  <2> QED
    BY <1>1, <2>1, <2>2
<1>13. PICK r : r = St(y, caughtExceptions[t], uncaughtExceptions[t], frames[t])
  OBVIOUS
<1>14. Good(exc, Others(frames, t), r, s)
  BY <1>2, <1>3, <1>10, <1>12, <1>13, LocalPtr
<1>15. Set(t, r)
  <2>1. frames' = [frames EXCEPT ![t] = frames[t]] /\ exc' = y
    BY <1>1, <1>5 DEF IInv, TypeOK
  <2> QED
    BY <1>1, <1>13, <2>1, SetIs
<1> QED
  BY <1>1, <1>11, <1>14, <1>15, GoodStep

LEMMA StepAssignTo ==
    ASSUME IInv, NEW t \in Thread, NEW p \in Ptr, NEW e \in {None} \cup {ptr[q] : q \in Ptr},
           AssignTo(t, p, e)
    PROVE  IInv'
<1>1. /\ process = "running" /\ frames' = frames
      /\ UNCHANGED <<caughtExceptions, uncaughtExceptions, process>>
      /\ ptr' = [ptr EXCEPT ![p] = e] /\ exc' = decrement(increment(exc, e), ptr[p])
  BY DEF AssignTo, At
<1>2. /\ Local(exc, caughtExceptions[t], uncaughtExceptions[t], frames[t], ptr, Others(frames, t))
  BY <1>1, Start
<1>3. PICK H : H = Others(frames, t) \cup Held(frames[t])
  OBVIOUS
<1>4. /\ exc \in [Exc -> Header] /\ ptr \in [Ptr -> Exc \cup {None}] /\ RefsOK(exc, H, ptr, None)
      /\ H \subseteq Exc
  BY <1>2, <1>3 DEF Local, StackOK, Held
<1>5. e \in Exc \cup {None} /\ (e # None => e \in Exc /\ exc[e].kind = "native")
  BY <1>4 DEF RefsOK
<1>6. PICK z : z = increment(exc, e)
  OBVIOUS
<1>7. RefsOK(z, H, ptr, e) /\ Alike(exc, z, Exc)
  <2>1. CASE e = None
    <3>1. z = exc
      BY <1>6, <2>1 DEF increment
    <3> QED
      BY <1>4, <2>1, <3>1, AlikeItself
  <2>2. CASE e # None
    BY <1>4, <1>5, <1>6, <2>2, RefsIncrement
  <2> QED
    BY <2>1, <2>2
<1>8. PICK s : s = [ptr EXCEPT ![p] = e]
  OBVIOUS
<1>9. PICK o : o = ptr[p]
  OBVIOUS
<1>10. /\ RefsOK(z, H, s, o) /\ s \in [Ptr -> Exc \cup {None}] /\ z \in [Exc -> Header]
       /\ o # None => o \in Exc /\ z[o].kind = "native"
  <2>1. e # None => z[e].kind = "native"
    BY <1>5, <1>7 DEF Alike
  <2>2. RefsOK(z, H, s, o)
    BY <1>4, <1>5, <1>7, <1>8, <1>9, <2>1, RefsSwap
  <2>3. s \in [Ptr -> Exc \cup {None}] /\ z \in [Exc -> Header]
    BY <1>4, <1>5, <1>7, <1>8 DEF Alike
  <2>4. o # None => o \in Exc /\ exc[o].kind = "native"
    BY <1>4, <1>9 DEF RefsOK
  <2> QED
    BY <1>7, <2>2, <2>3, <2>4 DEF Alike
<1>11. PICK y : y = decrement(z, o)
  OBVIOUS
<1>12. RefsOK(y, H, s, None) /\ Alike(z, y, H)
  <2>1. CASE o = None
    <3>1. y = z
      BY <1>11, <2>1 DEF decrement
    <3> QED
      BY <1>10, <2>1, <3>1, AlikeItself
  <2>2. CASE o # None
    <3>1. H \in SUBSET Exc
      BY <1>4
    <3> QED
      BY <1>10, <1>11, <2>2, <3>1, RefsDecrement
  <2> QED
    BY <2>1, <2>2
<1>13. Alike(exc, y, H)
  BY <1>4, <1>7, <1>12 DEF Alike
<1>14. PICK r : r = St(y, caughtExceptions[t], uncaughtExceptions[t], frames[t])
  OBVIOUS
<1>15. Good(exc, Others(frames, t), r, s)
  BY <1>2, <1>3, <1>10, <1>12, <1>13, <1>14, LocalPtr
<1>16. Set(t, r)
  <2>1. frames' = [frames EXCEPT ![t] = frames[t]] /\ exc' = y
    BY <1>1, <1>6, <1>9, <1>11 DEF IInv, TypeOK
  <2> QED
    BY <1>1, <1>14, <2>1, SetIs
<1> QED
  BY <1>1, <1>8, <1>15, <1>16, GoodStep

LEMMA StepRethrowException ==
    ASSUME IInv, NEW t \in Thread, NEW p \in Ptr, NEW d \in Exc, RethrowException(t, p, d)
    PROVE  IInv'
<1>1. process = "running" /\ ptr' = ptr
  BY DEF RethrowException, At
<1>2. /\ Local(exc, caughtExceptions[t], uncaughtExceptions[t], frames[t], ptr, Others(frames, t))
      /\ View(t) = St(exc, caughtExceptions[t], uncaughtExceptions[t], frames[t])
  BY <1>1, Start
<1>3. CASE ptr[p] = None
  <2>1. Set(t, terminate(View(t), "terminated"))
    BY <1>3 DEF RethrowException
  <2>2. Good(exc, Others(frames, t), terminate(View(t), "terminated"), ptr)
    BY <1>2, GoodTerminated
  <2> QED
    BY <1>1, <2>1, <2>2, GoodStep
<1>4. CASE ptr[p] # None
  <2>1. PICK e : e = ptr[p]
    OBVIOUS
  <2>2. PICK y : y = rethrow_primary_exception(exc, e, d)
    OBVIOUS
  <2>3. PICK h : h = [View(t) EXCEPT !.exc = rethrow_primary_exception(@, ptr[p], d),
                                     !.uncaught = @ + 1]
    OBVIOUS
  <2>4. Set(t, RaiseException(h, d)) /\ exc[d].kind = "free"
    BY <1>4, <2>3 DEF RethrowException, Free
  <2>5. h = [St(exc, caughtExceptions[t], uncaughtExceptions[t], frames[t]) EXCEPT
                !.exc = y, !.uncaught = @ + 1]
    <3>1. View(t).exc = exc
      BY DEF View
    <3>2. h = [View(t) EXCEPT !.exc = y, !.uncaught = @ + 1]
      BY <2>1, <2>2, <2>3, <3>1
    <3> QED
      BY <1>2, <3>2
  <2>6. h = St(y, caughtExceptions[t], uncaughtExceptions[t] + 1, frames[t])
    BY <2>5 DEF St
  <2>7. Good(exc, Others(frames, t), RaiseException(h, d), ptr)
    BY <1>2, <1>4, <2>1, <2>2, <2>4, <2>6, LocalRethrowPtr
  <2> QED
    BY <1>1, <2>4, <2>7, GoodStep
<1> QED
  BY <1>3, <1>4

-----------------------------------------------------------------------------
(***************************************************************************)
(* The invariant holds.                                                    *)
(***************************************************************************)
LEMMA InitialThread ==
    ASSUME NEW fs, fs = <<NewFrame(NoPad)>>, NEW x, x = [e \in Exc |-> Unallocated]
    PROVE  /\ StackOK(x, None, 0, fs) /\ AwaitsOK(x, fs) /\ Held(fs) = {}
           /\ fs \in Seq(Frame) \ {<<>>} /\ Cardinality(NativeFlights(x, fs)) = 0
<1>1. PICK f : f = NewFrame(NoPad)
  OBVIOUS
<1>2. /\ f \in Frame /\ f.at = "code" /\ f.flying = None /\ f.caught = None
      /\ f.sel = "cleanup" /\ f.site = NoPad
  BY <1>1 DEF NewFrame, Frame, Action
<1>3. fs \in Seq(Frame) /\ Len(fs) = 1 /\ fs[1] = f /\ fs # <<>>
  BY <1>1, <1>2
<1>4. \A i \in 1 .. Len(fs) : fs[i] = f
  BY <1>3
<1>5. FrameOK(f) /\ ~Clause(f)
  BY <1>2 DEF FrameOK, Clause
<1>6. ShapeOK(fs)
  BY <1>2, <1>3, <1>4, <1>5 DEF ShapeOK
<1>7. x \in [Exc -> Header]
  BY UnallocatedFacts
<1>8. \A i \in 1 .. Len(fs) : ChainAt(x, fs, i) /\ FlightAt(x, fs, i) /\ AwaitAt(x, fs, i)
  BY <1>2, <1>4, <1>5 DEF ChainAt, FlightAt, AwaitAt
<1>9. Held(fs) = {}
  <2>1. None \notin Exc
    BY ExceptionAssumption
  <2>2. \A e \in Exc : Handlers(fs, e) = {} /\ Flights(fs, e) = {}
    BY <1>2, <1>4, <2>1 DEF Handlers, Flights
  <2> QED
    BY <2>2 DEF Held
<1>10. HeadBelow(fs, Len(fs) + 1) = None
  <2>1. ClausesBelow(fs, Len(fs) + 1) = {}
    BY <1>4, <1>5 DEF ClausesBelow
  <2> QED
    BY <2>1 DEF HeadBelow
<1>11. Cardinality(NativeFlights(x, fs)) = 0
  <2>1. NativeFlights(x, fs) = {}
    BY <1>2, <1>4 DEF NativeFlights
  <2> QED
    BY <2>1, FS_EmptySet
<1>12. StackOK(x, None, 0, fs)
  BY <1>6, <1>7, <1>8, <1>9, <1>10, <1>11 DEF StackOK
<1> QED
  BY <1>3, <1>8, <1>9, <1>11, <1>12 DEF AwaitsOK

LEMMA InitIInv == Init => IInv
<1>1. SUFFICES ASSUME Init PROVE IInv
  OBVIOUS
<1>2. /\ exc = [e \in Exc |-> Unallocated] /\ process = "running"
      /\ \A t \in Thread : /\ caughtExceptions[t] = None /\ uncaughtExceptions[t] = 0
                           /\ frames[t] = <<NewFrame(NoPad)>>
      /\ \A p \in Ptr : ptr[p] = None
  BY <1>1 DEF Init
<1>3. ASSUME NEW t \in Thread
      PROVE  /\ StackOK(exc, caughtExceptions[t], uncaughtExceptions[t], frames[t])
             /\ AwaitsOK(exc, frames[t]) /\ Held(frames[t]) = {}
             /\ frames[t] \in Seq(Frame) \ {<<>>}
             /\ Cardinality(NativeFlights(exc, frames[t])) = 0
  BY <1>2, InitialThread
<1>4. TypeOK
  <2>1. exc \in [Exc -> Header]
    BY <1>2, UnallocatedFacts
  <2>2. /\ caughtExceptions \in [Thread -> Exc \cup {None}]
        /\ uncaughtExceptions \in [Thread -> Nat] /\ ptr \in [Ptr -> Exc \cup {None}]
    BY <1>1 DEF Init
  <2>3. frames \in [Thread -> Seq(Frame) \ {<<>>}]
    <3>1. frames = [t \in Thread |-> <<NewFrame(NoPad)>>]
      BY <1>1 DEF Init
    <3> QED
      BY <1>2, <1>3, <3>1
  <2> QED
    BY <1>2, <2>1, <2>2, <2>3 DEF TypeOK
<1>5. AllHeld = {}
  BY <1>3 DEF AllHeld
<1>6. RefsOK(exc, {}, ptr, None)
  <2>1. \A d \in Exc : exc[d].kind = "free"
    BY <1>2, UnallocatedFacts
  <2>2. None \notin Exc
    BY ExceptionAssumption
  <2>3. \A e \in Exc : RefsOf(exc, {}, ptr, None, e) = 0
    BY <1>2, <2>1, <2>2, RefsNat
  <2> QED
    BY <1>2, <2>1, <2>3 DEF RefsOK
<1>7. ThreadsOK
  BY <1>3, <1>5, <1>6 DEF ThreadsOK
<1> QED
  BY <1>2, <1>3, <1>4, <1>7 DEF IInv

LEMMA NextIInv ==
    ASSUME ~NestedRethrow, IInv, [Next]_vars
    PROVE  IInv'
<1>1. CASE UNCHANGED vars
  <2>1. /\ exc' = exc /\ caughtExceptions' = caughtExceptions /\ process' = process
        /\ uncaughtExceptions' = uncaughtExceptions /\ frames' = frames /\ ptr' = ptr
    BY <1>1 DEF vars
  <2> QED
    BY <2>1 DEF IInv, TypeOK, ThreadsOK, AllHeld
<1>2. ASSUME NEW t \in Thread, NEW site \in CallSites, Call(t, site) PROVE IInv'
  BY <1>2, StepCall
<1>3. ASSUME NEW t \in Thread, Return(t) PROVE IInv'
  BY <1>3, StepReturn
<1>4. ASSUME NEW t \in Thread, NEW e \in Exc, NEW type \in Type, Throw(t, e, type) PROVE IInv'
  BY <1>4, StepThrow
<1>5. ASSUME NEW t \in Thread, AllocateFails(t) PROVE IInv'
  BY <1>5, StepAllocateFails
<1>6. ASSUME NEW t \in Thread, NEW e \in Exc, ThrowForeign(t, e) PROVE IInv'
  BY <1>6, StepThrowForeign
<1>7. ASSUME NEW t \in Thread, BeginCatch(t) PROVE IInv'
  BY <1>7, StepBeginCatch
<1>8. ASSUME NEW t \in Thread, EndCatch(t) PROVE IInv'
  BY <1>8, StepEndCatch
<1>9. ASSUME NEW t \in Thread, UnwindResume(t) PROVE IInv'
  BY <1>9, StepUnwindResume
<1>10. ASSUME NEW t \in Thread, Rethrow(t) PROVE IInv'
  BY <1>10, StepRethrow
<1>11. ASSUME NEW t \in Thread, NEW p \in Ptr, CurrentException(t, p) PROVE IInv'
  BY <1>11, StepCurrentException
<1>12. ASSUME NEW t \in Thread, NEW p \in Ptr, NEW e \in Exc, NEW type \in Type,
              MakeExceptionPtr(t, p, e, type)
       PROVE  IInv'
  BY <1>12, StepMakeExceptionPtr
<1>13. ASSUME NEW t \in Thread, NEW p \in Ptr, NEW e \in {None} \cup {ptr[q] : q \in Ptr},
              AssignTo(t, p, e)
       PROVE  IInv'
  BY <1>13, StepAssignTo
<1>14. ASSUME NEW t \in Thread, NEW p \in Ptr, NEW d \in Exc, RethrowException(t, p, d) PROVE IInv'
  BY <1>14, StepRethrowException
<1>15. CASE Next
  BY <1>2, <1>3, <1>4, <1>5, <1>6, <1>7, <1>8, <1>9, <1>10, <1>11, <1>12, <1>13, <1>14, <1>15 DEF Next
<1> QED
  BY <1>1, <1>15

LEMMA Invariance ==
    ASSUME ~NestedRethrow
    PROVE  Spec => []IInv
<1>1. IInv /\ [Next]_vars => IInv'
  BY NextIInv
<1> QED
  BY <1>1, InitIInv, PTL DEF Spec

-----------------------------------------------------------------------------
(***************************************************************************)
(* What the invariant implies.                                             *)
(***************************************************************************)
LEMMA Views ==
    ASSUME IInv, NEW t \in Thread
    PROVE  /\ frames[t] \in Seq(Frame) /\ DOMAIN frames[t] = 1 .. Len(frames[t])
           /\ Len(frames[t]) \in Nat
           /\ \A e : HandlersOf(t, e) = Handlers(frames[t], e)
           /\ \A e : FlightsOf(t, e) = Flights(frames[t], e)
<1>1. frames[t] \in Seq(Frame)
  BY DEF IInv, TypeOK
<1>2. DOMAIN frames[t] = 1 .. Len(frames[t]) /\ Len(frames[t]) \in Nat
  BY <1>1
<1> QED
  BY <1>1, <1>2 DEF HandlersOf, FlightsOf, Handlers, Flights

LEMMA ImpliesHandlerStack == IInv => HandlerStackInv
<1>1. SUFFICES ASSUME IInv PROVE HandlerStackInv
  OBVIOUS
<1>2. ASSUME process = "running", NEW t \in Thread, NEW K,
             K = {i \in DOMAIN frames[t] : frames[t][i].at \in {"handler", "leaving"}}
      PROVE  caughtExceptions[t] = IF K = {} THEN None ELSE frames[t][Max(K)].caught
  <2>1. DOMAIN frames[t] = 1 .. Len(frames[t]) /\ Len(frames[t]) \in Nat
    BY <1>1, Views
  <2>2. \A i \in 1 .. Len(frames[t]) : i < Len(frames[t]) + 1
    BY <2>1
  <2>3. K = ClausesBelow(frames[t], Len(frames[t]) + 1)
    BY <1>2, <2>1, <2>2 DEF ClausesBelow, Clause
  <2>4. caughtExceptions[t] = HeadBelow(frames[t], Len(frames[t]) + 1)
    BY <1>1, <1>2 DEF IInv, ThreadsOK, StackOK
  <2> QED
    BY <2>3, <2>4 DEF HeadBelow
<1>3. CurrentIsInnermost
  BY <1>2 DEF CurrentIsInnermost
<1> QED
  BY <1>1, <1>3 DEF HandlerStackInv, IInv

LEMMA ImpliesHandlerCount == IInv => HandlerCountAgrees
<1>1. SUFFICES ASSUME IInv, process = "running", NEW e \in Exc,
                      exc[e].kind \in {"native", "dependent"}, NEW t \in Thread,
                      HandlersOf(t, e) \cup FlightsOf(t, e) # {}
               PROVE  exc[e].handlerCount = IF FlightsOf(t, e) # {}
                                            THEN -Cardinality(HandlersOf(t, e))
                                            ELSE Cardinality(HandlersOf(t, e))
  BY DEF HandlerCountAgrees
<1>2. HandlersOf(t, e) = Handlers(frames[t], e) /\ FlightsOf(t, e) = Flights(frames[t], e)
  BY <1>1, Views
<1>3. e \in Held(frames[t])
  BY <1>1, <1>2 DEF Held
<1>4. CountAt(exc, frames[t], e)
  BY <1>1, <1>3 DEF IInv, ThreadsOK, StackOK
<1> QED
  BY <1>1, <1>2, <1>4 DEF CountAt

LEMMA ImpliesUncaught == IInv => UncaughtAgrees
<1>1. SUFFICES ASSUME IInv, NEW t \in Thread
               PROVE  uncaughtExceptions[t] =
                        Cardinality({i \in DOMAIN frames[t] :
                                        /\ frames[t][i].flying # None
                                        /\ exc[frames[t][i].flying].kind # "foreign"})
  BY DEF UncaughtAgrees
<1>2. DOMAIN frames[t] = 1 .. Len(frames[t])
  BY <1>1, Views
<1>3. uncaughtExceptions[t] = Cardinality(NativeFlights(exc, frames[t]))
  BY <1>1 DEF IInv
<1> QED
  BY <1>2, <1>3 DEF NativeFlights

LEMMA ReferredIs ==
    ASSUME IInv, NEW e \in Exc
    PROVE  Referred(e) = RefsOf(exc, AllHeld, ptr, None, e)
<1>1. (IsFlying(e) \/ IsHandled(e)) <=> e \in AllHeld
  <2>1. \A t \in Thread : /\ HandlersOf(t, e) = Handlers(frames[t], e)
                          /\ FlightsOf(t, e) = Flights(frames[t], e)
    BY Views
  <2> QED
    BY <2>1 DEF IsFlying, IsHandled, AllHeld, Held
<1>2. PICK P \in Nat : P = Cardinality({p \in Ptr : ptr[p] = e}) /\ P = Cardinality(PtrsTo(ptr, e))
  <2>1. PtrsTo(ptr, e) = {p \in Ptr : ptr[p] = e}
    BY DEF PtrsTo
  <2>2. Cardinality(PtrsTo(ptr, e)) \in Nat
    BY RefsNums
  <2> QED
    BY <2>1, <2>2
<1>3. PICK D \in Nat : D = Cardinality(Dependents(e)) /\ D = Cardinality(DepsOf(exc, e))
  BY RefsNums DEF DepsOf, Dependents
<1>4. PICK h \in Nat : h = (IF IsFlying(e) \/ IsHandled(e) THEN 1 ELSE 0) /\ h = One(e \in AllHeld)
  BY <1>1 DEF One
<1>5. One(e = None) = 0
  BY ExceptionAssumption DEF One
<1>6. Referred(e) = h + P + D
  BY <1>2, <1>3, <1>4 DEF Referred
<1>7. RefsOf(exc, AllHeld, ptr, None, e) = h + P + D + 0
  BY <1>2, <1>3, <1>4, <1>5 DEF RefsOf
<1> QED
  BY <1>6, <1>7

LEMMA ImpliesLive == IInv => LiveIffReferred /\ InFlightIsLive
<1>1. SUFFICES ASSUME IInv PROVE LiveIffReferred /\ InFlightIsLive
  OBVIOUS
<1>2. ASSUME process = "running", NEW e \in Exc
      PROVE  /\ exc[e].kind = "free" <=> Referred(e) = 0
             /\ exc[e].kind = "native" => exc[e].referenceCount = Referred(e)
  <2>1. RefsOK(exc, AllHeld, ptr, None)
    BY <1>1, <1>2 DEF IInv, ThreadsOK
  <2>2. Referred(e) = RefsOf(exc, AllHeld, ptr, None, e)
    BY <1>1, ReferredIs
  <2> QED
    BY <2>1, <2>2 DEF RefsOK
<1>3. ASSUME process = "running", NEW e \in Exc, IsFlying(e) PROVE exc[e].kind # "free"
  <2>1. PICK t \in Thread : FlightsOf(t, e) # {}
    BY <1>3 DEF IsFlying
  <2>2. e \in Held(frames[t])
    BY <1>1, <2>1, Views DEF Held
  <2> QED
    BY <1>1, <1>3, <2>2 DEF IInv, ThreadsOK, StackOK
<1> QED
  BY <1>2, <1>3 DEF LiveIffReferred, InFlightIsLive

LEMMA ImpliesHandlerAwaits == IInv => HandlerAwaits
<1>1. SUFFICES ASSUME IInv PROVE HandlerAwaits
  OBVIOUS
<1>2. process # "aborted"
  BY <1>1 DEF IInv
<1>3. SUFFICES ASSUME process = "running", NEW t \in Thread, NEW i \in DOMAIN frames[t],
                      frames[t][i].flying # None
               PROVE  LET f == frames[t][i]
                          x == exc[f.flying]
                          h == frames[t][x.private_2]
                          native == x.kind # "foreign"
                      IN  /\ x.private_2 \in 1..i
                          /\ IF f.at = "pad" /\ f.sel # "cleanup"
                             THEN x.private_2 = i
                                  /\ f.sel = scan_eh_tab(f.site, TRUE, native, x.type).sel
                             ELSE /\ x.private_2 < i
                                  /\ scan_eh_tab(SiteOf(h), TRUE, native, x.type).reason = "found"
  BY <1>2, Zenon DEF HandlerAwaits
<1>4. PICK f : f = frames[t][i]
  OBVIOUS
<1>5. PICK x : x = exc[f.flying]
  OBVIOUS
<1>6. PICK h : h = frames[t][x.private_2]
  OBVIOUS
<1>7. /\ x.private_2 \in 1..i
      /\ IF f.at = "pad" /\ f.sel # "cleanup"
         THEN x.private_2 = i
              /\ f.sel = scan_eh_tab(f.site, TRUE, x.kind # "foreign", x.type).sel
         ELSE /\ x.private_2 < i
              /\ scan_eh_tab(SiteOf(h), TRUE, x.kind # "foreign", x.type).reason = "found"
  <2>1. i \in 1 .. Len(frames[t]) /\ Len(frames[t]) \in Nat /\ i \in Nat
    BY <1>1, <1>3, Views
  <2>2. ShapeOK(frames[t]) /\ AwaitAt(exc, frames[t], i)
    BY <1>1, <1>3, <2>1 DEF IInv, ThreadsOK, StackOK, AwaitsOK
  <2>3. f.at = "pad" \/ f.sel = "cleanup"
    BY <1>3, <1>4, <2>1, <2>2 DEF ShapeOK, FrameOK
  <2>4. CASE f.sel # "cleanup"
    <3>1. x.private_2 = i /\ f.sel = scan_eh_tab(f.site, TRUE, x.kind # "foreign", x.type).sel
      BY <1>3, <1>4, <1>5, <2>2, <2>4 DEF AwaitAt
    <3>2. i \in 1 .. i
      BY <2>1
    <3> QED
      BY <2>3, <2>4, <3>1, <3>2
  <2>5. CASE f.sel = "cleanup"
    <3>1. Marked(exc, frames[t], f.flying, i)
      BY <1>3, <1>4, <2>2, <2>5 DEF AwaitAt
    <3>2. /\ x.private_2 \in 1 .. i - 1
          /\ scan_eh_tab(SiteOf(h), TRUE, x.kind # "foreign", x.type).reason = "found"
      BY <1>3, <1>5, <1>6, <3>1 DEF Marked, Answer1
    <3>3. x.private_2 \in 1 .. i /\ x.private_2 < i
      BY <2>1, <3>2
    <3> QED
      BY <2>5, <3>2, <3>3
  <2> QED
    BY <2>4, <2>5
<1> QED
  BY <1>4, <1>5, <1>6, <1>7, Zenon

-----------------------------------------------------------------------------
(***************************************************************************)
(* The theorems.  All are about programs in which no destructor executes   *)
(* "throw;" for an exception that a "throw;" has already put in flight.    *)
(***************************************************************************)

(***************************************************************************)
(* __cxa_begin_catch and __cxa_end_catch keep the stack of caught          *)
(* exceptions in step with the catch clauses of the program: its head, to  *)
(* which "throw;" and std::current_exception refer, is the exception of    *)
(* the innermost clause that the thread is in, through every nesting of    *)
(* clauses, rethrows and destructors.  Headers and frames keep their types.*)
(***************************************************************************)
THEOREM HeadIsInnermostClause ==
    ASSUME ~NestedRethrow
    PROVE  Spec => []HandlerStackInv
BY Invariance, ImpliesHandlerStack, PTL

(***************************************************************************)
(* The handlerCount that __cxa_begin_catch, __cxa_end_catch and            *)
(* __cxa_rethrow count is the number of clauses that the exception is in,  *)
(* negative while it is in flight again; no matter how many clauses of the *)
(* same exception are nested.                                              *)
(***************************************************************************)
THEOREM HandlersAreCounted ==
    ASSUME ~NestedRethrow
    PROVE  Spec => []HandlerCountAgrees
BY Invariance, ImpliesHandlerCount, PTL

(***************************************************************************)
(* std::uncaught_exceptions, which __cxa_throw and __cxa_rethrow count up  *)
(* and __cxa_begin_catch counts down, is the number of the thread's native *)
(* exceptions in flight, also when std::terminate is called.               *)
(***************************************************************************)
THEOREM FlightsAreCounted ==
    ASSUME ~NestedRethrow
    PROVE  Spec => []UncaughtAgrees
BY Invariance, ImpliesUncaught, PTL

(***************************************************************************)
(* An exception object is allocated exactly while a thread throws or       *)
(* handles it, an exception_ptr points to it or a dependent exception      *)
(* stands for it, and its referenceCount is the number of those: no thread *)
(* frees it too early or twice, and none leaks it.                         *)
(***************************************************************************)
THEOREM FreedWithLastReference ==
    ASSUME ~NestedRethrow
    PROVE  Spec => []LiveIffReferred
BY Invariance, ImpliesLive, PTL

(***************************************************************************)
(* Phase 2 never fails to find the handler that phase 1 found: the mark    *)
(* that _Unwind_RaiseException left in the exception is that of a live     *)
(* frame below, whose table still catches the exception, whatever the      *)
(* destructors on the way throw and catch.                                 *)
(***************************************************************************)
THEOREM FoundHandlerIsEntered ==
    ASSUME ~NestedRethrow
    PROVE  Spec => []HandlerAwaits
BY Invariance, ImpliesHandlerAwaits, PTL

(***************************************************************************)
(* No __cxa_end_catch destroys an exception that is in flight.  The run    *)
(* exceptions_nested violates this without the hypothesis, so the program  *)
(* that it shows is the only kind that goes wrong.                         *)
(***************************************************************************)
THEOREM FlightKeepsExceptionAlive ==
    ASSUME ~NestedRethrow
    PROVE  Spec => []InFlightIsLive
BY Invariance, ImpliesLive, PTL
=============================================================================
