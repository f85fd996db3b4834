------------------------ MODULE WorkflowStepsProofs ------------------------
(***************************************************************************)
(* Every safety property of the step runner, for any number of workflows,  *)
(* steps, keys, values, nested calls and signals.                          *)
(*                                                                         *)
(* Shape says what a stack of calls looks like: what has begun in each     *)
(* call, and what it waits for.  On top of it, one invariant for each      *)
(* question: Errors for the exit code, Origin and Awaited for what runs    *)
(* under the finally steps, Origin and Owed for the finally steps that are *)
(* still to come, Written for what is in the outputs files, and Behind for *)
(* the containers of a run with --detach.                                  *)
(*                                                                         *)
(* Three results are conditional.  live, began and failed know steps by    *)
(* name, so two theorems about finally steps suppose that names tell the   *)
(* steps apart that they must tell apart (NamesApart, TeardownsAgree).     *)
(* Unscoped excludes async steps whose outputs the runner drops.           *)
(*                                                                         *)
(* The merge of a batch is a recursive function; what it computes is       *)
(* proved by induction on the members merged so far.                       *)
(***************************************************************************)
EXTENDS WorkflowSteps, WellFoundedInduction, SequenceTheorems, TLAPS

-----------------------------------------------------------------------------
(* Induction.  The library's induction theorems have an operator for a     *)
(* parameter; the least element of a set of numbers says as much, and it   *)
(* follows from a theorem about sets.                                      *)

(* Every set of natural numbers that is not empty has a least element.     *)
LEMMA Least ==
  ASSUME NEW T, T \subseteq Nat, T # {}
  PROVE  \E m \in T : \A k \in T : m <= k
  <1> DEFINE R == {ss \in Nat \X Nat : ss[1] < ss[2]}
  <1>1. IsWellFoundedOn(R, Nat)
    BY NatLessThanWellFounded DEF OpToRel
  <1>2. PICK m \in T : \A k \in T : ~ (<<k, m>> \in R)
    <2> HIDE DEF R
    <2> QED
      BY <1>1, WFMin
  <1>3. ASSUME NEW k \in T
        PROVE  m <= k
    <2>1. k \in Nat /\ m \in Nat
      OBVIOUS
    <2>2. ~ (<<k, m>> \in R)
      BY <1>2
    <2>3. ~ (k < m)
      BY <2>1, <2>2
    <2> QED
      BY <2>1, <2>3
  <1> QED
    BY <1>3

(* Every set of numbers between two bounds that is not empty has a         *)
(* greatest element.                                                       *)
LEMMA Greatest ==
  ASSUME NEW a \in Nat, NEW b \in Nat, NEW T, T \subseteq a..b, T # {}
  PROVE  \E m \in T : \A k \in T : k <= m
  <1> DEFINE R == {n \in Nat : b - n \in T}
  <1>1. \A k \in T : b - k \in Nat /\ b - (b - k) = k /\ k \in Nat
    OBVIOUS
  <1>2. R \subseteq Nat /\ R # {} /\ \A k \in T : b - k \in R
    BY <1>1
  <1>3. PICK n \in R : \A r \in R : n <= r
    <2> HIDE DEF R
    <2> QED
      BY <1>2, Least
  <1>4. n \in Nat /\ b - n \in T
    OBVIOUS
  <1>5. \A k \in T : k <= b - n
    BY <1>1, <1>2, <1>3, <1>4
  <1> QED
    BY <1>4, <1>5
(* A set of numbers that holds a and with every number before b the next   *)
(* holds all of a..b.                                                      *)
LEMMA Climb ==
  ASSUME NEW a \in Nat, NEW b \in Nat, NEW P,
         a <= b => a \in P,
         \A n \in a..b - 1 : n \in P => n + 1 \in P
  PROVE  \A n \in a..b : n \in P
  <1> DEFINE T == {n \in a..b : n \notin P}
  <1>1. SUFFICES ASSUME T # {}
                 PROVE  FALSE
    OBVIOUS
  <1>2. T \subseteq Nat
    OBVIOUS
  <1>3. PICK m \in T : \A k \in T : m <= k
    <2> HIDE DEF T
    <2> QED
      BY <1>1, <1>2, Least
  <1>4. m # a /\ m \in a..b /\ m \notin P
    OBVIOUS
  <1>5. m - 1 \in a..b - 1
    BY <1>4
  <1>6. m - 1 \in T
    BY <1>4, <1>5
  <1> QED
    BY <1>3, <1>4, <1>5, <1>6

(* The merge of a batch is what its recursion says.                        *)
MergeOf(f, start, path, i, j) ==
    [n \in i - 1..j |-> IF n < i THEN start ELSE Applied(f[n - 1], path[n])]

LEMMA MergeExists ==
  ASSUME NEW start, NEW path, NEW i \in Nat \ {0}, NEW j \in Nat, i - 1 <= j
  PROVE  \E f : f = MergeOf(f, start, path, i, j)
  <1> DEFINE Done(k) == \E f : f = [n \in i - 1..k |->
                            IF n < i THEN start ELSE Applied(f[n - 1], path[n])]
             P == {k \in Nat : Done(k)}
  <1>1. Done(i - 1)
    <2> DEFINE f == [n \in i - 1..i - 1 |-> start]
    <2>1. f = [n \in i - 1..i - 1 |-> IF n < i THEN start ELSE Applied(f[n - 1], path[n])]
      BY SMT
    <2> QED
      BY <2>1
  <1>2. ASSUME NEW k \in i - 1..j - 1, Done(k)
        PROVE  Done(k + 1)
    <2>1. PICK f : f = [n \in i - 1..k |->
                           IF n < i THEN start ELSE Applied(f[n - 1], path[n])]
      BY <1>2
    <2> DEFINE g == [n \in i - 1..k + 1 |->
                        IF n = k + 1 THEN Applied(f[k], path[k + 1]) ELSE f[n]]
    <2>2. ASSUME NEW n \in i - 1..k + 1
          PROVE  g[n] = IF n < i THEN start ELSE Applied(g[n - 1], path[n])
      <3>1. CASE n = k + 1
        <4>1. k \in i - 1..k + 1 /\ k # k + 1 /\ ~ (n < i) /\ n - 1 = k
          BY <3>1
        <4>2. g[k] = f[k]
          BY <4>1
        <4> QED
          BY <3>1, <4>1, <4>2
      <3>2. CASE n # k + 1
        <4>1. n \in i - 1..k
          BY <3>2
        <4>2. f[n] = IF n < i THEN start ELSE Applied(f[n - 1], path[n])
          BY <2>1, <4>1
        <4>3. ~ (n < i) => n - 1 \in i - 1..k + 1 /\ n - 1 # k + 1
          BY <4>1
        <4>4. ~ (n < i) => g[n - 1] = f[n - 1]
          BY <4>3
        <4> QED
          BY <3>2, <4>2, <4>4
      <3> QED
        BY <3>1, <3>2
    <2>3. g = [n \in i - 1..k + 1 |-> g[n]]
      OBVIOUS
    <2>4. g = [n \in i - 1..k + 1 |-> IF n < i THEN start ELSE Applied(g[n - 1], path[n])]
      <3> HIDE DEF g
      <3> QED
        BY <2>2, <2>3
    <2> QED
      BY <2>4
  <1>3. \A n \in i - 1..j : n \in P
    <2> HIDE DEF Done
    <2>1. i - 1 \in P
      BY <1>1
    <2>2. \A n \in i - 1..j - 1 : n \in P => n + 1 \in P
      BY <1>2
    <2> HIDE DEF P
    <2> QED
      BY <2>1, <2>2, Climb
  <1> QED
    BY <1>3 DEF P, MergeOf

LEMMA MergeIs ==
  ASSUME NEW start, NEW path, NEW i \in Nat \ {0}, NEW j \in Nat, i - 1 <= j
  PROVE  \E f : /\ MergedFrom(start, path, i, j) = f[j]
                /\ f[i - 1] = start
                /\ \A n \in i..j : f[n] = Applied(f[n - 1], path[n])
  <1> DEFINE f == CHOOSE g : g = [n \in i - 1..j |->
                                     IF n < i THEN start ELSE Applied(g[n - 1], path[n])]
  <1>1. f = [n \in i - 1..j |-> IF n < i THEN start ELSE Applied(f[n - 1], path[n])]
    <2> DEFINE Solves(g) == g = MergeOf(g, start, path, i, j)
    <2>1. \E g : Solves(g)
      BY MergeExists
    <2>2. Solves(CHOOSE g : Solves(g))
      <3> HIDE DEF Solves
      <3> QED
        BY <2>1
    <2> QED
      BY <2>2 DEF MergeOf
  <1>2. MergedFrom(start, path, i, j) = f[j]
    BY DEF MergedFrom
  <1> HIDE DEF f
  <1>3. f[i - 1] = start
    BY <1>1
  <1>4. ASSUME NEW n \in i..j
        PROVE  f[n] = Applied(f[n - 1], path[n])
    BY <1>1
  <1> QED
    BY <1>2, <1>3, <1>4

-----------------------------------------------------------------------------
(* Types.                                                                  *)

Failures == [id : Ids, exit : BOOLEAN]
RootSet == [source : Places, artifacts : Places, output : Places \cup {None}]
Lists == {<<>>} \cup {w.steps : w \in Called} \cup {w.finally : w \in Called}
MemberSets == UNION {[D -> Member] : D \in SUBSET Nat}
Frames == [steps : Lists, finally : Lists, teardown : BOOLEAN, i : Nat \ {0},
           docker : Map, err : Seq(Failures), members : MemberSets]

Typed ==
    /\ env \in Map
    /\ roots \in RootSet
    /\ files \in [Places \X Paths -> Map]
    /\ stack \in Seq(Frames) /\ stack # <<>>
    /\ outcome \in {"running", "ok", "failed", "killed"}
    /\ interrupts \in 0..MaxInterrupts
    /\ live \subseteq Ids /\ began \subseteq Ids
    /\ failed \in Seq(Failures)

(* A call: the members that have begun are one blocking step, the one at   *)
(* i, or an async batch that starts at i.                                  *)
FrameOK(f) ==
    /\ f.i <= Len(f.steps) + 1
    /\ DOMAIN f.members \subseteq DOMAIN f.steps
    /\ f.teardown => f.finally = <<>>
    /\ f.members # Idle =>
          /\ f.i \in DOMAIN f.members
          /\ \A n \in DOMAIN f.members :
                IF f.steps[f.i].blocking
                THEN /\ n = f.i /\ f.members[n].at # "new"
                     /\ f.err = <<>> <=> f.members[n].at # "failed"
                     /\ f.members[n].at = "calling" => f.steps[n].kind = "package"
                ELSE /\ f.i <= n /\ ~f.steps[n].blocking
                     /\ f.members[n].at # "calling"

(* A call waits for the one above it: for the workflow of its packaged     *)
(* step, or for its finally steps.                                         *)
Waits(f, g) ==
    IF g.teardown
    THEN /\ f.members = Idle /\ f.finally = <<>>
         /\ f.err # <<>> \/ f.i > Len(f.steps)
    ELSE /\ f.members # Idle /\ f.steps[f.i].blocking
         /\ f.members[f.i].at = "calling"

Calls ==
    /\ ~stack[1].teardown
    /\ \A c \in 1..Len(stack) : FrameOK(stack[c])
    /\ \A c \in 1..Len(stack) - 1 : Waits(stack[c], stack[c + 1])

-----------------------------------------------------------------------------
(* What the types say, and what replacing the innermost call does.         *)

LEMMA StackFacts ==
  ASSUME Typed
  PROVE  /\ Len(stack) \in Nat \ {0} /\ DOMAIN stack = 1..Len(stack)
         /\ \A c \in 1..Len(stack) : stack[c] \in Frames
         /\ Top \in Frames
  <1>1. stack \in Seq(Frames) /\ stack # <<>>
    BY DEF Typed
  <1> HIDE DEF Frames
  <1>2. Len(stack) \in Nat \ {0} /\ DOMAIN stack = 1..Len(stack)
    BY <1>1
  <1>3. \A c \in 1..Len(stack) : stack[c] \in Frames
    BY <1>1
  <1> QED
    BY <1>2, <1>3 DEF Top

LEMMA SetTopFacts ==
  ASSUME Typed, NEW f \in Frames, SetTop(f)
  PROVE  /\ stack' \in Seq(Frames) /\ stack' # <<>>
         /\ Len(stack') = Len(stack) /\ Top' = f
         /\ stack'[Len(stack)] = f
         /\ \A c \in 1..Len(stack) - 1 : stack'[c] = stack[c]
  <1>1. stack \in Seq(Frames) /\ stack # <<>>
    BY DEF Typed
  <1>2. stack' = [stack EXCEPT ![Len(stack)] = f]
    BY DEF SetTop
  <1> HIDE DEF Frames
  <1>3. Len(stack) \in Nat \ {0} /\ Len(stack) \in DOMAIN stack
    BY <1>1
  <1>4. stack' \in Seq(Frames) /\ Len(stack') = Len(stack)
    BY <1>1, <1>2, <1>3
  <1>5. stack'[Len(stack)] = f
    BY <1>1, <1>2, <1>3
  <1>6. stack' # <<>>
    BY <1>3, <1>4
  <1>7. \A c \in 1..Len(stack) - 1 : stack'[c] = stack[c]
    BY <1>1, <1>2, <1>3
  <1> QED
    BY <1>4, <1>5, <1>6, <1>7 DEF Top

LEMMA FrameFacts ==
  ASSUME NEW f \in Frames
  PROVE  /\ f.steps \in Lists /\ f.finally \in Lists /\ f.teardown \in BOOLEAN
         /\ f.i \in Nat \ {0} /\ f.docker \in Map /\ f.err \in Seq(Failures)
         /\ f.members \in MemberSets
  BY DEF Frames

LEMMA ListFacts ==
  ASSUME NEW s \in Lists
  PROVE  /\ s \in Seq(Declared) /\ Len(s) \in Nat /\ DOMAIN s = 1..Len(s)
         /\ \A n \in DOMAIN s : s[n] \in Declared
         /\ \A n \in DOMAIN s : s[n].kind = "package" => s[n].child \in Called
  <1>1. s = <<>> \/ WellFormed(s)
    BY WorkflowsAssumption DEF Lists
  <1> HIDE DEF Declared
  <1>2. s \in Seq(Declared)
    <2>1. CASE s = <<>>
      BY <2>1, EmptySeq
    <2>2. CASE WellFormed(s)
      BY <2>2 DEF WellFormed
    <2> QED
      BY <1>1, <2>1, <2>2
  <1>3. Len(s) \in Nat /\ DOMAIN s = 1..Len(s) /\ \A n \in DOMAIN s : s[n] \in Declared
    BY <1>2
  <1>4. \A n \in DOMAIN s : s[n].kind = "package" => s[n].child \in Called
    BY <1>1, <1>3 DEF WellFormed
  <1> QED
    BY <1>2, <1>3, <1>4

LEMMA DeclaredFacts ==
  ASSUME NEW s \in Declared
  PROVE  /\ s.id \in Ids /\ s.kind \in Kinds /\ s.blocking \in BOOLEAN
         /\ s.vars \in Map /\ s.inputs \in Map /\ s.exports \in Map /\ s.writes \in Map
         /\ s.source \in Scopes /\ s.artifacts \in Scopes /\ s.outputs \in Paths
  BY DEF Declared

LEMMA MembersAre ==
  ASSUME NEW g \in MemberSets
  PROVE  /\ DOMAIN g \subseteq Nat /\ g \in [DOMAIN g -> Member]
         /\ \A n \in DOMAIN g : g[n] \in Member
         /\ g # Idle => DOMAIN g # {}
         /\ g = Idle => DOMAIN g = {}
  <1>1. PICK D \in SUBSET Nat : g \in [D -> Member]
    BY DEF MemberSets
  <1> HIDE DEF Member
  <1>2. DOMAIN g = D
    BY <1>1
  <1>3. ASSUME D = {}
        PROVE  g = Idle
    <2>1. D = 1..0
      BY <1>3
    <2>2. g \in Seq(Member) /\ Len(g) = 0
      BY <1>1, <2>1
    <2> QED
      BY <2>2 DEF Idle
  <1> QED
    BY <1>1, <1>2, <1>3 DEF Idle

LEMMA MembersBy ==
  ASSUME NEW D, D \subseteq Nat, NEW g \in [D -> Member]
  PROVE  g \in MemberSets
  <1> HIDE DEF Member
  <1>1. D \in SUBSET Nat
    OBVIOUS
  <1> QED
    BY <1>1 DEF MemberSets

LEMMA IdleTyped == Idle \in MemberSets
  <1>1. <<>> \in [{} -> Member]
    <2> HIDE DEF Member
    <2>1. <<>> \in Seq(Member) /\ Len(<<>>) = 0
      OBVIOUS
    <2> QED
      BY <2>1
  <1> QED
    BY <1>1, MembersBy DEF Idle

-----------------------------------------------------------------------------
(* Environments stay environments.                                         *)

LEMMA EnvFacts ==
  ASSUME NEW e \in Map, NEW m \in Map
  PROVE  /\ Over(e, m) \in Map /\ Exported(e, m) \in Map /\ Nested(e, m) \in Map
         /\ NoVars \in Map
  BY StepsAssumption DEF Over, Exported, Nested, Map, NoVars, Locked

LEMMA ScopedFacts ==
  ASSUME NEW r \in RootSet, NEW step
  PROVE  Scoped(r, step) \in RootSet
  BY DEF RootSet, Scoped

LEMMA OutputsFileFacts ==
  ASSUME NEW r \in RootSet, NEW step \in Declared
  PROVE  OutputsFile(r, step) \in Places \X Paths
  <1>1. step.outputs \in Paths
    BY DeclaredFacts
  <1> HIDE DEF Places, Declared
  <1> QED
    BY <1>1 DEF OutputsFile, RootSet

Merges == [env : Map, docker : Map, files : [Places \X Paths -> Map]]

LEMMA AppliedFacts ==
  ASSUME NEW s \in Merges, NEW path \in Places \X Paths
  PROVE  Applied(s, path) \in Merges
  <1> DEFINE merged(e) == [k \in Keys |-> IF Takes(s.env, k, s.files[path][k])
                                          THEN s.files[path][k] ELSE e[k]]
             left == [s.files EXCEPT ![path] = NoVars]
  <1> HIDE DEF Places
  <1>1. s.env \in Map /\ s.docker \in Map /\ s.files \in [Places \X Paths -> Map]
    BY DEF Merges
  <1>2. s.files[path] \in Map
    BY <1>1
  <1>3. ASSUME NEW e \in Map
        PROVE  merged(e) \in Map
    BY <1>2, <1>3 DEF Map
  <1>4. left \in [Places \X Paths -> Map]
    <2>1. NoVars \in Map
      BY DEF NoVars, Map
    <2> HIDE DEF Map, NoVars
    <2> QED
      BY <1>1, <2>1
  <1>5. Applied(s, path) = [env |-> merged(s.env), docker |-> merged(s.docker), files |-> left]
    BY DEF Applied
  <1>6. merged(s.env) \in Map /\ merged(s.docker) \in Map
    BY <1>1, <1>3
  <1> HIDE DEF merged, left, Map
  <1> QED
    BY <1>4, <1>5, <1>6 DEF Merges

(* Whatever is merged, the environments stay what they are.                *)
LEMMA MergedFacts ==
  ASSUME NEW start \in Merges, NEW path, NEW i \in Nat \ {0}, NEW j \in Nat, i - 1 <= j,
         \A n \in i..j : path[n] \in Places \X Paths
  PROVE  MergedFrom(start, path, i, j) \in Merges
  <1>1. PICK f : /\ MergedFrom(start, path, i, j) = f[j]
                 /\ f[i - 1] = start
                 /\ \A n \in i..j : f[n] = Applied(f[n - 1], path[n])
    BY MergeIs
  <1> DEFINE P == {n \in Nat : f[n] \in Merges}
  <1> HIDE DEF Merges, Places
  <1>2. i - 1 \in P
    BY <1>1
  <1>3. ASSUME NEW n \in i - 1..j - 1, n \in P
        PROVE  n + 1 \in P
    <2>1. n + 1 \in i..j /\ n + 1 - 1 = n /\ n + 1 \in Nat
      OBVIOUS
    <2>2. f[n + 1] = Applied(f[n], path[n + 1])
      BY <1>1, <2>1
    <2>3. f[n] \in Merges /\ path[n + 1] \in Places \X Paths
      BY <1>3, <2>1
    <2> QED
      BY <2>1, <2>2, <2>3, AppliedFacts
  <1>4. \A n \in i - 1..j : n \in P
    <2>1. \A n \in i - 1..j - 1 : n \in P => n + 1 \in P
      BY <1>3
    <2>2. i - 1 \in Nat
      OBVIOUS
    <2> HIDE DEF P
    <2> QED
      BY <1>2, <2>1, <2>2, Climb
  <1>5. f[j] \in Merges
    BY <1>4
  <1> QED
    BY <1>1, <1>5

-----------------------------------------------------------------------------
(* What the steps of the runner do to the innermost call.                  *)

(* The innermost call is replaced by f, which is the same call.            *)
Keeps(f) ==
    /\ f \in Frames /\ SetTop(f)
    /\ f.steps = Top.steps /\ f.teardown = Top.teardown

(* Only the member n of the innermost call changes, and perhaps its error. *)
Moves(f, n) ==
    /\ Keeps(f) /\ f.finally = Top.finally /\ f.i = Top.i
    /\ DOMAIN f.members = DOMAIN Top.members
    /\ n \in DOMAIN Top.members
    /\ f.members[n] \in Member
    /\ \A k \in DOMAIN Top.members : k # n => f.members[k] = Top.members[k]

LEMMA MovesBy ==
  ASSUME Typed, NEW n \in DOMAIN Top.members, NEW m \in Member, NEW ms,
         ms = [Top.members EXCEPT ![n] = m]
  PROVE  /\ ms \in MemberSets /\ DOMAIN ms = DOMAIN Top.members /\ ms[n] = m
         /\ \A k \in DOMAIN Top.members : k # n => ms[k] = Top.members[k]
  <1>1. Top \in Frames
    BY StackFacts
  <1>2. Top.members \in MemberSets
    BY <1>1, FrameFacts
  <1>3. /\ DOMAIN Top.members \subseteq Nat
        /\ Top.members \in [DOMAIN Top.members -> Member]
    BY <1>2, MembersAre
  <1> HIDE DEF Member
  <1>4. ms \in [DOMAIN Top.members -> Member]
    BY <1>3
  <1>5. ms \in MemberSets
    BY <1>3, <1>4, MembersBy
  <1> QED
    BY <1>3, <1>4, <1>5

LEMMA TopMember ==
  ASSUME Typed, NEW n \in DOMAIN Top.members
  PROVE  /\ Top \in Frames /\ Top.members \in MemberSets /\ Top.members[n] \in Member
         /\ Top.err \in Seq(Failures) /\ Top.i \in Nat \ {0}
         /\ Top.docker \in Map
         /\ n \in DOMAIN Top.steps => Top.steps[n] \in Declared
  <1>1. Top \in Frames
    BY StackFacts
  <1>2. Top.members \in MemberSets /\ Top.steps \in Lists
    BY <1>1, FrameFacts
  <1>3. Top.members[n] \in Member
    BY <1>2, MembersAre
  <1>4. n \in DOMAIN Top.steps => Top.steps[n] \in Declared
    BY <1>2, ListFacts
  <1> QED
    BY <1>1, <1>2, <1>3, <1>4, FrameFacts

LEMMA MovesAlone ==
  ASSUME Typed, NEW n \in DOMAIN Top.members, NEW g \in Member, NEW ms,
         ms = [Top.members EXCEPT ![n] = g],
         NEW f, f = [Top EXCEPT !.members = ms],
         SetTop(f)
  PROVE  Moves(f, n) /\ f.docker = Top.docker /\ f.err = Top.err /\ f.members[n] = g
  <1>1. Top \in Frames
    BY StackFacts
  <1>2. /\ ms \in MemberSets /\ DOMAIN ms = DOMAIN Top.members /\ ms[n] = g
        /\ \A k \in DOMAIN Top.members : k # n => ms[k] = Top.members[k]
    BY MovesBy
  <1>3. /\ f \in Frames /\ f.steps = Top.steps /\ f.finally = Top.finally
        /\ f.teardown = Top.teardown /\ f.i = Top.i /\ f.docker = Top.docker
        /\ f.err = Top.err /\ f.members = ms
    BY <1>1, <1>2 DEF Frames
  <1> QED
    BY <1>2, <1>3 DEF Moves, Keeps

LEMMA SucceedMoves ==
  ASSUME Typed, NEW n \in DOMAIN Top.members, Succeed(n)
  PROVE  \E f \in Frames :
            /\ Moves(f, n) /\ f.docker = Top.docker /\ f.err = Top.err
            /\ LET m == Top.members[n]
                   g == f.members[n]
               IN  /\ m.at = "running" /\ g.at = "ok"
                   /\ g.env = m.env /\ g.docker = m.docker /\ g.roots = m.roots
                   /\ g.wrote = m.wrote
  <1>1. PICK g : g = [Top.members[n] EXCEPT !.at = "ok"]
    OBVIOUS
  <1>2. Top.members[n] \in Member
    BY TopMember
  <1>3. /\ g \in Member /\ g.at = "ok"
        /\ g.env = Top.members[n].env /\ g.docker = Top.members[n].docker
        /\ g.roots = Top.members[n].roots /\ g.wrote = Top.members[n].wrote
    BY <1>1, <1>2 DEF Member
  <1>4. PICK ms : ms = [Top.members EXCEPT ![n] = g]
    OBVIOUS
  <1>5. PICK f : f = [Top EXCEPT !.members = ms]
    OBVIOUS
  <1>6. SetTop(f) /\ Top.members[n].at = "running"
    BY <1>1, <1>4, <1>5 DEF Succeed
  <1>7. Moves(f, n) /\ f.docker = Top.docker /\ f.err = Top.err /\ f.members[n] = g
    BY <1>3, <1>4, <1>5, <1>6, MovesAlone
  <1> QED
    BY <1>3, <1>6, <1>7 DEF Moves, Keeps

LEMMA MemberStartMoves ==
  ASSUME Typed, NEW n \in DOMAIN Top.members, n \in DOMAIN Top.steps, MemberStart(n)
  PROVE  \E f \in Frames :
            /\ Moves(f, n) /\ f.docker = Top.docker /\ f.err = Top.err
            /\ LET m == Top.members[n]
                   g == f.members[n]
               IN  /\ m.at = "new" /\ g.at = "setup"
                   /\ g.env = Over(m.env, Top.steps[n].vars)
                   /\ g.docker = Over(m.docker, Top.steps[n].vars)
                   /\ g.roots = Scoped(m.roots, Top.steps[n])
                   /\ g.wrote = m.wrote
  <1> DEFINE step == Top.steps[n]
             m == Top.members[n]
  <1>1. PICK g : g = [m EXCEPT !.at = "setup", !.env = Over(m.env, step.vars),
                          !.docker = Over(m.docker, step.vars),
                          !.roots = Scoped(m.roots, step)]
    OBVIOUS
  <1>2. m \in Member /\ step \in Declared
    BY TopMember
  <1>3. step.vars \in Map /\ m.env \in Map /\ m.docker \in Map /\ m.roots \in RootSet
    BY <1>2, DeclaredFacts DEF Member, RootSet
  <1>4. /\ Over(m.env, step.vars) \in Map /\ Over(m.docker, step.vars) \in Map
        /\ Scoped(m.roots, step) \in RootSet
    BY <1>3, EnvFacts, ScopedFacts
  <1>5. /\ g \in Member /\ g.at = "setup"
        /\ g.env = Over(m.env, step.vars) /\ g.docker = Over(m.docker, step.vars)
        /\ g.roots = Scoped(m.roots, step) /\ g.wrote = m.wrote
    <2> HIDE DEF Map
    <2> QED
      BY <1>1, <1>2, <1>4 DEF Member, RootSet
  <1>6. PICK ms : ms = [Top.members EXCEPT ![n] = g]
    OBVIOUS
  <1>7. PICK f : f = [Top EXCEPT !.members = ms]
    OBVIOUS
  <1>8. SetTop(f) /\ m.at = "new"
    BY <1>1, <1>6, <1>7 DEF MemberStart
  <1>9. Moves(f, n) /\ f.docker = Top.docker /\ f.err = Top.err /\ f.members[n] = g
    BY <1>5, <1>6, <1>7, <1>8, MovesAlone
  <1> QED
    BY <1>5, <1>8, <1>9 DEF Moves, Keeps

LEMMA MemberSetupMoves ==
  ASSUME Typed, NEW n \in DOMAIN Top.members, n \in DOMAIN Top.steps, MemberSetup(n)
  PROVE  \E f \in Frames :
            /\ Moves(f, n) /\ f.docker = Top.docker /\ f.err = Top.err
            /\ LET m == Top.members[n]
                   g == f.members[n]
               IN  /\ m.at = "setup" /\ g.at = "running" /\ ~Top.steps[n].blocking
                   /\ g.env \in {m.env, Exported(m.env, Top.steps[n].exports)}
                   /\ g.docker = m.docker /\ g.roots = m.roots /\ g.wrote = m.wrote
  <1> DEFINE step == Top.steps[n]
             m == Top.members[n]
  <1>1. PICK e : e = IF step.kind = "host" THEN m.env ELSE Exported(m.env, step.exports)
    OBVIOUS
  <1>2. PICK g : g = [m EXCEPT !.at = "running", !.env = e]
    OBVIOUS
  <1>3. m \in Member /\ step \in Declared
    BY TopMember
  <1>4. step.exports \in Map /\ m.env \in Map
    BY <1>3, DeclaredFacts DEF Member
  <1>5. e \in Map
    BY <1>1, <1>4, EnvFacts
  <1>6. /\ g \in Member /\ g.at = "running" /\ g.env = e
        /\ g.docker = m.docker /\ g.roots = m.roots /\ g.wrote = m.wrote
    <2> HIDE DEF Map
    <2> QED
      BY <1>2, <1>3, <1>5 DEF Member
  <1>7. PICK ms : ms = [Top.members EXCEPT ![n] = g]
    OBVIOUS
  <1>8. PICK f : f = [Top EXCEPT !.members = ms]
    OBVIOUS
  <1>9. SetTop(f) /\ m.at = "setup" /\ ~step.blocking
    BY <1>1, <1>2, <1>7, <1>8 DEF MemberSetup
  <1>10. Moves(f, n) /\ f.docker = Top.docker /\ f.err = Top.err /\ f.members[n] = g
    BY <1>6, <1>7, <1>8, <1>9, MovesAlone
  <1> QED
    BY <1>1, <1>6, <1>9, <1>10 DEF Moves, Keeps

LEMMA WriteMoves ==
  ASSUME Typed, NEW n \in DOMAIN Top.members, n \in DOMAIN Top.steps, Write(n)
  PROVE  \E f \in Frames :
            /\ Moves(f, n) /\ f.docker = Top.docker /\ f.err = Top.err
            /\ LET m == Top.members[n]
                   g == f.members[n]
               IN  /\ m.at = "running" /\ g.at = "running"
                   /\ g.env = m.env /\ g.docker = m.docker /\ g.roots = m.roots
                   /\ g.wrote = Top.steps[n].writes
  <1> DEFINE step == Top.steps[n]
             m == Top.members[n]
  <1>1. PICK g : g = [m EXCEPT !.wrote = step.writes]
    OBVIOUS
  <1>2. m \in Member /\ step.writes \in Map
    BY TopMember, DeclaredFacts
  <1>3. /\ g \in Member /\ g.at = m.at /\ g.env = m.env
        /\ g.docker = m.docker /\ g.roots = m.roots /\ g.wrote = step.writes
    <2> HIDE DEF Map
    <2> QED
      BY <1>1, <1>2 DEF Member
  <1>4. PICK ms : ms = [Top.members EXCEPT ![n] = g]
    OBVIOUS
  <1>5. PICK f : f = [Top EXCEPT !.members = ms]
    OBVIOUS
  <1>6. SetTop(f) /\ m.at = "running"
    BY <1>1, <1>4, <1>5 DEF Write
  <1>7. Moves(f, n) /\ f.docker = Top.docker /\ f.err = Top.err /\ f.members[n] = g
    BY <1>3, <1>4, <1>5, <1>6, MovesAlone
  <1> QED
    BY <1>3, <1>6, <1>7 DEF Moves, Keeps

(* A step fails with one error, which is the first of its call or is not   *)
(* kept.                                                                   *)
LEMMA FailMoves ==
  ASSUME Typed, NEW n \in DOMAIN Top.members, n \in DOMAIN Top.steps, Fail(n)
  PROVE  \E f \in Frames, x \in Failures :
            /\ Moves(f, n) /\ f.docker = Top.docker
            /\ f.err = FirstError(Top.err, x)
            /\ x.id = Top.steps[n].id /\ failed' = Append(failed, x)
            /\ LET m == Top.members[n]
                   g == f.members[n]
               IN  /\ m.at \in {"setup", "calling", "running"} /\ g.at = "failed"
                   /\ g.env = m.env /\ g.docker = m.docker /\ g.roots = m.roots
                   /\ g.wrote = m.wrote
  <1> DEFINE step == Top.steps[n]
             m == Top.members[n]
  <1>1. PICK exit \in BOOLEAN :
           /\ SetTop([Top EXCEPT !.members[n].at = "failed",
                                   !.err = FirstError(@, Failure(step, exit))])
           /\ failed' = Append(failed, Failure(step, exit))
           /\ m.at \in {"setup", "calling", "running"}
    BY DEF Fail
  <1>2. PICK x : x = Failure(step, exit)
    OBVIOUS
  <1>3. PICK g : g = [m EXCEPT !.at = "failed"]
    OBVIOUS
  <1>4. m \in Member /\ step \in Declared /\ Top.err \in Seq(Failures) /\ Top \in Frames
    BY TopMember
  <1>5. step.id \in Ids
    BY <1>4, DeclaredFacts
  <1>6. x \in Failures /\ x.id = step.id
    BY <1>2, <1>5 DEF Failure, Failures
  <1>7. /\ g \in Member /\ g.at = "failed" /\ g.env = m.env
        /\ g.docker = m.docker /\ g.roots = m.roots /\ g.wrote = m.wrote
    BY <1>3, <1>4 DEF Member
  <1>8. PICK e : e = FirstError(Top.err, x)
    OBVIOUS
  <1>9. e \in Seq(Failures)
    <2> HIDE DEF Failures
    <2> QED
      BY <1>4, <1>6, <1>8 DEF FirstError
  <1>10. PICK ms : ms = [Top.members EXCEPT ![n] = g]
    OBVIOUS
  <1>11. PICK f : f = [Top EXCEPT !.members = ms, !.err = e]
    OBVIOUS
  <1>12. SetTop(f)
    <2>1. f = [Top EXCEPT !.members[n].at = "failed",
                          !.err = FirstError(@, Failure(step, exit))]
      BY <1>2, <1>3, <1>4, <1>8, <1>10, <1>11 DEF Frames
    <2> QED
      BY <1>1, <2>1
  <1>13. Moves(f, n) /\ f.docker = Top.docker /\ f.err = e /\ f.members[n] = g
    <2>1. g \in Member
      BY <1>7
    <2>2. /\ ms \in MemberSets /\ DOMAIN ms = DOMAIN Top.members /\ ms[n] = g
          /\ \A k \in DOMAIN Top.members : k # n => ms[k] = Top.members[k]
      BY <1>10, <2>1, MovesBy
    <2>3. /\ f \in Frames /\ f.steps = Top.steps /\ f.finally = Top.finally
          /\ f.teardown = Top.teardown /\ f.i = Top.i /\ f.docker = Top.docker
          /\ f.err = e /\ f.members = ms
      BY <1>4, <1>9, <1>11, <2>2 DEF Frames
    <2> QED
      BY <1>12, <2>1, <2>2, <2>3 DEF Moves, Keeps
  <1> QED
    BY <1>1, <1>2, <1>6, <1>7, <1>8, <1>13 DEF Moves, Keeps

LEMMA SetupMoves ==
  ASSUME Typed, Setup, Top.i \in DOMAIN Top.steps
  PROVE  \E f \in Frames :
            /\ Moves(f, Top.i) /\ f.docker = Top.docker /\ f.err = Top.err
            /\ env' \in Map /\ env' = Exported(env, Step.exports)
            /\ LET m == Top.members[Top.i]
                   g == f.members[Top.i]
               IN  /\ m.at = "setup" /\ Step.blocking
                   /\ g.at = IF Step.kind = "package" THEN "calling" ELSE "running"
                   /\ g.docker = m.docker /\ g.roots = m.roots /\ g.wrote = m.wrote
  <1> DEFINE n == Top.i
             m == Top.members[n]
  <1>1. n \in DOMAIN Top.members /\ m.at = "setup" /\ Step.blocking
    BY DEF Setup
  <1>2. m \in Member /\ Step \in Declared /\ Top \in Frames
    BY <1>1, TopMember DEF Step
  <1>3. PICK e : e = Exported(env, Step.exports)
    OBVIOUS
  <1>4. e \in Map
    <2>1. Step.exports \in Map
      BY <1>2, DeclaredFacts
    <2>2. env \in Map
      BY DEF Typed
    <2> QED
      BY <1>3, <2>1, <2>2, EnvFacts
  <1>5. PICK a : a = IF Step.kind = "package" THEN "calling" ELSE "running"
    OBVIOUS
  <1>6. PICK g1 : g1 = [m EXCEPT !.env = e]
    OBVIOUS
  <1>7. PICK g : g = [g1 EXCEPT !.at = a]
    OBVIOUS
  <1>8. /\ g1 \in Member /\ g \in Member /\ g.at = a
        /\ g.docker = m.docker /\ g.roots = m.roots /\ g.wrote = m.wrote
    <2> HIDE DEF Map
    <2> QED
      BY <1>2, <1>4, <1>5, <1>6, <1>7 DEF Member
  <1>9. PICK f : f = [Top EXCEPT !.members[n].env = e, !.members[n].at = a]
    OBVIOUS
  <1>10. PICK ms1 : ms1 = [Top.members EXCEPT ![n] = g1]
    OBVIOUS
  <1>11. PICK ms : ms = [ms1 EXCEPT ![n] = g]
    OBVIOUS
  <1>12. /\ ms1 \in MemberSets /\ DOMAIN ms1 = DOMAIN Top.members /\ ms1[n] = g1
         /\ \A k \in DOMAIN Top.members : k # n => ms1[k] = Top.members[k]
    BY <1>1, <1>8, <1>10, MovesBy
  <1>13. /\ ms \in MemberSets /\ DOMAIN ms = DOMAIN Top.members /\ ms[n] = g
         /\ \A k \in DOMAIN Top.members : k # n => ms[k] = Top.members[k]
    <2>1. DOMAIN ms1 \subseteq Nat /\ ms1 \in [DOMAIN ms1 -> Member]
      BY <1>12, MembersAre
    <2> HIDE DEF Member, n
    <2>2. ms \in [DOMAIN ms1 -> Member]
      BY <1>8, <1>11, <2>1
    <2>3. ms \in MemberSets
      BY <2>1, <2>2, MembersBy
    <2> QED
      BY <1>1, <1>11, <1>12, <2>1, <2>2, <2>3
  <1>14. /\ f \in Frames /\ f.steps = Top.steps /\ f.finally = Top.finally
         /\ f.teardown = Top.teardown /\ f.i = Top.i /\ f.docker = Top.docker
         /\ f.err = Top.err /\ f.members = ms
    <2>1. PICK f1 : f1 = [Top EXCEPT !.members = ms1]
      OBVIOUS
    <2>2. /\ f1 \in Frames /\ f1.steps = Top.steps /\ f1.finally = Top.finally
          /\ f1.teardown = Top.teardown /\ f1.i = Top.i /\ f1.docker = Top.docker
          /\ f1.err = Top.err /\ f1.members = ms1
      BY <1>2, <1>12, <2>1 DEF Frames
    <2>3. f = [f1 EXCEPT !.members = ms]
      BY <1>1, <1>6, <1>7, <1>9, <1>10, <1>11, <1>12, <2>1, <2>2
    <2> QED
      BY <1>13, <2>2, <2>3 DEF Frames
  <1>15. SetTop(f) /\ env' = e
    BY <1>3, <1>5, <1>9 DEF Setup
  <1> QED
    BY <1>1, <1>3, <1>4, <1>5, <1>8, <1>13, <1>14, <1>15 DEF Moves, Keeps

(* The packaged step or the main steps wait for a new call.                *)
LEMMA PushFacts ==
  ASSUME Typed, NEW f \in Frames, NEW g \in Frames,
         stack' = Append([stack EXCEPT ![Len(stack)] = f], g)
  PROVE  /\ stack' \in Seq(Frames) /\ stack' # <<>>
         /\ Len(stack') = Len(stack) + 1 /\ Top' = g
         /\ stack'[Len(stack)] = f /\ stack'[Len(stack) + 1] = g
         /\ \A c \in 1..Len(stack) - 1 : stack'[c] = stack[c]
  <1>1. stack \in Seq(Frames) /\ stack # <<>>
    BY DEF Typed
  <1> HIDE DEF Frames
  <1>2. Len(stack) \in Nat \ {0}
    BY <1>1
  <1>3. PICK s : s = [stack EXCEPT ![Len(stack)] = f]
    OBVIOUS
  <1>4. /\ s \in Seq(Frames) /\ Len(s) = Len(stack) /\ s[Len(stack)] = f
        /\ \A c \in 1..Len(stack) - 1 : s[c] = stack[c]
    BY <1>1, <1>2, <1>3
  <1>5. stack' = Append(s, g)
    BY <1>3
  <1>6. /\ stack' \in Seq(Frames) /\ Len(stack') = Len(stack) + 1
        /\ stack'[Len(stack) + 1] = g
        /\ \A c \in 1..Len(stack) : stack'[c] = s[c]
    <2>1. PICK t : t = Append(s, g)
      OBVIOUS
    <2>2. /\ t \in Seq(Frames) /\ Len(t) = Len(s) + 1 /\ t[Len(s) + 1] = g
          /\ \A c \in 1..Len(s) : t[c] = s[c]
      BY <1>4, <2>1, AppendProperties
    <2>3. stack' = t
      BY <1>5, <2>1
    <2> QED
      BY <1>4, <2>2, <2>3
  <1>7. Top' = g /\ stack' # <<>>
    BY <1>2, <1>6 DEF Top
  <1> QED
    BY <1>2, <1>4, <1>6, <1>7

(* A call returns to the one that waits for it.                            *)
LEMMA PopFacts ==
  ASSUME Typed, Len(stack) > 1, NEW f \in Frames,
         stack' = SubSeq(stack, 1, Len(stack) - 2) \o <<f>>
  PROVE  /\ stack' \in Seq(Frames) /\ stack' # <<>>
         /\ Len(stack') = Len(stack) - 1 /\ Top' = f
         /\ stack'[Len(stack) - 1] = f
         /\ \A c \in 1..Len(stack) - 2 : stack'[c] = stack[c]
  <1>1. stack \in Seq(Frames)
    BY DEF Typed
  <1> HIDE DEF Frames
  <1>2. Len(stack) \in Nat
    BY <1>1
  <1>3. PICK s : s = SubSeq(stack, 1, Len(stack) - 2)
    OBVIOUS
  <1>4. /\ s \in Seq(Frames) /\ Len(s) = Len(stack) - 2
        /\ \A c \in 1..Len(stack) - 2 : s[c] = stack[c]
    <2> DEFINE n == Len(stack) - 2
    <2>1. n \in Nat /\ n = Len(stack) - 2
      BY <1>2
    <2> HIDE DEF n
    <2>2. s = SubSeq(stack, 1, n)
      BY <1>3, <2>1
    <2>3. \A c \in 1..n : stack[c] \in Frames
      BY <1>1, <1>2, <2>1
    <2> HIDE DEF Typed
    <2>4. /\ s \in Seq(Frames)
          /\ Len(s) = IF 1 <= n THEN n - 1 + 1 ELSE 0
          /\ \A c \in 1..n - 1 + 1 : s[c] = stack[1 + c - 1]
      BY <2>1, <2>2, <2>3, SubSeqProperties
    <2>5. n - 1 + 1 = n /\ Len(s) = n
      BY <2>1, <2>4
    <2>6. ASSUME NEW c \in 1..n
          PROVE  s[c] = stack[c]
      <3>1. 1 + c - 1 = c
        BY <2>1
      <3>2. s[c] = stack[1 + c - 1]
        BY <2>1, <2>4, <2>5
      <3> QED
        BY <3>1, <3>2
    <2> QED
      BY <2>1, <2>4, <2>5, <2>6
  <1>5. PICK t : t = <<f>>
    OBVIOUS
  <1>6. t \in Seq(Frames) /\ Len(t) = 1 /\ t[1] = f
    BY <1>5
  <1>7. stack' = s \o t
    BY <1>3, <1>5
  <1>8. /\ stack' \in Seq(Frames) /\ Len(stack') = Len(stack) - 1
        /\ stack'[Len(stack) - 1] = f
        /\ \A c \in 1..Len(stack) - 2 : stack'[c] = s[c]
    <2>1. PICK u : u = s \o t
      OBVIOUS
    <2>2. /\ u \in Seq(Frames) /\ Len(u) = Len(s) + Len(t)
          /\ \A c \in 1..Len(s) + Len(t) : u[c] = IF c <= Len(s) THEN s[c] ELSE t[c - Len(s)]
      BY <1>4, <1>6, <2>1, ConcatProperties
    <2>3. stack' = u
      BY <1>7, <2>1
    <2>4. Len(u) = Len(stack) - 1 /\ Len(stack) - 1 \in 1..Len(s) + Len(t)
      BY <1>2, <1>4, <1>6, <2>2
    <2>5. u[Len(stack) - 1] = f
      BY <1>2, <1>4, <1>6, <2>2, <2>4
    <2>6. \A c \in 1..Len(stack) - 2 : u[c] = s[c]
      BY <1>2, <1>4, <1>6, <2>2
    <2> QED
      BY <2>2, <2>3, <2>4, <2>5, <2>6
  <1>9. Top' = f /\ stack' # <<>>
    BY <1>2, <1>8 DEF Top
  <1> QED
    BY <1>4, <1>8, <1>9

(* A new call has begun nothing.                                           *)
LEMMA CallFacts ==
  ASSUME NEW s \in Lists, NEW t \in Lists, NEW b \in BOOLEAN
  PROVE  /\ Call(s, t, b) \in Frames
         /\ Call(s, t, b).steps = s /\ Call(s, t, b).finally = t
         /\ Call(s, t, b).teardown = b /\ Call(s, t, b).i = 1
         /\ Call(s, t, b).err = <<>> /\ Call(s, t, b).members = Idle
  <1>1. ExtraEnv \in Map
    BY StepsAssumption
  <1>2. <<>> \in Seq(Failures)
    BY EmptySeq
  <1>3. Idle \in MemberSets
    BY IdleTyped
  <1>4. Call(s, t, b) = [steps |-> s, finally |-> t, teardown |-> b, i |-> 1,
                         docker |-> ExtraEnv, err |-> <<>>, members |-> Idle]
    BY DEF Call, Idle
  <1> HIDE DEF Map, Failures, MemberSets, Lists, Idle
  <1> QED
    BY <1>1, <1>2, <1>3, <1>4 DEF Frames

LEMMA CalledLists ==
  ASSUME NEW w \in Called
  PROVE  w.steps \in Lists /\ w.finally \in Lists /\ <<>> \in Lists /\ w.vars \in Map
  BY WorkflowsAssumption DEF Lists

(* The call for the steps of a workflow, and for finally steps.            *)
LEMMA CalledCall ==
  ASSUME NEW w \in Called, NEW g, g = Call(w.steps, w.finally, FALSE)
  PROVE  /\ g \in Frames /\ g.steps = w.steps /\ g.finally = w.finally
         /\ g.teardown = FALSE /\ g.i = 1 /\ g.err = <<>> /\ g.members = Idle
  <1>1. w.steps \in Lists /\ w.finally \in Lists
    BY CalledLists
  <1> QED
    BY <1>1, CallFacts, ZenonT(60)

LEMMA TeardownCall ==
  ASSUME NEW s \in Lists, <<>> \in Lists, NEW g, g = Call(s, <<>>, TRUE)
  PROVE  /\ g \in Frames /\ g.steps = s /\ g.finally = <<>>
         /\ g.teardown = TRUE /\ g.i = 1 /\ g.err = <<>> /\ g.members = Idle
  BY CallFacts, ZenonT(60)

(* A step that has begun is a step of its call.                            *)
LEMMA StepFacts ==
  ASSUME Typed, Top.i <= Len(Top.steps)
  PROVE  /\ Top.i \in DOMAIN Top.steps /\ Step \in Declared
         /\ Step.kind = "package" => Step.child \in Called
  <1>1. Top \in Frames
    BY StackFacts
  <1>2. Top.i \in Nat \ {0} /\ Top.steps \in Lists
    BY <1>1, FrameFacts
  <1>3. Len(Top.steps) \in Nat /\ DOMAIN Top.steps = 1..Len(Top.steps)
    BY <1>2, ListFacts
  <1>4. Top.i \in DOMAIN Top.steps
    BY <1>2, <1>3
  <1> QED
    BY <1>2, <1>4, ListFacts DEF Step

(* A batch reaches to the next blocking step, or to the end.               *)
LEMMA BatchFacts ==
  ASSUME Typed, Top.i \in DOMAIN Top.steps, ~Step.blocking
  PROVE  /\ BatchEnd \in Top.i + 1..Len(Top.steps) + 1
         /\ Batch = Top.i..BatchEnd - 1 /\ Batch \subseteq DOMAIN Top.steps
         /\ Batch \subseteq Nat /\ Top.i \in Batch
         /\ \A n \in Batch : ~Top.steps[n].blocking
  <1>1. Top \in Frames
    BY StackFacts
  <1>2. Top.i \in Nat \ {0} /\ Top.steps \in Lists
    BY <1>1, FrameFacts
  <1>3. Len(Top.steps) \in Nat /\ DOMAIN Top.steps = 1..Len(Top.steps)
    BY <1>2, ListFacts
  <1> DEFINE i == Top.i
             l == Len(Top.steps)
             T == {j \in i..l + 1 : j = l + 1 \/ Top.steps[j].blocking}
             Ends(j) == /\ j = l + 1 \/ Top.steps[j].blocking
                        /\ \A n \in i..j - 1 : ~Top.steps[n].blocking
  <1>4. i \in Nat \ {0} /\ l \in Nat /\ i <= l /\ DOMAIN Top.steps = 1..l
    BY <1>2, <1>3
  <1>5. \E j \in i..l + 1 : Ends(j)
    <2> HIDE DEF i, l
    <2>1. T \subseteq Nat /\ T # {}
      <3>1. l + 1 \in T
        BY <1>4
      <3> QED
        BY <1>4, <3>1
    <2>2. PICK m \in T : \A k \in T : m <= k
      <3> HIDE DEF T
      <3> QED
        BY <2>1, Least
    <2>3. ASSUME NEW n \in i..m - 1
          PROVE  ~Top.steps[n].blocking
      <3>1. n \in i..l + 1 /\ ~ (m <= n)
        BY <1>4
      <3> QED
        BY <2>2, <3>1
    <2> QED
      BY <2>2, <2>3
  <1>6. BatchEnd = CHOOSE j \in i..l + 1 : Ends(j)
    BY DEF BatchEnd
  <1>7. BatchEnd \in i..l + 1 /\ Ends(BatchEnd)
    <2> HIDE DEF Ends, i, l
    <2> QED
      BY <1>5, <1>6
  <1>8. BatchEnd # i
    BY <1>4, <1>7 DEF Step
  <1> HIDE DEF i, l, T
  <1>9. Batch = i..BatchEnd - 1
    BY DEF Batch, i
  <1>10. BatchEnd \in i + 1..l + 1
    BY <1>4, <1>7, <1>8
  <1>11. Batch \subseteq DOMAIN Top.steps /\ Batch \subseteq Nat /\ i \in Batch
    BY <1>4, <1>9, <1>10
  <1> QED
    BY <1>7, <1>9, <1>10, <1>11 DEF i, l

LEMMA OneInSeq ==
  ASSUME NEW S, NEW x \in S
  PROVE  /\ <<x>> \in Seq(S) /\ Len(<<x>>) = 1 /\ <<x>>[1] = x
         /\ <<x>> # <<>>
  OBVIOUS

(* A call that fails before it begins a step keeps the failure.            *)
Refuses(f, x) ==
    /\ Keeps(f) /\ f.i = Top.i /\ f.docker = Top.docker
    /\ f.members = Idle /\ f.err = <<x>>
    /\ x \in Failures /\ x.id = Step.id /\ failed' = Append(failed, x)

LEMMA RefusesBy ==
  ASSUME Typed, AtRest, MoreSteps, NEW t \in Lists, NEW f, NEW x,
         x = Failure(Step, FALSE),
         \/ f = [Top EXCEPT !.err = <<x>>, !.finally = t]
         \/ f = [Top EXCEPT !.err = <<x>>] /\ t = Top.finally,
         SetTop(f), failed' = Append(failed, x)
  PROVE  Refuses(f, x) /\ f.finally = t
  <1>1. Top \in Frames /\ Top.members = Idle
    BY StackFacts DEF AtRest
  <1>2. Step.id \in Ids
    BY StepFacts, DeclaredFacts DEF MoreSteps
  <1>3. x \in Failures /\ x.id = Step.id
    BY <1>2 DEF Failure, Failures
  <1>4. PICK e : e = <<x>>
    OBVIOUS
  <1>5. e \in Seq(Failures)
    BY <1>3, <1>4, OneInSeq
  <1>6. f = [Top EXCEPT !.err = e, !.finally = t] \/ (f = [Top EXCEPT !.err = e] /\ t = Top.finally)
    BY <1>4
  <1>7. /\ f \in Frames /\ f.steps = Top.steps /\ f.finally = t
        /\ f.teardown = Top.teardown /\ f.i = Top.i /\ f.docker = Top.docker
        /\ f.err = e /\ f.members = Top.members
    BY <1>1, <1>5, <1>6 DEF Frames
  <1> QED
    BY <1>1, <1>3, <1>4, <1>7 DEF Refuses, Keeps

LEMMA RejectMountsDoes ==
  ASSUME Typed, RejectMounts
  PROVE  \E f \in Frames, x \in Failures : Refuses(f, x) /\ f.finally = <<>>
  <1>1. PICK x : x = Failure(Step, FALSE)
    OBVIOUS
  <1>2. PICK f : f = [Top EXCEPT !.err = <<x>>, !.finally = <<>>]
    OBVIOUS
  <1>3. AtRest /\ MoreSteps /\ SetTop(f) /\ failed' = Append(failed, x)
    BY <1>1, <1>2 DEF RejectMounts
  <1>4. <<>> \in Lists
    BY DEF Lists
  <1>5. Refuses(f, x) /\ f.finally = <<>>
    BY <1>1, <1>2, <1>3, <1>4, RefusesBy
  <1> QED
    BY <1>5 DEF Refuses, Keeps

LEMMA BatchFailsDoes ==
  ASSUME Typed, BatchFails
  PROVE  \E f \in Frames, x \in Failures : Refuses(f, x) /\ f.finally = Top.finally
  <1>1. PICK x : x = Failure(Step, FALSE)
    OBVIOUS
  <1>2. PICK f : f = [Top EXCEPT !.err = <<x>>]
    OBVIOUS
  <1>3. AtRest /\ MoreSteps /\ SetTop(f) /\ failed' = Append(failed, x)
    BY <1>1, <1>2 DEF BatchFails
  <1>4. Top.finally \in Lists
    BY StackFacts, FrameFacts
  <1>5. Refuses(f, x) /\ f.finally = Top.finally
    BY <1>1, <1>2, <1>3, <1>4, RefusesBy
  <1> QED
    BY <1>5 DEF Refuses, Keeps

LEMMA BeginStepDoes ==
  ASSUME Typed, BeginStep
  PROVE  /\ env' \in Map /\ roots' \in RootSet
         /\ began' = began \cup {Step.id} /\ Step.id \in Ids
         /\ \E f \in Frames :
               /\ Keeps(f) /\ f.finally = Top.finally /\ f.i = Top.i /\ f.err = Top.err
               /\ DOMAIN f.members = {Top.i}
               /\ LET g == f.members[Top.i]
                  IN  /\ g \in Member /\ g.at = "setup" /\ g.roots = roots'
                      /\ g.wrote = NoVars
  <1>1. PICK e : e = Over(env, Step.vars)
    OBVIOUS
  <1>2. PICK d : d = Over(Top.docker, Step.vars)
    OBVIOUS
  <1>3. PICK r : r = Scoped(roots, Step)
    OBVIOUS
  <1>4. AtRest /\ MoreSteps
    BY DEF BeginStep
  <1>5. Top \in Frames
    BY StackFacts
  <1>6. Step \in Declared
    BY <1>4, StepFacts DEF MoreSteps
  <1>7. Step.vars \in Map /\ Step.id \in Ids /\ Top.docker \in Map /\ Top.i \in Nat \ {0}
    BY <1>5, <1>6, DeclaredFacts, FrameFacts
  <1>8. env \in Map /\ roots \in RootSet
    BY DEF Typed
  <1>9. e \in Map /\ d \in Map /\ r \in RootSet /\ NoVars \in Map
    BY <1>1, <1>2, <1>3, <1>7, <1>8, EnvFacts, ScopedFacts
  <1>10. PICK g : g = [at |-> "setup", env |-> e, docker |-> d, roots |-> r, wrote |-> NoVars]
    OBVIOUS
  <1>11. g \in Member /\ g.at = "setup" /\ g.roots = r /\ g.wrote = NoVars
    <2> HIDE DEF Map, NoVars
    <2> QED
      BY <1>9, <1>10 DEF Member, RootSet
  <1>12. PICK ms : ms = [n \in {Top.i} |-> g]
    OBVIOUS
  <1>13. ms \in MemberSets /\ DOMAIN ms = {Top.i} /\ ms[Top.i] = g
    <2> HIDE DEF Member
    <2>1. ms \in [{Top.i} -> Member]
      BY <1>11, <1>12
    <2> QED
      BY <1>7, <1>12, <2>1, MembersBy
  <1>14. PICK f : f = [Top EXCEPT !.docker = d, !.members = ms]
    OBVIOUS
  <1>15. /\ f \in Frames /\ f.steps = Top.steps /\ f.finally = Top.finally
         /\ f.teardown = Top.teardown /\ f.i = Top.i
         /\ f.err = Top.err /\ f.members = ms
    <2> HIDE DEF Map
    <2> QED
      BY <1>5, <1>9, <1>13, <1>14 DEF Frames
  <1>16. SetTop(f) /\ env' = e /\ roots' = r /\ began' = began \cup {Step.id}
    BY <1>1, <1>2, <1>3, <1>10, <1>12, <1>14 DEF BeginStep
  <1> QED
    BY <1>7, <1>9, <1>11, <1>13, <1>15, <1>16 DEF Keeps

LEMMA BeginBatchDoes ==
  ASSUME Typed, BeginBatch
  PROVE  /\ Top.i \in DOMAIN Top.steps
         /\ \E f \in Frames :
               /\ Keeps(f) /\ f.finally = Top.finally /\ f.i = Top.i /\ f.err = Top.err
               /\ f.docker = Top.docker
               /\ DOMAIN f.members = Batch
               /\ \A n \in Batch :
                     LET g == f.members[n]
                     IN  /\ g \in Member /\ g.at = "new" /\ g.env = env
                         /\ g.docker = Top.docker /\ g.roots = roots /\ g.wrote = NoVars
  <1>1. AtRest /\ MoreSteps /\ ~Step.blocking
    BY DEF BeginBatch
  <1>2. Top.i \in DOMAIN Top.steps /\ Top \in Frames
    BY <1>1, StackFacts, StepFacts DEF MoreSteps
  <1>3. Top.docker \in Map /\ env \in Map /\ roots \in RootSet /\ NoVars \in Map
    BY <1>2, FrameFacts, EnvFacts DEF Typed
  <1>4. Batch \subseteq Nat
    BY <1>1, <1>2, BatchFacts
  <1>5. PICK g : g = [at |-> "new", env |-> env, docker |-> Top.docker, roots |-> roots,
                      wrote |-> NoVars]
    OBVIOUS
  <1>6. /\ g \in Member /\ g.at = "new" /\ g.env = env
        /\ g.docker = Top.docker /\ g.roots = roots /\ g.wrote = NoVars
    <2> HIDE DEF Map, NoVars
    <2> QED
      BY <1>3, <1>5 DEF Member, RootSet
  <1>7. PICK ms : ms = [n \in Batch |-> g]
    OBVIOUS
  <1>8. ms \in MemberSets /\ DOMAIN ms = Batch /\ \A n \in Batch : ms[n] = g
    <2> HIDE DEF Member
    <2>1. ms \in [Batch -> Member]
      BY <1>6, <1>7
    <2> QED
      BY <1>4, <1>7, <2>1, MembersBy
  <1>9. PICK f : f = [Top EXCEPT !.members = ms]
    OBVIOUS
  <1>10. /\ f \in Frames /\ f.steps = Top.steps /\ f.finally = Top.finally
         /\ f.teardown = Top.teardown /\ f.i = Top.i /\ f.docker = Top.docker
         /\ f.err = Top.err /\ f.members = ms
    BY <1>2, <1>8, <1>9 DEF Frames
  <1>11. SetTop(f)
    BY <1>5, <1>7, <1>9 DEF BeginBatch
  <1> QED
    BY <1>2, <1>6, <1>8, <1>10, <1>11 DEF Keeps

LEMMA EndStepDoes ==
  ASSUME Typed, EndStep, Top.i \in DOMAIN Top.steps
  PROVE  \E f \in Frames, s \in Merges :
            /\ Keeps(f) /\ f.finally = Top.finally /\ f.i = Top.i + 1 /\ f.err = Top.err
            /\ f.members = Idle
            /\ s = Applied([env |-> env, docker |-> Top.docker, files |-> files],
                           OutputsFile(roots, Step))
            /\ env' = s.env /\ files' = s.files /\ f.docker = s.docker
  <1>1. PICK s : s = Applied([env |-> env, docker |-> Top.docker, files |-> files],
                             OutputsFile(roots, Step))
    OBVIOUS
  <1>2. Top \in Frames
    BY StackFacts
  <1>3. Top.docker \in Map /\ Top.i \in Nat \ {0} /\ Top.steps \in Lists
    BY <1>2, FrameFacts
  <1>4. Step \in Declared
    BY <1>3, ListFacts DEF Step
  <1>5. s \in Merges
    <2>1. PICK t : t = [env |-> env, docker |-> Top.docker, files |-> files]
      OBVIOUS
    <2>2. t \in Merges
      <3> HIDE DEF Map, Places
      <3> QED
        BY <1>3, <2>1 DEF Merges, Typed
    <2>3. OutputsFile(roots, Step) \in Places \X Paths
      BY <1>4, OutputsFileFacts DEF Typed
    <2> QED
      BY <1>1, <2>1, <2>2, <2>3, AppliedFacts
  <1>6. s.docker \in Map /\ Idle \in MemberSets
    BY <1>5, IdleTyped DEF Merges
  <1>7. PICK j \in Nat \ {0} : j = Top.i + 1
    BY <1>3
  <1>8. PICK f : f = [Top EXCEPT !.docker = s.docker, !.i = j, !.members = Idle]
    OBVIOUS
  <1>9. /\ f \in Frames /\ f.steps = Top.steps /\ f.finally = Top.finally
        /\ f.teardown = Top.teardown /\ f.i = j /\ f.docker = s.docker
        /\ f.err = Top.err /\ f.members = Idle
    <2> HIDE DEF Map, MemberSets, Idle
    <2> QED
      BY <1>2, <1>6, <1>8 DEF Frames
  <1>10. SetTop(f) /\ env' = s.env /\ files' = s.files
    BY <1>1, <1>7, <1>8 DEF EndStep
  <1> QED
    BY <1>1, <1>5, <1>7, <1>9, <1>10 DEF Keeps

LEMMA StopStepDoes ==
  ASSUME Typed, StopStep
  PROVE  \E f \in Frames :
            /\ Keeps(f) /\ f.finally = Top.finally /\ f.i = Top.i /\ f.err = Top.err
            /\ f.members = Idle /\ f.docker = Top.docker
            /\ Top.i \in DOMAIN Top.members /\ Top.members[Top.i].at = "failed"
            /\ Step.blocking
  <1>1. Top \in Frames /\ Idle \in MemberSets
    BY StackFacts, IdleTyped
  <1>2. PICK f : f = [Top EXCEPT !.members = Idle]
    OBVIOUS
  <1>3. /\ f \in Frames /\ f.steps = Top.steps /\ f.finally = Top.finally
        /\ f.teardown = Top.teardown /\ f.i = Top.i /\ f.docker = Top.docker
        /\ f.err = Top.err /\ f.members = Idle
    <2> HIDE DEF MemberSets, Idle
    <2> QED
      BY <1>1, <1>2 DEF Frames
  <1>4. /\ SetTop(f) /\ Step.blocking
        /\ Top.i \in DOMAIN Top.members /\ Top.members[Top.i].at = "failed"
    BY <1>2 DEF StopStep
  <1> QED
    BY <1>3, <1>4 DEF Keeps

(* The paths of a batch in the order of its steps.                         *)
BatchPath == [n \in Batch |-> OutputsFile(roots, Top.steps[n])]
Before == [env |-> env, docker |-> Top.docker, files |-> files]

LEMMA JoinDoes ==
  ASSUME Typed, Join, Top.i \in DOMAIN Top.steps
  PROVE  \E f \in Frames :
            /\ Keeps(f) /\ f.finally = Top.finally /\ f.err = Top.err /\ f.members = Idle
            /\ IF Top.err = <<>>
               THEN \E s \in Merges :
                       /\ s = MergedFrom(Before, BatchPath, Top.i, BatchEnd - 1)
                       /\ env' = s.env /\ files' = s.files /\ f.docker = s.docker
                       /\ f.i = BatchEnd
               ELSE /\ UNCHANGED <<env, files>>
                    /\ f.i = Top.i /\ f.docker = Top.docker
  <1>1. Top \in Frames /\ Idle \in MemberSets
    BY StackFacts, IdleTyped
  <1>2. Top.docker \in Map /\ Top.i \in Nat \ {0} /\ Top.steps \in Lists
    BY <1>1, FrameFacts
  <1>3. ~Step.blocking
    BY DEF Join
  <1>4. /\ BatchEnd \in Top.i + 1..Len(Top.steps) + 1
        /\ Batch = Top.i..BatchEnd - 1 /\ Batch \subseteq DOMAIN Top.steps
    BY <1>3, BatchFacts
  <1>5. Len(Top.steps) \in Nat /\ \A n \in DOMAIN Top.steps : Top.steps[n] \in Declared
    BY <1>2, ListFacts
  <1>6. BatchEnd \in Nat \ {0} /\ BatchEnd - 1 \in Nat /\ Top.i - 1 <= BatchEnd - 1
    BY <1>2, <1>4, <1>5
  <1>7. PICK s : s = MergedFrom(Before, BatchPath, Top.i, BatchEnd - 1)
    OBVIOUS
  <1>8. s \in Merges
    <2>1. Before \in Merges
      <3> HIDE DEF Map, Places
      <3> QED
        BY <1>2 DEF Merges, Typed, Before
    <2>2. ASSUME NEW n \in Top.i..BatchEnd - 1
          PROVE  BatchPath[n] \in Places \X Paths
      <3>1. n \in Batch /\ Top.steps[n] \in Declared
        BY <1>4, <1>5
      <3>2. OutputsFile(roots, Top.steps[n]) \in Places \X Paths
        BY <3>1, OutputsFileFacts DEF Typed
      <3> QED
        BY <3>1, <3>2 DEF BatchPath
    <2> QED
      BY <1>2, <1>6, <1>7, <2>1, <2>2, MergedFacts
  <1>9. MergedFrom([env |-> env, docker |-> Top.docker, files |-> files],
                   [n \in Batch |-> OutputsFile(roots, Top.steps[InOrder(n)])],
                   Top.i, BatchEnd - 1) = s
    BY <1>7 DEF Before, BatchPath, InOrder
  <1>10. CASE Top.err = <<>>
    <2>1. s.docker \in Map
      BY <1>8 DEF Merges
    <2>2. PICK f : f = [Top EXCEPT !.docker = s.docker, !.i = BatchEnd, !.members = Idle]
      OBVIOUS
    <2>3. /\ f \in Frames /\ f.steps = Top.steps /\ f.finally = Top.finally
          /\ f.teardown = Top.teardown /\ f.i = BatchEnd /\ f.docker = s.docker
          /\ f.err = Top.err /\ f.members = Idle
      <3> HIDE DEF Map, MemberSets, Idle
      <3> QED
        BY <1>1, <1>6, <2>1, <2>2 DEF Frames
    <2>4. SetTop(f) /\ env' = s.env /\ files' = s.files
      BY <1>9, <1>10, <2>2 DEF Join
    <2> QED
      BY <1>7, <1>8, <1>10, <2>3, <2>4 DEF Keeps
  <1>11. CASE Top.err # <<>>
    <2>1. PICK f : f = [Top EXCEPT !.members = Idle]
      OBVIOUS
    <2>2. /\ f \in Frames /\ f.steps = Top.steps /\ f.finally = Top.finally
          /\ f.teardown = Top.teardown /\ f.i = Top.i /\ f.docker = Top.docker
          /\ f.err = Top.err /\ f.members = Idle
      <3> HIDE DEF MemberSets, Idle
      <3> QED
        BY <1>1, <2>1 DEF Frames
    <2>3. SetTop(f) /\ UNCHANGED <<env, files>>
      BY <1>11, <2>1 DEF Join
    <2> QED
      BY <1>11, <2>2, <2>3 DEF Keeps
  <1> QED
    BY <1>10, <1>11

(* The innermost call waits, as f, for the new call g.                     *)
Opens(f, g) ==
    /\ f \in Frames /\ g \in Frames
    /\ stack' = Append([stack EXCEPT ![Len(stack)] = f], g)
    /\ f.steps = Top.steps /\ f.teardown = Top.teardown /\ f.i = Top.i
    /\ f.err = Top.err /\ f.members = Top.members
    /\ g.i = 1 /\ g.err = <<>> /\ g.members = Idle

LEMMA CallPackageDoes ==
  ASSUME Typed, CallPackage, Top.i \in DOMAIN Top.steps, Step.kind = "package"
  PROVE  /\ env' \in Map
         /\ \E f, g \in Frames : \E w \in Called :
               /\ Opens(f, g) /\ f.finally = Top.finally
               /\ g.steps = w.steps /\ g.finally = w.finally /\ ~g.teardown
               /\ Top.i \in DOMAIN Top.members /\ Top.members[Top.i].at = "calling"
  <1>1. Top \in Frames /\ stack \in Seq(Frames) /\ Len(stack) \in DOMAIN stack
    BY StackFacts DEF Typed
  <1>2. Top.docker \in Map /\ Top.i \in Nat \ {0} /\ Top.steps \in Lists
    BY <1>1, FrameFacts
  <1>3. Step \in Declared /\ Step.child \in Called
    BY <1>2, ListFacts DEF Step
  <1>4. PICK w \in Called : w = Step.child
    BY <1>3
  <1>5. w.steps \in Lists /\ w.finally \in Lists /\ w.vars \in Map /\ Step.inputs \in Map
    BY <1>3, CalledLists, DeclaredFacts
  <1>6. env' \in Map
    <2>1. env' = Over(Nested(env, w.vars), Step.inputs)
      BY <1>4 DEF CallPackage
    <2>2. Nested(env, w.vars) \in Map
      BY <1>5, EnvFacts DEF Typed
    <2> QED
      BY <1>5, <2>1, <2>2, EnvFacts
  <1>7. PICK d : d = Over(Top.docker, Step.inputs)
    OBVIOUS
  <1>8. d \in Map
    BY <1>2, <1>5, <1>7, EnvFacts
  <1>9. PICK f : f = [Top EXCEPT !.docker = d]
    OBVIOUS
  <1>10. /\ f \in Frames /\ f.steps = Top.steps /\ f.finally = Top.finally
         /\ f.teardown = Top.teardown /\ f.i = Top.i
         /\ f.err = Top.err /\ f.members = Top.members
    <2> HIDE DEF Map
    <2> QED
      BY <1>1, <1>8, <1>9 DEF Frames
  <1>11. PICK g : g = Call(w.steps, w.finally, FALSE)
    OBVIOUS
  <1>12. /\ g \in Frames /\ g.steps = w.steps /\ g.finally = w.finally
         /\ g.teardown = FALSE /\ g.i = 1 /\ g.err = <<>> /\ g.members = Idle
    BY <1>11, CalledCall
  <1>13. stack' = Append([stack EXCEPT ![Len(stack)] = f], g)
    <2>1. stack' = Append([stack EXCEPT ![Len(stack)].docker = Over(@, Step.inputs)], g)
      BY <1>4, <1>11 DEF CallPackage
    <2>2. [stack EXCEPT ![Len(stack)].docker = Over(@, Step.inputs)]
            = [stack EXCEPT ![Len(stack)] = f]
      BY <1>1, <1>7, <1>9 DEF Top
    <2> QED
      BY <2>1, <2>2
  <1>14. Top.i \in DOMAIN Top.members /\ Top.members[Top.i].at = "calling"
    BY DEF CallPackage
  <1> QED
    BY <1>6, <1>10, <1>12, <1>13, <1>14 DEF Opens

LEMMA TeardownDoes ==
  ASSUME Typed, Teardown
  PROVE  \E f, g \in Frames :
            /\ Opens(f, g) /\ f.finally = <<>> /\ Top.finally # <<>>
            /\ g.steps = Top.finally /\ g.finally = <<>> /\ g.teardown
            /\ Top.members = Idle /\ ~MoreSteps
  <1>1. Top \in Frames /\ stack \in Seq(Frames) /\ Len(stack) \in DOMAIN stack
    BY StackFacts DEF Typed
  <1>2. Top.finally \in Lists /\ <<>> \in Lists
    BY <1>1, FrameFacts DEF Lists
  <1>3. PICK f : f = [Top EXCEPT !.finally = <<>>]
    OBVIOUS
  <1>4. /\ f \in Frames /\ f.steps = Top.steps /\ f.finally = <<>>
        /\ f.teardown = Top.teardown /\ f.i = Top.i
        /\ f.err = Top.err /\ f.members = Top.members
    <2> HIDE DEF Lists
    <2> QED
      BY <1>1, <1>2, <1>3 DEF Frames
  <1>5. PICK g : g = Call(Top.finally, <<>>, TRUE)
    OBVIOUS
  <1>6. /\ g \in Frames /\ g.steps = Top.finally /\ g.finally = <<>>
        /\ g.teardown = TRUE /\ g.i = 1 /\ g.err = <<>> /\ g.members = Idle
    BY <1>2, <1>5, TeardownCall
  <1>7. stack' = Append([stack EXCEPT ![Len(stack)] = f], g)
    <2>1. stack' = Append([stack EXCEPT ![Len(stack)].finally = <<>>], g)
      BY <1>5 DEF Teardown
    <2>2. [stack EXCEPT ![Len(stack)].finally = <<>>] = [stack EXCEPT ![Len(stack)] = f]
      BY <1>1, <1>3 DEF Top
    <2> QED
      BY <2>1, <2>2
  <1>8. Top.finally # <<>> /\ Top.members = Idle /\ ~MoreSteps
    BY DEF Teardown, TearsDown, AtRest
  <1> QED
    BY <1>4, <1>6, <1>7, <1>8 DEF Opens

(* The first exit error is one of the errors; the first error, if it is    *)
(* an exit error.                                                          *)
LEMMA ExitOfFacts ==
  ASSUME NEW err \in Seq(Failures), HasExit(err)
  PROVE  /\ ExitOf(err) \in Seq(Failures) /\ ExitOf(err) # <<>>
         /\ err # <<>>
         /\ err[1].exit => ExitOf(err) = <<err[1]>>
  <1> DEFINE T == {n \in DOMAIN err : err[n].exit}
             First(n) == /\ n \in DOMAIN err /\ err[n].exit
                         /\ \A m \in 1..n - 1 : ~err[m].exit
  <1>1. Len(err) \in Nat /\ DOMAIN err = 1..Len(err) /\ \A n \in DOMAIN err : err[n] \in Failures
    BY LenProperties, ElementOfSeq
  <1>2. T \subseteq Nat /\ T # {}
    BY <1>1 DEF HasExit
  <1>3. \E n : First(n)
    <2>1. PICK m \in T : \A k \in T : m <= k
      <3> HIDE DEF T
      <3> QED
        BY <1>2, Least
    <2>2. ASSUME NEW k \in 1..m - 1
          PROVE  ~err[k].exit
      <3>1. k \in DOMAIN err /\ ~ (m <= k)
        BY <1>1
      <3> QED
        BY <2>1, <3>1
    <2> QED
      BY <2>2
  <1>4. PICK c : c = CHOOSE n : First(n)
    OBVIOUS
  <1>5. First(c)
    <2> HIDE DEF First
    <2> QED
      BY <1>3, <1>4
  <1>6. ExitOf(err) = <<err[c]>>
    BY <1>4 DEF ExitOf
  <1>7. ExitOf(err) \in Seq(Failures) /\ ExitOf(err) # <<>>
    BY <1>1, <1>5, <1>6, OneInSeq
  <1>8. err # <<>>
    BY <1>2, <1>1
  <1>9. err[1].exit => c = 1
    BY <1>1, <1>5
  <1> QED
    BY <1>6, <1>7, <1>8, <1>9

(* The errors of a call and of its finally steps are not lost together,    *)
(* and an exit error that is alone in front stays alone.                   *)
LEMMA CombinedFacts ==
  ASSUME NEW err \in Seq(Failures), NEW later \in Seq(Failures)
  PROVE  /\ Combined(err, later) \in Seq(Failures)
         /\ Combined(err, later) = <<>> <=> err = <<>> /\ later = <<>>
         /\ err = <<>> => Combined(err, later) = later
         /\ \A x \in Failures : err = <<x>> /\ x.exit => Combined(err, later) = <<x>>
  <1>1. CASE err # <<>> /\ later # <<>> /\ HasExit(err)
    <2>1. Combined(err, later) = ExitOf(err)
      BY <1>1 DEF Combined
    <2>2. ASSUME NEW x \in Failures, err = <<x>>, x.exit
          PROVE  Combined(err, later) = <<x>>
      BY <1>1, <2>1, <2>2, ExitOfFacts, OneInSeq
    <2> QED
      BY <1>1, <2>1, <2>2, ExitOfFacts
  <1>2. CASE ~ (err # <<>> /\ later # <<>> /\ HasExit(err))
    <2>1. Combined(err, later) = err \o later
      BY <1>2 DEF Combined
    <2>2. err \o later \in Seq(Failures)
      BY ConcatProperties
    <2>3. err \o later = <<>> <=> err = <<>> /\ later = <<>>
      BY ConcatEqualIffEmpty
    <2>4. err = <<>> => err \o later = later
      BY ConcatEmptySeq
    <2>5. ASSUME NEW x \in Failures, err = <<x>>, x.exit
          PROVE  Combined(err, later) = <<x>>
      <3>1. DOMAIN err = {1} /\ err[1] = x /\ err # <<>>
        BY <2>5
      <3>2. HasExit(err)
        BY <2>5, <3>1 DEF HasExit
      <3>3. later = <<>>
        BY <1>2, <3>1, <3>2
      <3> QED
        BY <2>1, <2>5, <3>3, ConcatEmptySeq
    <2> QED
      BY <2>1, <2>2, <2>3, <2>4, <2>5
  <1> QED
    BY <1>1, <1>2

LEMMA ReturnDoes ==
  ASSUME Typed, Calls, Return
  PROVE  /\ Len(stack) > 1 /\ Top.members = Idle /\ ~MoreSteps /\ Top.finally = <<>>
         /\ \E f \in Frames :
               /\ stack' = SubSeq(stack, 1, Len(stack) - 2) \o <<f>>
               /\ f.steps = Caller.steps /\ f.finally = Caller.finally
               /\ f.teardown = Caller.teardown /\ f.i = Caller.i
               /\ Top.teardown =>
                     /\ f.members = Caller.members
                     /\ f.err = Combined(Caller.err, Top.err)
               /\ ~Top.teardown =>
                     /\ f.err = Top.err
                     /\ DOMAIN f.members = DOMAIN Caller.members
                     /\ Caller.i \in DOMAIN Caller.members
                     /\ f.members[Caller.i].at = IF Top.err = <<>> THEN "ok" ELSE "failed"
                     /\ f.members[Caller.i].wrote = Caller.members[Caller.i].wrote
  <1>1. /\ Len(stack) > 1 /\ Top.members = Idle /\ ~MoreSteps /\ Top.finally = <<>>
    BY DEF Return, AtRest, TearsDown
  <1>2. Top \in Frames /\ Len(stack) \in Nat /\ Len(stack) - 1 \in 1..Len(stack) - 1
    BY <1>1, StackFacts
  <1>3. Caller \in Frames
    BY <1>2, StackFacts DEF Caller
  <1>4. /\ Top.err \in Seq(Failures) /\ Caller.err \in Seq(Failures)
        /\ Caller.members \in MemberSets /\ Top.teardown \in BOOLEAN
    BY <1>2, <1>3, FrameFacts
  <1>5. CASE Top.teardown
    <2>1. PICK e : e = Combined(Caller.err, Top.err)
      OBVIOUS
    <2>2. e \in Seq(Failures)
      BY <1>4, <2>1, CombinedFacts
    <2>3. PICK f : f = [Caller EXCEPT !.err = e]
      OBVIOUS
    <2>4. /\ f \in Frames /\ f.steps = Caller.steps /\ f.finally = Caller.finally
          /\ f.teardown = Caller.teardown /\ f.i = Caller.i
          /\ f.err = e /\ f.members = Caller.members
      BY <1>3, <2>2, <2>3 DEF Frames
    <2>5. stack' = SubSeq(stack, 1, Len(stack) - 2) \o <<f>>
      BY <1>5, <2>1, <2>3 DEF Return
    <2> QED
      BY <1>1, <1>5, <2>1, <2>4, <2>5
  <1>6. CASE ~Top.teardown
    <2> DEFINE n == Caller.i
               m == Caller.members[n]
    <2>1. Waits(Caller, Top)
      <3>1. Waits(stack[Len(stack) - 1], stack[Len(stack) - 1 + 1])
        BY <1>2 DEF Calls
      <3>2. Len(stack) - 1 + 1 = Len(stack)
        BY <1>2
      <3> QED
        BY <3>1, <3>2 DEF Caller, Top
    <2>2. FrameOK(Caller)
      <3>1. Len(stack) - 1 \in 1..Len(stack)
        BY <1>2
      <3> QED
        BY <3>1 DEF Calls, Caller
    <2>3. n \in DOMAIN Caller.members
      BY <1>6, <2>1, <2>2 DEF Waits, FrameOK
    <2>4. /\ DOMAIN Caller.members \subseteq Nat
          /\ Caller.members \in [DOMAIN Caller.members -> Member] /\ m \in Member
      BY <1>4, <2>3, MembersAre
    <2>5. PICK a : a = IF Top.err = <<>> THEN "ok" ELSE "failed"
      OBVIOUS
    <2>6. PICK g : g = [m EXCEPT !.at = a]
      OBVIOUS
    <2>7. g \in Member /\ g.at = a /\ g.wrote = m.wrote
      BY <2>4, <2>5, <2>6 DEF Member
    <2>8. PICK ms : ms = [Caller.members EXCEPT ![n] = g]
      OBVIOUS
    <2>9. ms \in MemberSets /\ DOMAIN ms = DOMAIN Caller.members /\ ms[n] = g
      <3> HIDE DEF Member, n
      <3>1. ms \in [DOMAIN Caller.members -> Member]
        BY <2>4, <2>7, <2>8
      <3> QED
        BY <2>3, <2>4, <2>8, <3>1, MembersBy
    <2>10. PICK f : f = [Caller EXCEPT !.err = Top.err, !.members = ms]
      OBVIOUS
    <2>11. /\ f \in Frames /\ f.steps = Caller.steps /\ f.finally = Caller.finally
           /\ f.teardown = Caller.teardown /\ f.i = Caller.i
           /\ f.err = Top.err /\ f.members = ms
      BY <1>3, <1>4, <2>9, <2>10 DEF Frames
    <2>12. f = [Caller EXCEPT !.err = Top.err,
                    !.members[Caller.i].at = IF Top.err = <<>> THEN "ok" ELSE "failed"]
      BY <1>3, <2>5, <2>6, <2>8, <2>10 DEF Frames
    <2>13. stack' = SubSeq(stack, 1, Len(stack) - 2) \o <<f>>
      BY <1>6, <2>12 DEF Return
    <2> QED
      BY <1>1, <1>6, <2>3, <2>5, <2>7, <2>9, <2>11, <2>13
  <1> QED
    BY <1>4, <1>5, <1>6

-----------------------------------------------------------------------------
(* Calls wait for each other.                                              *)

LEMMA TopOK ==
  ASSUME Typed, Calls
  PROVE  /\ FrameOK(Top)
         /\ Top.members # Idle => Top.i \in DOMAIN Top.members /\ Top.i \in DOMAIN Top.steps
         /\ \A n \in DOMAIN Top.members : n \in DOMAIN Top.steps /\ Top.members # Idle
  <1>1. Len(stack) \in 1..Len(stack) /\ Top \in Frames
    BY StackFacts
  <1>2. FrameOK(Top)
    BY <1>1 DEF Calls, Top
  <1>3. Top.members = Idle => DOMAIN Top.members = {}
    BY <1>1, FrameFacts, MembersAre
  <1> QED
    BY <1>2, <1>3 DEF FrameOK

LEMMA CallerFacts ==
  ASSUME Typed, Calls, Len(stack) > 1
  PROVE  /\ FrameOK(Caller) /\ Waits(Caller, Top) /\ Caller \in Frames
         /\ Len(stack) \in Nat \ {0} /\ Len(stack) - 1 \in 1..Len(stack) - 1
  <1>1. Len(stack) \in Nat \ {0}
    BY StackFacts
  <1>2. /\ Len(stack) - 1 \in 1..Len(stack) - 1 /\ Len(stack) - 1 \in 1..Len(stack)
        /\ Len(stack) - 1 + 1 = Len(stack)
    BY <1>1
  <1>3. Waits(stack[Len(stack) - 1], stack[Len(stack) - 1 + 1])
    BY <1>2 DEF Calls
  <1>4. FrameOK(stack[Len(stack) - 1]) /\ stack[Len(stack) - 1] \in Frames
    BY <1>2, StackFacts DEF Calls
  <1> QED
    BY <1>1, <1>2, <1>3, <1>4 DEF Caller, Top

LEMMA KeepsCalls ==
  ASSUME Typed, Calls, NEW f, Keeps(f), FrameOK(f)
  PROVE  Calls'
  <1>1. /\ Len(stack') = Len(stack) /\ Top' = f /\ stack'[Len(stack)] = f
        /\ \A c \in 1..Len(stack) - 1 : stack'[c] = stack[c]
    BY SetTopFacts DEF Keeps
  <1>2. Len(stack) \in Nat \ {0}
    BY StackFacts
  <1>3. f.teardown = stack[Len(stack)].teardown
    BY DEF Keeps, Top
  <1>4. ~stack'[1].teardown
    BY <1>1, <1>2, <1>3 DEF Calls
  <1>5. ASSUME NEW c \in 1..Len(stack')
        PROVE  FrameOK(stack'[c])
    BY <1>1, <1>2 DEF Calls
  <1>6. ASSUME NEW c \in 1..Len(stack') - 1
        PROVE  Waits(stack'[c], stack'[c + 1])
    <2>1. Waits(stack[c], stack[c + 1]) /\ stack'[c] = stack[c]
      BY <1>1, <1>2 DEF Calls
    <2>2. stack'[c + 1].teardown = stack[c + 1].teardown
      BY <1>1, <1>2, <1>3
    <2> QED
      BY <2>1, <2>2 DEF Waits
  <1> QED
    BY <1>4, <1>5, <1>6 DEF Calls

LEMMA MovesCalls ==
  ASSUME Typed, Calls, NEW n, NEW f, Moves(f, n),
         f.members[n].at # "new",
         Step.blocking =>
            /\ f.err = <<>> <=> f.members[n].at # "failed"
            /\ f.members[n].at = "calling" => Step.kind = "package",
         ~Step.blocking => f.members[n].at # "calling"
  PROVE  Calls'
  <1>1. /\ FrameOK(Top) /\ n \in DOMAIN Top.members
        /\ \A k \in DOMAIN Top.members : k \in DOMAIN Top.steps /\ Top.members # Idle
    BY TopOK DEF Moves
  <1>2. /\ f.steps = Top.steps /\ f.i = Top.i /\ f.finally = Top.finally
        /\ f.teardown = Top.teardown /\ DOMAIN f.members = DOMAIN Top.members
        /\ \A k \in DOMAIN Top.members : k # n => f.members[k] = Top.members[k]
    BY DEF Moves, Keeps
  <1>3. f.i <= Len(f.steps) + 1 /\ DOMAIN f.members \subseteq DOMAIN f.steps
    BY <1>1, <1>2 DEF FrameOK
  <1>4. f.teardown => f.finally = <<>>
    BY <1>1, <1>2 DEF FrameOK
  <1>5. f.i \in DOMAIN f.members
    BY <1>1, <1>2 DEF FrameOK
  <1>6. CASE Step.blocking
    <2>1. \A k \in DOMAIN Top.members : k = Top.i
      BY <1>1, <1>6 DEF FrameOK, Step
    <2>2. n = Top.i /\ f.steps[f.i] = Step
      BY <1>1, <1>2, <2>1 DEF Step
    <2> QED
      BY <1>1, <1>2, <1>3, <1>4, <1>5, <1>6, <2>1, <2>2, KeepsCalls DEF FrameOK, Moves
  <1>7. CASE ~Step.blocking
    <2>1. f.steps[f.i] = Step
      BY <1>2 DEF Step
    <2>2. ASSUME NEW k \in DOMAIN f.members
          PROVE  /\ f.i <= k /\ ~f.steps[k].blocking
                 /\ f.members[k].at # "calling"
      BY <1>1, <1>2, <1>7 DEF FrameOK, Step
    <2>3. FrameOK(f)
      BY <1>3, <1>4, <1>5, <1>7, <2>1, <2>2 DEF FrameOK
    <2> QED
      BY <2>3, KeepsCalls DEF Moves
  <1> QED
    BY <1>6, <1>7

(* A call between two steps has begun none.                                *)
LEMMA RestsCalls ==
  ASSUME Typed, Calls, NEW f, Keeps(f), f.members = Idle,
         f.i <= Len(f.steps) + 1, f.finally \in {Top.finally, <<>>}
  PROVE  Calls'
  <1>1. FrameOK(Top) /\ f.teardown = Top.teardown
    BY TopOK DEF Keeps
  <1>2. DOMAIN f.members = {}
    BY FrameFacts, MembersAre DEF Keeps
  <1>3. FrameOK(f)
    BY <1>1, <1>2 DEF FrameOK
  <1> QED
    BY <1>3, KeepsCalls

LEMMA OpensCalls ==
  ASSUME Typed, Calls, NEW f, NEW g, Opens(f, g), Waits(f, g),
         f.finally \in {Top.finally, <<>>}, g.teardown => g.finally = <<>>
  PROVE  Calls'
  <1>1. /\ Len(stack') = Len(stack) + 1
        /\ stack'[Len(stack)] = f /\ stack'[Len(stack) + 1] = g
        /\ \A c \in 1..Len(stack) - 1 : stack'[c] = stack[c]
    BY PushFacts DEF Opens
  <1>2. Len(stack) \in Nat \ {0}
    BY StackFacts
  <1>3. f.teardown = stack[Len(stack)].teardown
    BY DEF Opens, Top
  <1>4. ~stack'[1].teardown
    BY <1>1, <1>2, <1>3 DEF Calls
  <1>5. FrameOK(f)
    BY TopOK DEF Opens, FrameOK
  <1>6. FrameOK(g)
    <2>1. g.steps \in Lists /\ g.members \in MemberSets
      BY FrameFacts DEF Opens
    <2>2. Len(g.steps) \in Nat /\ DOMAIN g.members = {}
      BY <2>1, ListFacts, MembersAre DEF Opens
    <2> QED
      BY <2>2 DEF Opens, FrameOK
  <1>7. ASSUME NEW c \in 1..Len(stack')
        PROVE  FrameOK(stack'[c])
    <2>1. c \in 1..Len(stack) - 1 \/ c = Len(stack) \/ c = Len(stack) + 1
      BY <1>1, <1>2
    <2>2. c \in 1..Len(stack) - 1 => FrameOK(stack[c])
      BY <1>2 DEF Calls
    <2> QED
      BY <1>1, <1>5, <1>6, <2>1, <2>2
  <1>8. ASSUME NEW c \in 1..Len(stack') - 1
        PROVE  Waits(stack'[c], stack'[c + 1])
    <2>1. CASE c = Len(stack)
      BY <1>1, <2>1
    <2>2. CASE c # Len(stack)
      <3>1. c \in 1..Len(stack) - 1
        BY <1>1, <1>2, <2>2
      <3>2. Waits(stack[c], stack[c + 1]) /\ stack'[c] = stack[c]
        BY <1>1, <3>1 DEF Calls
      <3>3. c + 1 \in 1..Len(stack) - 1 \/ c + 1 = Len(stack)
        BY <1>2, <3>1
      <3>4. stack'[c + 1].teardown = stack[c + 1].teardown
        BY <1>1, <1>3, <3>3
      <3> QED
        BY <3>2, <3>4 DEF Waits
    <2> QED
      BY <2>1, <2>2
  <1> QED
    BY <1>4, <1>7, <1>8 DEF Calls

LEMMA ReturnCalls ==
  ASSUME Typed, Calls, Return
  PROVE  Calls' /\ stack' \in Seq(Frames) /\ stack' # <<>>
  <1>1. /\ Len(stack) > 1 /\ Top.members = Idle /\ ~MoreSteps /\ Top.finally = <<>>
    BY ReturnDoes
  <1>2. PICK f \in Frames :
           /\ stack' = SubSeq(stack, 1, Len(stack) - 2) \o <<f>>
           /\ f.steps = Caller.steps /\ f.finally = Caller.finally
           /\ f.teardown = Caller.teardown /\ f.i = Caller.i
           /\ Top.teardown =>
                 /\ f.members = Caller.members
                 /\ f.err = Combined(Caller.err, Top.err)
           /\ ~Top.teardown =>
                 /\ f.err = Top.err
                 /\ DOMAIN f.members = DOMAIN Caller.members
                 /\ Caller.i \in DOMAIN Caller.members
                 /\ f.members[Caller.i].at = IF Top.err = <<>> THEN "ok" ELSE "failed"
                 /\ f.members[Caller.i].wrote = Caller.members[Caller.i].wrote
    BY ReturnDoes
  <1>3. /\ stack' \in Seq(Frames) /\ stack' # <<>>
        /\ Len(stack') = Len(stack) - 1 /\ stack'[Len(stack) - 1] = f
        /\ \A c \in 1..Len(stack) - 2 : stack'[c] = stack[c]
    BY <1>1, <1>2, PopFacts
  <1>4. Len(stack) \in Nat \ {0} /\ Len(stack) - 1 \in 1..Len(stack) - 1
    BY <1>1, CallerFacts
  <1>5. FrameOK(Caller) /\ Waits(Caller, Top) /\ Caller \in Frames
    BY <1>1, CallerFacts
  <1>6. FrameOK(f)
    <2>1. f.members \in MemberSets /\ Caller.members \in MemberSets
      BY <1>5, FrameFacts
    <2>2. CASE Top.teardown
      <3>1. f.members = Idle /\ DOMAIN f.members = {}
        BY <1>2, <1>5, <2>1, <2>2, MembersAre DEF Waits
      <3> QED
        BY <1>2, <1>5, <3>1 DEF FrameOK
    <2>3. CASE ~Top.teardown
      <3>1. /\ Caller.members # Idle /\ Caller.steps[Caller.i].blocking
        BY <1>5, <2>3 DEF Waits
      <3>2. \A k \in DOMAIN Caller.members : k = Caller.i
        BY <1>5, <3>1 DEF FrameOK
      <3>3. f.members[f.i].at = IF f.err = <<>> THEN "ok" ELSE "failed"
        BY <1>2, <2>3
      <3>4. /\ f.members[f.i].at \notin {"new", "calling"}
            /\ f.err = <<>> <=> f.members[f.i].at # "failed"
        BY <3>3
      <3>5. \A k \in DOMAIN f.members : k = f.i
        BY <1>2, <2>3, <3>2
      <3>6. f.steps[f.i].blocking /\ f.i \in DOMAIN f.members
        BY <1>2, <2>3, <3>1
      <3>7. /\ f.i <= Len(f.steps) + 1 /\ DOMAIN f.members \subseteq DOMAIN f.steps
            /\ f.teardown => f.finally = <<>>
        BY <1>2, <1>5, <2>3 DEF FrameOK
      <3> QED
        BY <3>4, <3>5, <3>6, <3>7 DEF FrameOK
    <2> QED
      BY <2>2, <2>3
  <1>7. f.teardown = stack[Len(stack) - 1].teardown
    BY <1>2 DEF Caller
  <1>8. ~stack'[1].teardown
    <2>1. CASE Len(stack) = 2
      <3>1. stack'[1] = f /\ f.teardown = stack[1].teardown
        BY <1>3, <1>7, <2>1
      <3> QED
        BY <3>1 DEF Calls
    <2>2. CASE Len(stack) # 2
      <3>1. \A m \in Nat : m > 1 /\ m # 2 => 1 \in 1..m - 2
        OBVIOUS
      <3>2. 1 \in 1..Len(stack) - 2
        BY <1>1, <1>4, <2>2, <3>1
      <3> QED
        BY <1>3, <3>2 DEF Calls
    <2> QED
      BY <2>1, <2>2
  <1>9. ASSUME NEW c \in 1..Len(stack')
        PROVE  FrameOK(stack'[c])
    <2>1. c \in 1..Len(stack) - 2 \/ c = Len(stack) - 1
      BY <1>3, <1>4
    <2>2. c \in 1..Len(stack) - 2 => FrameOK(stack[c])
      BY <1>4 DEF Calls
    <2> QED
      BY <1>3, <1>6, <2>1, <2>2
  <1>10. ASSUME NEW c \in 1..Len(stack') - 1
         PROVE  Waits(stack'[c], stack'[c + 1])
    <2>1. c \in 1..Len(stack) - 2 /\ c \in 1..Len(stack) - 1
      BY <1>3, <1>4
    <2>2. Waits(stack[c], stack[c + 1]) /\ stack'[c] = stack[c]
      BY <1>3, <2>1 DEF Calls
    <2>3. c + 1 \in 1..Len(stack) - 2 \/ c + 1 = Len(stack) - 1
      BY <1>4, <2>1
    <2>4. stack'[c + 1].teardown = stack[c + 1].teardown
      BY <1>3, <1>7, <2>3
    <2> QED
      BY <2>2, <2>4 DEF Waits
  <1> QED
    BY <1>3, <1>8, <1>9, <1>10 DEF Calls

-----------------------------------------------------------------------------
(* Every step keeps the types and the order of the calls.                  *)

Shape == Typed /\ Calls

LEMMA KeepsStack ==
  ASSUME Typed, NEW f, Keeps(f)
  PROVE  stack' \in Seq(Frames) /\ stack' # <<>>
  BY SetTopFacts DEF Keeps

LEMMA FailedTyped ==
  ASSUME Typed, NEW x \in Failures, failed' = Append(failed, x)
  PROVE  failed' \in Seq(Failures)
  BY AppendProperties DEF Typed

LEMMA ShapeInit == Init => Shape
  <1> SUFFICES ASSUME Init
               PROVE  Shape
    OBVIOUS
  <1>1. PICK w \in Workflows : /\ stack = <<Call(w.steps, w.finally, FALSE)>>
                               /\ env = Over(Nested(NoVars, w.vars), ExtraEnv)
    BY DEF Init
  <1>2. w \in Called
    BY DEF Called
  <1>3. PICK g : g = Call(w.steps, w.finally, FALSE)
    OBVIOUS
  <1>4. /\ g \in Frames /\ g.steps = w.steps /\ g.finally = w.finally
        /\ g.teardown = FALSE /\ g.i = 1 /\ g.err = <<>> /\ g.members = Idle
    BY <1>2, <1>3, CalledCall
  <1>5. /\ stack \in Seq(Frames) /\ stack # <<>> /\ Len(stack) = 1 /\ stack[1] = g
    BY <1>1, <1>3, <1>4, OneInSeq
  <1>6. env \in Map
    <2>1. NoVars \in Map /\ w.vars \in Map /\ ExtraEnv \in Map
      BY <1>2, CalledLists, StepsAssumption DEF NoVars, Map
    <2>2. Nested(NoVars, w.vars) \in Map
      BY <2>1, EnvFacts
    <2> QED
      BY <1>1, <2>1, <2>2, EnvFacts
  <1>7. roots \in RootSet
    BY DEF Init, RootSet, Places
  <1>8. files \in [Places \X Paths -> Map]
    <2>1. NoVars \in Map
      BY DEF NoVars, Map
    <2> HIDE DEF NoVars, Map, Places
    <2> QED
      BY <2>1 DEF Init
  <1>9. failed \in Seq(Failures)
    BY EmptySeq DEF Init
  <1>10. /\ outcome \in {"running", "ok", "failed", "killed"}
         /\ interrupts \in 0..MaxInterrupts /\ live \subseteq Ids /\ began \subseteq Ids
    BY StepsAssumption DEF Init
  <1>11. Typed
    BY <1>5, <1>6, <1>7, <1>8, <1>9, <1>10 DEF Typed
  <1>12. FrameOK(g)
    <2>1. Len(g.steps) \in Nat /\ DOMAIN g.members = {}
      BY <1>4, FrameFacts, ListFacts, MembersAre
    <2> QED
      BY <1>4, <2>1 DEF FrameOK
  <1>13. Calls
    BY <1>4, <1>5, <1>12 DEF Calls
  <1> QED
    BY <1>11, <1>13 DEF Shape

LEMMA MemberShape ==
  ASSUME Shape, NEW n \in DOMAIN Top.members,
         MemberStart(n) \/ MemberSetup(n) \/ Write(n) \/ Succeed(n) \/ Fail(n)
  PROVE  Shape'
  <1>1. Typed /\ Calls
    BY DEF Shape
  <1>2. /\ FrameOK(Top) /\ Top.members # Idle /\ n \in DOMAIN Top.steps
        /\ Top.i \in DOMAIN Top.steps
    BY <1>1, TopOK
  <1>3. Top.steps[n] \in Declared /\ Top.members[n] \in Member
    BY <1>1, <1>2, TopMember
  <1>4. Top.steps[n].id \in Ids /\ Top.steps[n].writes \in Map
    BY <1>3, DeclaredFacts
  <1>5. /\ Step.blocking => n = Top.i
        /\ Step.blocking => (Top.err = <<>> <=> Top.members[n].at # "failed")
        /\ Step.blocking => (Top.members[n].at = "calling" => Step.kind = "package")
        /\ Step.blocking => Top.members[n].at # "new"
        /\ ~Step.blocking => Top.members[n].at # "calling" /\ ~Top.steps[n].blocking
    BY <1>2 DEF FrameOK, Step
  <1>6. CASE MemberStart(n)
    <2>1. PICK f \in Frames : /\ Moves(f, n) /\ f.err = Top.err
                              /\ Top.members[n].at = "new" /\ f.members[n].at = "setup"
      BY <1>1, <1>2, <1>6, MemberStartMoves
    <2>2. Calls'
      BY <1>1, <1>5, <2>1, MovesCalls
    <2>3. stack' \in Seq(Frames) /\ stack' # <<>>
      BY <1>1, <2>1, KeepsStack DEF Moves
    <2>4. began' \subseteq Ids
      BY <1>1, <1>4, <1>6 DEF MemberStart, Typed
    <2>5. UNCHANGED <<env, roots, files, outcome, interrupts, failed, live>>
      BY <1>6 DEF MemberStart
    <2> QED
      BY <1>1, <2>2, <2>3, <2>4, <2>5 DEF Typed, Shape
  <1>7. CASE MemberSetup(n)
    <2>1. PICK f \in Frames : /\ Moves(f, n) /\ f.err = Top.err
                              /\ Top.members[n].at = "setup" /\ f.members[n].at = "running"
      BY <1>1, <1>2, <1>7, MemberSetupMoves
    <2>2. Calls'
      BY <1>1, <1>5, <2>1, MovesCalls
    <2>3. stack' \in Seq(Frames) /\ stack' # <<>>
      BY <1>1, <2>1, KeepsStack DEF Moves
    <2>4. live' \subseteq Ids
      BY <1>1, <1>4, <1>7 DEF MemberSetup, Typed
    <2>5. UNCHANGED <<env, roots, files, outcome, interrupts, failed, began>>
      BY <1>7 DEF MemberSetup
    <2> QED
      BY <1>1, <2>2, <2>3, <2>4, <2>5 DEF Typed, Shape
  <1>8. CASE Write(n)
    <2>1. PICK f \in Frames : /\ Moves(f, n) /\ f.err = Top.err
                              /\ Top.members[n].at = "running" /\ f.members[n].at = "running"
      BY <1>1, <1>2, <1>8, WriteMoves
    <2>2. Calls'
      BY <1>1, <1>5, <2>1, MovesCalls
    <2>3. stack' \in Seq(Frames) /\ stack' # <<>>
      BY <1>1, <2>1, KeepsStack DEF Moves
    <2>4. files' \in [Places \X Paths -> Map]
      <3>1. files' = [files EXCEPT ![OutputsFile(Top.members[n].roots, Top.steps[n])]
                                      = Top.steps[n].writes]
        BY <1>8 DEF Write
      <3> HIDE DEF Map, Places
      <3> QED
        BY <1>1, <1>4, <3>1 DEF Typed
    <2>5. UNCHANGED <<env, roots, outcome, interrupts, failed, began, live>>
      BY <1>8 DEF Write
    <2> QED
      BY <1>1, <2>2, <2>3, <2>4, <2>5 DEF Typed, Shape
  <1>9. CASE Succeed(n)
    <2>1. PICK f \in Frames : /\ Moves(f, n) /\ f.err = Top.err
                              /\ Top.members[n].at = "running" /\ f.members[n].at = "ok"
      BY <1>1, <1>9, SucceedMoves
    <2>2. Calls'
      BY <1>1, <1>5, <2>1, MovesCalls
    <2>3. stack' \in Seq(Frames) /\ stack' # <<>>
      BY <1>1, <2>1, KeepsStack DEF Moves
    <2>4. live' \subseteq Ids
      BY <1>1, <1>9 DEF Succeed, Typed
    <2>5. UNCHANGED <<env, roots, files, outcome, interrupts, failed, began>>
      BY <1>9 DEF Succeed
    <2> QED
      BY <1>1, <2>2, <2>3, <2>4, <2>5 DEF Typed, Shape
  <1>10. CASE Fail(n)
    <2>1. PICK f \in Frames, x \in Failures :
             /\ Moves(f, n) /\ f.err = FirstError(Top.err, x) /\ failed' = Append(failed, x)
             /\ f.members[n].at = "failed"
      BY <1>1, <1>2, <1>10, FailMoves
    <2>2. f.err # <<>>
      BY <2>1, OneInSeq DEF FirstError
    <2>3. Calls'
      BY <1>1, <1>5, <2>1, <2>2, MovesCalls
    <2>4. stack' \in Seq(Frames) /\ stack' # <<>>
      BY <1>1, <2>1, KeepsStack DEF Moves
    <2>5. failed' \in Seq(Failures)
      BY <1>1, <2>1, FailedTyped
    <2>6. live' \subseteq Ids /\ UNCHANGED <<env, roots, files, outcome, interrupts, began>>
      BY <1>1, <1>10 DEF Fail, Typed
    <2> QED
      BY <1>1, <2>3, <2>4, <2>5, <2>6 DEF Typed, Shape
  <1> QED
    BY <1>6, <1>7, <1>8, <1>9, <1>10

LEMMA BlockingShape ==
  ASSUME Shape, RejectMounts \/ BeginStep \/ Setup \/ EndStep \/ StopStep
  PROVE  Shape'
  <1>1. Typed /\ Calls
    BY DEF Shape
  <1>2. /\ FrameOK(Top) /\ Top.i \in Nat \ {0} /\ Len(Top.steps) \in Nat
        /\ DOMAIN Top.steps = 1..Len(Top.steps)
    BY <1>1, StackFacts, FrameFacts, ListFacts, TopOK
  <1>3. CASE RejectMounts
    <2>1. PICK f \in Frames, x \in Failures : Refuses(f, x) /\ f.finally = <<>>
      BY <1>1, <1>3, RejectMountsDoes
    <2>2. Calls'
      BY <1>1, <1>2, <2>1, RestsCalls DEF Refuses, FrameOK, Keeps
    <2>3. stack' \in Seq(Frames) /\ stack' # <<>>
      BY <1>1, <2>1, KeepsStack DEF Refuses
    <2>4. failed' \in Seq(Failures)
      BY <1>1, <2>1, FailedTyped DEF Refuses
    <2>5. UNCHANGED <<env, roots, files, outcome, interrupts, began, live>>
      BY <1>3 DEF RejectMounts
    <2> QED
      BY <1>1, <2>2, <2>3, <2>4, <2>5 DEF Typed, Shape
  <1>4. CASE BeginStep
    <2>1. AtRest /\ MoreSteps /\ Step.blocking
      BY <1>4 DEF BeginStep
    <2>2. /\ env' \in Map /\ roots' \in RootSet
          /\ began' = began \cup {Step.id} /\ Step.id \in Ids
      BY <1>1, <1>4, BeginStepDoes
    <2>3. PICK f \in Frames :
             /\ Keeps(f) /\ f.finally = Top.finally /\ f.i = Top.i /\ f.err = Top.err
             /\ DOMAIN f.members = {Top.i} /\ f.members[Top.i].at = "setup"
      BY <1>1, <1>4, BeginStepDoes
    <2>4. Top.i \in DOMAIN Top.steps /\ f.steps = Top.steps /\ f.teardown = Top.teardown
      BY <1>1, <2>1, <2>3, StepFacts DEF MoreSteps, Keeps
    <2>5. FrameOK(f)
      BY <1>2, <2>1, <2>3, <2>4 DEF FrameOK, MoreSteps, Step
    <2>6. Calls'
      BY <1>1, <2>3, <2>5, KeepsCalls
    <2>7. stack' \in Seq(Frames) /\ stack' # <<>>
      BY <1>1, <2>3, KeepsStack
    <2>8. UNCHANGED <<files, outcome, interrupts, failed, live>>
      BY <1>4 DEF BeginStep
    <2>9. began' \subseteq Ids
      BY <1>1, <2>2 DEF Typed
    <2> QED
      BY <1>1, <2>2, <2>6, <2>7, <2>8, <2>9 DEF Typed, Shape
  <1>5. CASE Setup
    <2>1. Top.i \in DOMAIN Top.members
      BY <1>5 DEF Setup
    <2>2. Top.i \in DOMAIN Top.steps /\ Top.members # Idle
      BY <1>1, <2>1, TopOK
    <2>3. /\ env' \in Map
          /\ \E f \in Frames :
                /\ Moves(f, Top.i) /\ f.err = Top.err
                /\ Top.members[Top.i].at = "setup" /\ Step.blocking
                /\ f.members[Top.i].at = IF Step.kind = "package" THEN "calling" ELSE "running"
      BY <1>1, <1>5, <2>2, SetupMoves
    <2>4. PICK f \in Frames :
             /\ Moves(f, Top.i) /\ f.err = Top.err
             /\ Top.members[Top.i].at = "setup" /\ Step.blocking
             /\ f.members[Top.i].at = IF Step.kind = "package" THEN "calling" ELSE "running"
      BY <2>3
    <2>5. Top.err = <<>>
      BY <1>2, <2>1, <2>2, <2>4 DEF FrameOK, Step
    <2>6. Calls'
      BY <1>1, <2>4, <2>5, MovesCalls
    <2>7. stack' \in Seq(Frames) /\ stack' # <<>>
      BY <1>1, <2>4, KeepsStack DEF Moves
    <2>8. Step.id \in Ids
      BY <1>1, <2>2, ListFacts, StackFacts, FrameFacts, DeclaredFacts DEF Step
    <2>9. live' \subseteq Ids
      BY <1>1, <1>5, <2>8 DEF Setup, Typed
    <2>10. UNCHANGED <<roots, files, outcome, interrupts, failed, began>>
      BY <1>5 DEF Setup
    <2> QED
      BY <1>1, <2>3, <2>6, <2>7, <2>9, <2>10 DEF Typed, Shape
  <1>6. CASE EndStep
    <2>1. Top.i \in DOMAIN Top.members
      BY <1>6 DEF EndStep
    <2>2. Top.i \in DOMAIN Top.steps /\ Top.members # Idle
      BY <1>1, <2>1, TopOK
    <2>3. PICK f \in Frames, s \in Merges :
             /\ Keeps(f) /\ f.finally = Top.finally /\ f.i = Top.i + 1
             /\ f.members = Idle /\ env' = s.env /\ files' = s.files
      BY <1>1, <1>6, <2>2, EndStepDoes
    <2>4. f.i <= Len(f.steps) + 1
      BY <1>2, <2>2, <2>3 DEF Keeps
    <2>5. Calls'
      BY <1>1, <2>3, <2>4, RestsCalls
    <2>6. stack' \in Seq(Frames) /\ stack' # <<>>
      BY <1>1, <2>3, KeepsStack
    <2>7. env' \in Map /\ files' \in [Places \X Paths -> Map]
      BY <2>3 DEF Merges
    <2>8. UNCHANGED <<roots, outcome, interrupts, failed, began, live>>
      BY <1>6 DEF EndStep
    <2> QED
      BY <1>1, <2>5, <2>6, <2>7, <2>8 DEF Typed, Shape
  <1>7. CASE StopStep
    <2>1. PICK f \in Frames :
             Keeps(f) /\ f.finally = Top.finally /\ f.i = Top.i /\ f.members = Idle
      BY <1>1, <1>7, StopStepDoes
    <2>2. f.i <= Len(f.steps) + 1
      BY <1>2, <2>1 DEF Keeps, FrameOK
    <2>3. Calls'
      BY <1>1, <2>1, <2>2, RestsCalls
    <2>4. stack' \in Seq(Frames) /\ stack' # <<>>
      BY <1>1, <2>1, KeepsStack
    <2>5. UNCHANGED <<env, roots, files, outcome, interrupts, failed, began, live>>
      BY <1>7 DEF StopStep
    <2> QED
      BY <1>1, <2>3, <2>4, <2>5 DEF Typed, Shape
  <1> QED
    BY <1>3, <1>4, <1>5, <1>6, <1>7

LEMMA BatchShape ==
  ASSUME Shape, BeginBatch \/ BatchFails \/ Join
  PROVE  Shape'
  <1>1. Typed /\ Calls
    BY DEF Shape
  <1>2. /\ FrameOK(Top) /\ Top.i \in Nat \ {0} /\ Len(Top.steps) \in Nat
        /\ DOMAIN Top.steps = 1..Len(Top.steps)
    BY <1>1, StackFacts, FrameFacts, ListFacts, TopOK
  <1>3. CASE BeginBatch
    <2>1. ~Step.blocking
      BY <1>3 DEF BeginBatch
    <2>2. Top.i \in DOMAIN Top.steps
      BY <1>1, <1>3, BeginBatchDoes
    <2>3. PICK f \in Frames :
             /\ Keeps(f) /\ f.finally = Top.finally /\ f.i = Top.i /\ DOMAIN f.members = Batch
             /\ \A n \in Batch : f.members[n].at = "new"
      BY <1>1, <1>3, BeginBatchDoes
    <2>4. /\ Batch = Top.i..BatchEnd - 1 /\ Batch \subseteq DOMAIN Top.steps /\ Top.i \in Batch
          /\ \A n \in Batch : ~Top.steps[n].blocking
      BY <1>1, <2>1, <2>2, BatchFacts
    <2>5. \A n \in Batch : Top.i <= n
      BY <1>1, <2>1, <2>2, <2>4, BatchFacts
    <2>6. f.steps = Top.steps /\ f.teardown = Top.teardown
      BY <2>3 DEF Keeps
    <2>7. FrameOK(f)
      BY <1>2, <2>1, <2>3, <2>4, <2>5, <2>6 DEF FrameOK
    <2>8. Calls'
      BY <1>1, <2>3, <2>7, KeepsCalls
    <2>9. stack' \in Seq(Frames) /\ stack' # <<>>
      BY <1>1, <2>3, KeepsStack
    <2>10. UNCHANGED <<env, roots, files, outcome, interrupts, failed, began, live>>
      BY <1>3 DEF BeginBatch
    <2> QED
      BY <1>1, <2>8, <2>9, <2>10 DEF Typed, Shape
  <1>4. CASE BatchFails
    <2>1. PICK f \in Frames, x \in Failures : Refuses(f, x) /\ f.finally = Top.finally
      BY <1>1, <1>4, BatchFailsDoes
    <2>2. Calls'
      BY <1>1, <1>2, <2>1, RestsCalls DEF Refuses, FrameOK, Keeps
    <2>3. stack' \in Seq(Frames) /\ stack' # <<>>
      BY <1>1, <2>1, KeepsStack DEF Refuses
    <2>4. failed' \in Seq(Failures)
      BY <1>1, <2>1, FailedTyped DEF Refuses
    <2>5. UNCHANGED <<env, roots, files, outcome, interrupts, began, live>>
      BY <1>4 DEF BatchFails
    <2> QED
      BY <1>1, <2>2, <2>3, <2>4, <2>5 DEF Typed, Shape
  <1>5. CASE Join
    <2>1. Top.members # Idle /\ ~Step.blocking
      BY <1>5 DEF Join
    <2>2. Top.i \in DOMAIN Top.steps
      BY <1>1, <2>1, TopOK
    <2>3. PICK f \in Frames :
            /\ Keeps(f) /\ f.finally = Top.finally /\ f.members = Idle
            /\ IF Top.err = <<>>
               THEN \E s \in Merges : env' = s.env /\ files' = s.files /\ f.i = BatchEnd
               ELSE UNCHANGED <<env, files>> /\ f.i = Top.i
      BY <1>1, <1>5, <2>2, JoinDoes
    <2>4. BatchEnd \in Top.i + 1..Len(Top.steps) + 1
      BY <1>1, <2>1, <2>2, BatchFacts
    <2>5. f.i <= Len(f.steps) + 1
      BY <1>2, <2>2, <2>3, <2>4 DEF Keeps
    <2>6. Calls'
      BY <1>1, <2>3, <2>5, RestsCalls
    <2>7. stack' \in Seq(Frames) /\ stack' # <<>>
      BY <1>1, <2>3, KeepsStack
    <2>8. env' \in Map /\ files' \in [Places \X Paths -> Map]
      BY <1>1, <2>3 DEF Merges, Typed
    <2>9. UNCHANGED <<roots, outcome, interrupts, failed, began, live>>
      BY <1>5 DEF Join
    <2> QED
      BY <1>1, <2>6, <2>7, <2>8, <2>9 DEF Typed, Shape
  <1> QED
    BY <1>3, <1>4, <1>5

(* The member that a packaged step is.                                     *)
LEMMA CallingFacts ==
  ASSUME Shape, Top.i \in DOMAIN Top.members, Top.members[Top.i].at = "calling"
  PROVE  /\ Top.i \in DOMAIN Top.steps /\ Step.kind = "package" /\ Step.blocking
         /\ Top.members # Idle /\ Top.err = <<>> /\ DOMAIN Top.members = {Top.i}
  <1>1. Typed /\ Calls
    BY DEF Shape
  <1>2. FrameOK(Top) /\ Top.members # Idle /\ Top.i \in DOMAIN Top.steps
    BY <1>1, TopOK
  <1> QED
    BY <1>2 DEF FrameOK, Step

LEMMA CallShape ==
  ASSUME Shape, CallPackage \/ Teardown \/ Return \/ End \/ Interrupt
  PROVE  Shape'
  <1>1. Typed /\ Calls
    BY DEF Shape
  <1>2. CASE CallPackage
    <2>1. Top.i \in DOMAIN Top.members /\ Top.members[Top.i].at = "calling"
      BY <1>2 DEF CallPackage
    <2>2. /\ Top.i \in DOMAIN Top.steps /\ Step.kind = "package" /\ Step.blocking
          /\ Top.members # Idle
      BY <2>1, CallingFacts
    <2>3. env' \in Map
      BY <1>1, <1>2, <2>2, CallPackageDoes
    <2>4. PICK f \in Frames, g \in Frames :
             Opens(f, g) /\ f.finally = Top.finally /\ ~g.teardown
      BY <1>1, <1>2, <2>2, CallPackageDoes
    <2>5. Waits(f, g)
      BY <2>1, <2>2, <2>4 DEF Waits, Opens, Step
    <2>6. Calls'
      BY <1>1, <2>4, <2>5, OpensCalls
    <2>7. stack' \in Seq(Frames) /\ stack' # <<>>
      BY <1>1, <2>4, PushFacts DEF Opens
    <2>8. UNCHANGED <<roots, files, outcome, interrupts, failed, began, live>>
      BY <1>2 DEF CallPackage
    <2> QED
      BY <1>1, <2>3, <2>6, <2>7, <2>8 DEF Typed, Shape
  <1>3. CASE Teardown
    <2>1. PICK f \in Frames, g \in Frames :
             /\ Opens(f, g) /\ f.finally = <<>> /\ g.finally = <<>> /\ g.teardown
             /\ Top.members = Idle /\ ~MoreSteps
      BY <1>1, <1>3, TeardownDoes
    <2>2. Top.i \in Nat /\ Len(Top.steps) \in Nat
      BY <1>1, StackFacts, FrameFacts, ListFacts
    <2>3. Waits(f, g)
      BY <2>1, <2>2 DEF Waits, Opens, MoreSteps
    <2>4. Calls'
      BY <1>1, <2>1, <2>3, OpensCalls
    <2>5. stack' \in Seq(Frames) /\ stack' # <<>>
      BY <1>1, <2>1, PushFacts DEF Opens
    <2>6. UNCHANGED <<env, roots, files, outcome, interrupts, failed, began, live>>
      BY <1>3 DEF Teardown
    <2> QED
      BY <1>1, <2>4, <2>5, <2>6 DEF Typed, Shape
  <1>4. CASE Return
    <2>1. Calls' /\ stack' \in Seq(Frames) /\ stack' # <<>>
      BY <1>1, <1>4, ReturnCalls
    <2>2. UNCHANGED <<env, roots, files, outcome, interrupts, failed, began, live>>
      BY <1>4 DEF Return
    <2> QED
      BY <1>1, <2>1, <2>2 DEF Typed, Shape
  <1>5. CASE End
    <2>1. /\ outcome' \in {"ok", "failed"}
          /\ UNCHANGED <<env, roots, files, stack, interrupts, began, failed, live>>
      BY <1>5 DEF End
    <2> QED
      BY <1>1, <2>1 DEF Typed, Shape, Calls
  <1>6. CASE Interrupt
    <2>1. /\ outcome' \in {outcome, "killed"}
          /\ interrupts < MaxInterrupts /\ interrupts' = interrupts + 1
          /\ UNCHANGED <<env, roots, files, stack, began, failed, live>>
      BY <1>6 DEF Interrupt
    <2>2. interrupts' \in 0..MaxInterrupts
      BY <1>1, <2>1, StepsAssumption DEF Typed
    <2> QED
      BY <1>1, <2>1, <2>2 DEF Typed, Shape, Calls
  <1> QED
    BY <1>2, <1>3, <1>4, <1>5, <1>6

(* The actions of the runner, one by one.                                  *)
LEMMA NextIs ==
  ASSUME [Next]_vars
  PROVE  \/ UNCHANGED vars
         \/ RejectMounts \/ BeginStep \/ Setup \/ EndStep \/ StopStep
         \/ BeginBatch \/ BatchFails \/ Join
         \/ CallPackage \/ Teardown \/ Return \/ End \/ Interrupt \/ Background
         \/ \E n \in DOMAIN Top.members :
               Running /\ (MemberStart(n) \/ MemberSetup(n) \/ Write(n) \/ Succeed(n) \/ Fail(n))
  BY DEF Next, Runner, Process, Exit, Leave

(* Containers in the background: what they are, and when there are any.    *)
OnlyDetached == background # <<>> => detach
Behind == detach \in BOOLEAN /\ background \in Seq(Container) /\ OnlyDetached

LEMMA ShapeStep == Shape /\ Behind /\ [Next]_vars => Shape'
  <1> SUFFICES ASSUME Shape, Behind, [Next]_vars
               PROVE  Shape'
    OBVIOUS
  <1>1. CASE UNCHANGED vars
    BY <1>1 DEF vars, Shape, Typed, Calls
  <1>2. CASE Background
    <2>1. UNCHANGED <<env, roots, stack, outcome, interrupts, began, failed, live>>
      BY <1>2 DEF Background
    <2>2. files' \in [Places \X Paths -> Map]
      <3>1. files \in [Places \X Paths -> Map] /\ background \in Seq(Container)
        BY DEF Shape, Typed, Behind
      <3>2. CASE files' = files
        BY <3>1, <3>2
      <3>3. ASSUME NEW b \in DOMAIN background, LateWrite(b)
            PROVE  files' \in [Places \X Paths -> Map]
        <4>1. background[b] \in Container
          BY <3>1
        <4>2. PICK path \in Places \X Paths, m \in Map : files' = [files EXCEPT ![path] = m]
          <5> HIDE DEF Map, Places
          <5> QED
            BY <3>3, <4>1 DEF LateWrite, Container
        <4> HIDE DEF Map, Places
        <4> QED
          BY <3>1, <4>2
      <3> QED
        BY <1>2, <3>2, <3>3 DEF Background, LateExit
    <2>3. Typed'
      <3> HIDE DEF Map, Places
      <3> QED
        BY <2>1, <2>2 DEF Shape, Typed
    <2> QED
      BY <2>1, <2>3 DEF Shape, Calls
  <1> QED
    BY <1>1, <1>2, NextIs, MemberShape, BlockingShape, BatchShape, CallShape

(* Only docker run -d leaves a container, and what was left is on record.  *)
LEMMA BehindStep == Shape /\ Behind /\ [Next]_vars => Behind'
  <1> SUFFICES ASSUME Shape, Behind, [Next]_vars
               PROVE  Behind'
    OBVIOUS
  <1>1. detach' = detach
    BY DEF Next, Runner, Process, vars, detached, RejectMounts, BeginStep, Setup,
       CallPackage, EndStep, StopStep, BeginBatch, BatchFails, Join, Teardown, Return,
       End, Interrupt, Background, MemberStart, MemberSetup, Write, Exit, Leave, Fail
  <1>2. CASE background' = background
    BY <1>1, <1>2 DEF Behind, OnlyDetached
  <1>3. ASSUME NEW n \in DOMAIN Top.members, Leave(n)
        PROVE  Behind'
    <2>1. detach
      BY <1>3 DEF Leave, InBackground
    <2>2. background' \in Seq(Container)
      <3> DEFINE m == Top.members[n]
                 step == Top.steps[n]
                 writes == IF m.wrote = NoVars THEN step.writes ELSE NoVars
      <3>1. Typed /\ n \in DOMAIN Top.steps
        BY TopOK DEF Shape
      <3>2. m \in Member /\ step \in Declared
        BY <3>1, TopMember
      <3>3. step.id \in Ids /\ step.writes \in Map /\ NoVars \in Map
        BY <3>2, DeclaredFacts DEF NoVars, Map
      <3>4. m.roots \in RootSet
        BY <3>2 DEF Member, RootSet
      <3>5. OutputsFile(m.roots, step) \in Places \X Paths
        BY <3>2, <3>4, OutputsFileFacts
      <3>6. PICK c : c = [id |-> step.id, at |-> "up", path |-> OutputsFile(m.roots, step),
                          writes |-> writes]
        OBVIOUS
      <3>7. c \in Container
        <4>1. writes \in Map
          BY <3>3
        <4> HIDE DEF writes, Map, Places, step, m
        <4> QED
          BY <3>3, <3>5, <3>6, <4>1 DEF Container
      <3>8. background' = Append(background, c)
        BY <1>3, <3>6 DEF Leave
      <3> QED
        BY <3>7, <3>8, AppendProperties DEF Behind
    <2> QED
      BY <1>1, <2>1, <2>2 DEF Behind, OnlyDetached
  <1>4. CASE Background
    <2>1. PICK b \in DOMAIN background : LateWrite(b) \/ LateExit(b)
      BY <1>4 DEF Background
    <2>2. background # <<>> /\ background \in Seq(Container) /\ background[b] \in Container
      BY <2>1 DEF Behind
    <2>3. background' \in Seq(Container)
      <3>1. NoVars \in Map
        BY DEF NoVars, Map
      <3>2. /\ [background[b] EXCEPT !.writes = NoVars] \in Container
            /\ [background[b] EXCEPT !.at = "down", !.writes = NoVars] \in Container
        <4> HIDE DEF Map, NoVars, Places
        <4> QED
          BY <2>2, <3>1 DEF Container
      <3>3. PICK c \in Container : background' = [background EXCEPT ![b] = c]
        <4>1. CASE LateWrite(b)
          BY <3>2, <4>1 DEF LateWrite
        <4>2. CASE LateExit(b)
          BY <3>2, <4>2 DEF LateExit
        <4> QED
          BY <2>1, <4>1, <4>2
      <3> QED
        BY <2>1, <2>2, <3>3
    <2> QED
      BY <1>1, <2>2, <2>3 DEF Behind, OnlyDetached
  <1> QED
    BY <1>2, <1>3, <1>4
    DEF Next, Runner, Process, vars, detached, RejectMounts, BeginStep, Setup,
        CallPackage, EndStep, StopStep, BeginBatch, BatchFails, Join, Teardown, Return,
        End, Interrupt, MemberStart, MemberSetup, Write, Exit, Fail

LEMMA BehindNothing ==
  ASSUME Behind, [Next]_vars, background' = <<>>
  PROVE  background = <<>> /\ ~Background
  <1>1. background \in Seq(Container)
    BY DEF Behind
  <1>2. ~Background
    <2> SUFFICES ASSUME NEW b \in DOMAIN background, LateWrite(b) \/ LateExit(b)
                 PROVE  FALSE
      BY DEF Background
    <2>1. DOMAIN background' = DOMAIN background
      BY <1>1 DEF LateWrite, LateExit
    <2> QED
      BY <2>1
  <1>3. ASSUME NEW n \in DOMAIN Top.members, Leave(n)
        PROVE  FALSE
    <2>1. PICK c : background' = Append(background, c)
      BY <1>3 DEF Leave
    <2>2. background \in Seq(Container \cup {c})
      BY <1>1
    <2> QED
      BY <2>1, <2>2, AppendProperties
  <1>4. background' = background
    BY <1>2, <1>3
    DEF Next, Runner, Process, vars, detached, RejectMounts, BeginStep, Setup,
        CallPackage, EndStep, StopStep, BeginBatch, BatchFails, Join, Teardown, Return,
        End, Interrupt, MemberStart, MemberSetup, Write, Exit, Fail
  <1> QED
    BY <1>2, <1>4

LEMMA BehindInit == Init => Behind
  BY EmptySeq DEF Init, Behind, OnlyDetached

LEMMA ShapeInvariant == Spec => []Shape
  BY ShapeInit, ShapeStep, BehindInit, BehindStep, PTL DEF Spec

LEMMA BehindInvariant == Spec => []Behind
  BY BehindInit, BehindStep, ShapeInvariant, PTL DEF Spec

(* The types of the step runner.                                           *)
THEOREM TypeCorrect == Spec => []TypeOK
  <1>1. Shape /\ Behind => TypeOK
    <2> SUFFICES ASSUME Shape, Behind
                 PROVE  TypeOK
      OBVIOUS
    <2>1. /\ Typed /\ Calls
          /\ detach \in BOOLEAN /\ background \in Seq(Container)
      BY DEF Shape, Behind
    <2>2. ASSUME NEW c \in DOMAIN stack
          PROVE  /\ stack[c].docker \in Map
                 /\ stack[c].i \in 1..Len(stack[c].steps) + 1
                 /\ DOMAIN stack[c].members \subseteq DOMAIN stack[c].steps
                 /\ \A n \in DOMAIN stack[c].members : stack[c].members[n] \in Member
      <3>1. c \in 1..Len(stack) /\ stack[c] \in Frames
        BY <2>1, StackFacts
      <3>2. FrameOK(stack[c])
        BY <2>1, <3>1 DEF Calls
      <3>3. /\ stack[c].docker \in Map /\ stack[c].i \in Nat \ {0}
            /\ Len(stack[c].steps) \in Nat /\ stack[c].members \in MemberSets
        BY <3>1, FrameFacts, ListFacts
      <3> QED
        BY <3>2, <3>3, MembersAre DEF FrameOK
    <2> QED
      BY <2>1, <2>2 DEF TypeOK, Typed, RootSet
  <1> QED
    BY <1>1, ShapeInvariant, BehindInvariant, PTL

-----------------------------------------------------------------------------
(* Members of a batch are isolated.                                        *)

LEMMA IsolatedAlone ==
  Shape /\ (Top.members = Idle \/ Step.blocking) => MembersAreIsolated
  <1> SUFFICES ASSUME Shape, Top.members = Idle \/ Step.blocking
               PROVE  MembersAreIsolated
    OBVIOUS
  <1>1. Typed /\ Calls
    BY DEF Shape
  <1>2. FrameOK(Top) /\ (Top.members = Idle => DOMAIN Top.members = {})
    BY <1>1, TopOK, StackFacts, FrameFacts, MembersAre
  <1>3. ASSUME NEW n \in DOMAIN Top.members
        PROVE  Top.steps[n].blocking
    BY <1>2, <1>3 DEF FrameOK, Step
  <1> QED
    BY <1>3 DEF MembersAreIsolated

(* A member that moves keeps to what it may see.                           *)
LEMMA IsolatedMoves ==
  ASSUME Shape, MembersAreIsolated, NEW n, NEW f, Moves(f, n), f.docker = Top.docker,
         env' = env,
         \A k \in Keys :
            /\ f.members[n].env[k] \in
                  {Top.members[n].env[k], Top.steps[n].vars[k], Top.steps[n].exports[k]}
            /\ f.members[n].docker[k] \in {Top.members[n].docker[k], Top.steps[n].vars[k]}
  PROVE  MembersAreIsolated'
  <1>1. Top' = f
    BY SetTopFacts DEF Moves, Keeps, Shape
  <1>2. ASSUME NEW j \in DOMAIN f.members, ~f.steps[j].blocking, NEW k \in Keys
        PROVE  /\ f.members[j].env[k] \in {env'[k], f.steps[j].vars[k], f.steps[j].exports[k]}
               /\ f.members[j].docker[k] \in {f.docker[k], f.steps[j].vars[k]}
    <2>1. j \in DOMAIN Top.members /\ f.steps = Top.steps
      BY DEF Moves, Keeps
    <2>2. /\ Top.members[j].env[k] \in {env[k], Top.steps[j].vars[k], Top.steps[j].exports[k]}
          /\ Top.members[j].docker[k] \in {Top.docker[k], Top.steps[j].vars[k]}
      BY <1>2, <2>1 DEF MembersAreIsolated
    <2>3. CASE j = n
      <3>1. /\ f.members[j].env[k] \in
                  {Top.members[j].env[k], Top.steps[j].vars[k], Top.steps[j].exports[k]}
            /\ f.members[j].docker[k] \in {Top.members[j].docker[k], Top.steps[j].vars[k]}
        BY <2>3
      <3>2. env'[k] = env[k] /\ f.docker[k] = Top.docker[k]
        OBVIOUS
      <3>3. f.members[j].env[k] \in {env'[k], f.steps[j].vars[k], f.steps[j].exports[k]}
        BY <2>1, <2>2, <3>1, <3>2, Zenon
      <3>4. f.members[j].docker[k] \in {f.docker[k], f.steps[j].vars[k]}
        BY <2>1, <2>2, <3>1, <3>2, Zenon
      <3> QED
        BY <3>3, <3>4
    <2>4. CASE j # n
      <3>1. f.members[j] = Top.members[j]
        BY <2>1, <2>4 DEF Moves
      <3> QED
        BY <2>1, <2>2, <3>1
    <2> QED
      BY <2>3, <2>4
  <1> QED
    BY <1>1, <1>2 DEF MembersAreIsolated

LEMMA IsolatedStep == Shape /\ Behind /\ MembersAreIsolated /\ [Next]_vars => MembersAreIsolated'
  <1> SUFFICES ASSUME Shape, Behind, MembersAreIsolated, [Next]_vars
               PROVE  MembersAreIsolated'
    OBVIOUS
  <1>1. Typed /\ Calls /\ Shape'
    BY ShapeStep DEF Shape
  <1>2. (Shape /\ (Top.members = Idle \/ Step.blocking) => MembersAreIsolated)'
    BY IsolatedAlone, PTL
  <1>3. CASE UNCHANGED vars \/ End \/ Interrupt \/ Background
    <2>1. UNCHANGED <<env, stack>>
      BY <1>3 DEF vars, End, Interrupt, Background
    <2>2. Top' = Top
      BY <2>1 DEF Top
    <2> QED
      BY <2>1, <2>2 DEF MembersAreIsolated
  <1>4. CASE RejectMounts \/ BatchFails
    <2>1. PICK f \in Frames, x \in Failures : Refuses(f, x)
      BY <1>1, <1>4, RejectMountsDoes, BatchFailsDoes
    <2>2. Top'.members = Idle
      BY <1>1, <2>1, SetTopFacts DEF Refuses, Keeps
    <2> QED
      BY <1>1, <1>2, <2>2
  <1>5. CASE BeginStep
    <2>1. PICK f \in Frames : Keeps(f) /\ f.i = Top.i
      BY <1>1, <1>5, BeginStepDoes
    <2>2. Top' = f /\ f.steps = Top.steps
      BY <1>1, <2>1, SetTopFacts DEF Keeps
    <2>3. Step' = Step /\ Step.blocking
      BY <1>5, <2>1, <2>2 DEF Step, BeginStep
    <2> QED
      BY <1>1, <1>2, <2>3
  <1>6. CASE Setup
    <2>1. Top.i \in DOMAIN Top.steps /\ Step.blocking
      BY <1>1, <1>6, TopOK DEF Setup
    <2>2. PICK f \in Frames : Moves(f, Top.i)
      BY <1>1, <1>6, <2>1, SetupMoves
    <2>3. Top' = f /\ f.steps = Top.steps /\ f.i = Top.i
      BY <1>1, <2>2, SetTopFacts DEF Moves, Keeps
    <2>4. Step' = Step
      BY <2>3 DEF Step
    <2> QED
      BY <1>1, <1>2, <2>1, <2>4
  <1>7. CASE EndStep \/ StopStep \/ Join
    <2>1. Top.i \in DOMAIN Top.steps
      BY <1>1, <1>7, TopOK DEF EndStep, StopStep, Join
    <2>2. PICK f \in Frames : Keeps(f) /\ f.members = Idle
      BY <1>1, <1>7, <2>1, EndStepDoes, StopStepDoes, JoinDoes
    <2>3. Top'.members = Idle
      BY <1>1, <2>2, SetTopFacts DEF Keeps
    <2> QED
      BY <1>1, <1>2, <2>3
  <1>8. CASE BeginBatch
    <2>1. PICK f \in Frames :
             /\ Keeps(f) /\ f.docker = Top.docker /\ DOMAIN f.members = Batch
             /\ \A n \in Batch : f.members[n].env = env /\ f.members[n].docker = Top.docker
      BY <1>1, <1>8, BeginBatchDoes
    <2>2. Top' = f /\ env' = env
      BY <1>1, <1>8, <2>1, SetTopFacts DEF Keeps, BeginBatch
    <2> QED
      BY <2>1, <2>2 DEF MembersAreIsolated
  <1>9. CASE CallPackage
    <2>1. /\ Top.i \in DOMAIN Top.steps /\ Step.kind = "package"
      BY <1>9, CallingFacts DEF CallPackage
    <2>2. PICK f \in Frames, g \in Frames : Opens(f, g)
      BY <1>1, <1>9, <2>1, CallPackageDoes
    <2>3. Top'.members = Idle
      BY <1>1, <2>2, PushFacts DEF Opens
    <2> QED
      BY <1>1, <1>2, <2>3
  <1>10. CASE Teardown
    <2>1. PICK f \in Frames, g \in Frames : Opens(f, g)
      BY <1>1, <1>10, TeardownDoes
    <2>2. Top'.members = Idle
      BY <1>1, <2>1, PushFacts DEF Opens
    <2> QED
      BY <1>1, <1>2, <2>2
  <1>11. CASE Return
    <2>1. /\ Len(stack) > 1
          /\ \E f \in Frames :
                /\ stack' = SubSeq(stack, 1, Len(stack) - 2) \o <<f>>
                /\ f.steps = Caller.steps /\ f.i = Caller.i
                /\ Top.teardown => f.members = Caller.members
      BY <1>1, <1>11, ReturnDoes
    <2>2. PICK f \in Frames : /\ stack' = SubSeq(stack, 1, Len(stack) - 2) \o <<f>>
                              /\ f.steps = Caller.steps /\ f.i = Caller.i
                              /\ Top.teardown => f.members = Caller.members
      BY <2>1
    <2>3. Top' = f
      BY <1>1, <2>1, <2>2, PopFacts
    <2>4. Waits(Caller, Top)
      BY <1>1, <2>1, CallerFacts
    <2>5. Top'.members = Idle \/ Step'.blocking
      BY <2>2, <2>3, <2>4 DEF Waits, Step
    <2> QED
      BY <1>1, <1>2, <2>5
  <1>12. ASSUME NEW n \in DOMAIN Top.members,
                MemberStart(n) \/ MemberSetup(n) \/ Write(n) \/ Succeed(n) \/ Fail(n)
         PROVE  MembersAreIsolated'
    <2>1. n \in DOMAIN Top.steps /\ Top.members[n] \in Member /\ Top.steps[n] \in Declared
      BY <1>1, TopOK, TopMember
    <2>2. env' = env
      BY <1>12 DEF MemberStart, MemberSetup, Write, Succeed, Fail
    <2>3. CASE MemberStart(n)
      <3>1. PICK f \in Frames :
               /\ Moves(f, n) /\ f.docker = Top.docker
               /\ f.members[n].env = Over(Top.members[n].env, Top.steps[n].vars)
               /\ f.members[n].docker = Over(Top.members[n].docker, Top.steps[n].vars)
        BY <1>1, <2>1, <2>3, MemberStartMoves
      <3>2. \A k \in Keys :
               /\ f.members[n].env[k] \in {Top.members[n].env[k], Top.steps[n].vars[k]}
               /\ f.members[n].docker[k] \in {Top.members[n].docker[k], Top.steps[n].vars[k]}
        BY <3>1 DEF Over
      <3>3. \A k \in Keys :
               f.members[n].env[k] \in
                   {Top.members[n].env[k], Top.steps[n].vars[k], Top.steps[n].exports[k]}
        BY <3>2
      <3> QED
        BY <2>2, <3>1, <3>2, <3>3, IsolatedMoves, Zenon
    <2>4. CASE MemberSetup(n)
      <3>1. PICK f \in Frames :
               /\ Moves(f, n) /\ f.docker = Top.docker
               /\ f.members[n].env \in {Top.members[n].env,
                                        Exported(Top.members[n].env, Top.steps[n].exports)}
               /\ f.members[n].docker = Top.members[n].docker
        BY <1>1, <2>1, <2>4, MemberSetupMoves
      <3>2. \A k \in Keys :
               f.members[n].env[k] \in {Top.members[n].env[k], Top.steps[n].exports[k]}
        BY <3>1 DEF Exported
      <3>3. \A k \in Keys :
               /\ f.members[n].env[k] \in
                     {Top.members[n].env[k], Top.steps[n].vars[k], Top.steps[n].exports[k]}
               /\ f.members[n].docker[k] \in {Top.members[n].docker[k], Top.steps[n].vars[k]}
        BY <3>1, <3>2
      <3> QED
        BY <2>2, <3>1, <3>3, IsolatedMoves, Zenon
    <2>5. CASE Write(n) \/ Succeed(n) \/ Fail(n)
      <3>1. PICK f \in Frames :
               /\ Moves(f, n) /\ f.docker = Top.docker
               /\ f.members[n].env = Top.members[n].env
               /\ f.members[n].docker = Top.members[n].docker
        BY <1>1, <2>1, <2>5, WriteMoves, SucceedMoves, FailMoves
      <3> QED
        BY <2>2, <3>1, IsolatedMoves
    <2> QED
      BY <1>12, <2>3, <2>4, <2>5
  <1> QED
    BY <1>3, <1>4, <1>5, <1>6, <1>7, <1>8, <1>9, <1>10, <1>11, <1>12, NextIs

(* Whatever its siblings have done, an async member sees the environment   *)
(* of the last barrier, its own variables and what it exported itself.     *)
THEOREM Isolated == Spec => []MembersAreIsolated
  <1>1. Init => MembersAreIsolated
    <2> SUFFICES ASSUME Init
                 PROVE  MembersAreIsolated
      OBVIOUS
    <2>1. PICK w \in Workflows : stack = <<Call(w.steps, w.finally, FALSE)>>
      BY DEF Init
    <2>2. w \in Called
      BY DEF Called
    <2>3. PICK g : g = Call(w.steps, w.finally, FALSE)
      OBVIOUS
    <2>4. g.members = Idle
      BY <2>2, <2>3, CalledCall
    <2>5. Top = g
      BY <2>1, <2>3, OneInSeq DEF Top
    <2> QED
      BY <2>4, <2>5, ShapeInit, IsolatedAlone
  <1> QED
    BY <1>1, IsolatedStep, ShapeInvariant, BehindInvariant, PTL DEF Spec
-----------------------------------------------------------------------------
(* The error a run ends with.                                              *)

(* A failure is in the error of some call, and the first one, when it is   *)
(* an exit error, is all of the error of its call; the calls that wait for *)
(* that one have none yet.                                                 *)
Errors ==
    /\ failed = <<>> <=> \A c \in 1..Len(stack) : stack[c].err = <<>>
    /\ failed # <<>> /\ failed[1].exit =>
          \E c \in 1..Len(stack) :
              /\ stack[c].err = <<failed[1]>>
              /\ \A b \in 1..c - 1 : stack[b].err = <<>>

LEMMA FailedFacts ==
  ASSUME Typed, NEW x \in Failures, failed' = Append(failed, x)
  PROVE  /\ failed' # <<>>
         /\ failed = <<>> => failed'[1] = x
         /\ failed # <<>> => failed'[1] = failed[1] /\ failed[1] \in Failures
  <1>1. failed \in Seq(Failures)
    BY DEF Typed
  <1> HIDE DEF Failures
  <1> QED
    BY <1>1, AppendProperties

LEMMA ErrorsKeep ==
  ASSUME Typed, Errors, NEW f, Keeps(f), f.err = Top.err, failed' = failed
  PROVE  Errors'
  <1>1. /\ Len(stack) \in Nat \ {0} /\ Len(stack') = Len(stack)
        /\ \A c \in 1..Len(stack) - 1 : stack'[c] = stack[c]
        /\ stack'[Len(stack)] = f
    BY SetTopFacts, StackFacts DEF Keeps
  <1>2. \A c \in 1..Len(stack) : stack'[c].err = stack[c].err
    BY <1>1 DEF Top
  <1>3. \A c \in 1..Len(stack) : 1..c - 1 \subseteq 1..Len(stack)
    BY <1>1
  <1>4. (\A c \in 1..Len(stack') : stack'[c].err = <<>>) <=>
            \A c \in 1..Len(stack) : stack[c].err = <<>>
    BY <1>1, <1>2
  <1>5. ASSUME NEW c \in 1..Len(stack), \A b \in 1..c - 1 : stack[b].err = <<>>
        PROVE  \A b \in 1..c - 1 : stack'[b].err = <<>>
    BY <1>2, <1>3, <1>5
  <1>6. failed # <<>> /\ failed[1].exit =>
           \E c \in 1..Len(stack') :
              /\ stack'[c].err = <<failed'[1]>>
              /\ \A b \in 1..c - 1 : stack'[b].err = <<>>
    BY <1>1, <1>2, <1>5 DEF Errors
  <1> QED
    BY <1>4, <1>6 DEF Errors

LEMMA ErrorsFail ==
  ASSUME Typed, Errors, NEW f, NEW x \in Failures, Keeps(f), f.err = FirstError(Top.err, x),
         failed' = Append(failed, x)
  PROVE  Errors'
  <1>1. /\ Len(stack) \in Nat \ {0} /\ Len(stack') = Len(stack)
        /\ \A c \in 1..Len(stack) - 1 : stack'[c] = stack[c]
        /\ stack'[Len(stack)] = f
    BY SetTopFacts, StackFacts DEF Keeps
  <1>2. f.err # <<>> /\ (Top.err = <<>> => f.err = <<x>>) /\ (Top.err # <<>> => f.err = Top.err)
    BY OneInSeq DEF FirstError
  <1>3. /\ failed' # <<>>
        /\ failed = <<>> => failed'[1] = x
        /\ failed # <<>> => failed'[1] = failed[1]
    BY FailedFacts
  <1>4. Len(stack) \in 1..Len(stack) /\ Top = stack[Len(stack)]
    BY <1>1 DEF Top
  <1>5. ~ \A c \in 1..Len(stack') : stack'[c].err = <<>>
    BY <1>1, <1>2, <1>4
  <1>6. CASE failed = <<>>
    <2>1. \A c \in 1..Len(stack) : stack[c].err = <<>>
      BY <1>6 DEF Errors
    <2>2. f.err = <<failed'[1]>>
      BY <1>2, <1>3, <1>4, <1>6, <2>1
    <2>3. \A b \in 1..Len(stack) - 1 : stack'[b].err = <<>>
      BY <1>1, <2>1
    <2>4. \E c \in 1..Len(stack') :
             /\ stack'[c].err = <<failed'[1]>>
             /\ \A b \in 1..c - 1 : stack'[b].err = <<>>
      BY <1>1, <1>4, <2>2, <2>3
    <2> QED
      BY <1>3, <1>5, <2>4 DEF Errors
  <1>7. CASE failed # <<>> /\ failed[1].exit
    <2>1. PICK c \in 1..Len(stack) : /\ stack[c].err = <<failed[1]>>
                                     /\ \A b \in 1..c - 1 : stack[b].err = <<>>
      BY <1>7 DEF Errors
    <2>2. stack[c].err # <<>>
      BY <2>1
    <2>3. stack'[c].err = stack[c].err
      <3>1. c = Len(stack) \/ c \in 1..Len(stack) - 1
        BY <1>1
      <3>2. CASE c = Len(stack)
        BY <1>1, <1>2, <1>4, <2>2, <3>2
      <3> QED
        BY <1>1, <3>1, <3>2
    <2>4. ASSUME NEW b \in 1..c - 1
          PROVE  stack'[b].err = <<>>
      <3>1. b \in 1..Len(stack) - 1 /\ stack[b].err = <<>>
        BY <1>1, <2>1
      <3> QED
        BY <1>1, <3>1
    <2>5. stack'[c].err = <<failed'[1]>> /\ c \in 1..Len(stack')
      BY <1>1, <1>3, <1>7, <2>1, <2>3
    <2>6. \E d \in 1..Len(stack') :
             /\ stack'[d].err = <<failed'[1]>>
             /\ \A b \in 1..d - 1 : stack'[b].err = <<>>
      BY <2>4, <2>5
    <2> QED
      BY <1>3, <1>5, <1>7, <2>6 DEF Errors
  <1>8. CASE failed # <<>> /\ ~failed[1].exit
    BY <1>3, <1>5, <1>8 DEF Errors
  <1> QED
    BY <1>6, <1>7, <1>8

LEMMA ErrorsOpen ==
  ASSUME Typed, Errors, NEW f, NEW g, Opens(f, g), failed' = failed
  PROVE  Errors'
  <1>1. /\ Len(stack) \in Nat \ {0} /\ Len(stack') = Len(stack) + 1
        /\ \A c \in 1..Len(stack) - 1 : stack'[c] = stack[c]
        /\ stack'[Len(stack)] = f /\ stack'[Len(stack) + 1] = g
    BY PushFacts, StackFacts DEF Opens
  <1>2. f.err = Top.err /\ g.err = <<>>
    BY DEF Opens
  <1>3. \A c \in 1..Len(stack) : stack'[c].err = stack[c].err
    BY <1>1, <1>2 DEF Top
  <1>4. \A c \in 1..Len(stack') : c \in 1..Len(stack) \/ c = Len(stack) + 1
    BY <1>1
  <1>5. \A c \in 1..Len(stack) : c \in 1..Len(stack') /\ 1..c - 1 \subseteq 1..Len(stack)
    BY <1>1
  <1>6. (\A c \in 1..Len(stack') : stack'[c].err = <<>>) <=>
            \A c \in 1..Len(stack) : stack[c].err = <<>>
    BY <1>1, <1>2, <1>3, <1>4, <1>5
  <1> QED
    BY <1>3, <1>5, <1>6 DEF Errors

LEMMA ErrorsReturn ==
  ASSUME Shape, Errors, Return
  PROVE  Errors'
  <1>1. Typed /\ Calls
    BY DEF Shape
  <1>2. Len(stack) > 1 /\ failed' = failed
    BY <1>1, ReturnDoes DEF Return
  <1>3. PICK f \in Frames :
               /\ stack' = SubSeq(stack, 1, Len(stack) - 2) \o <<f>>
               /\ Top.teardown => f.err = Combined(Caller.err, Top.err)
               /\ ~Top.teardown => f.err = Top.err
    BY <1>1, ReturnDoes
  <1>4. /\ FrameOK(Caller) /\ Waits(Caller, Top) /\ Caller \in Frames /\ Top \in Frames
        /\ Len(stack) \in Nat \ {0}
    BY <1>1, <1>2, CallerFacts, StackFacts
  <1>5. Caller.err \in Seq(Failures) /\ Top.err \in Seq(Failures)
    BY <1>4, FrameFacts
  <1>6. ~Top.teardown => Caller.err = <<>>
    BY <1>4 DEF Waits, FrameOK
  <1>7. f.err = Combined(Caller.err, Top.err)
    BY <1>3, <1>5, <1>6, CombinedFacts
  <1>8. /\ f.err = <<>> <=> Caller.err = <<>> /\ Top.err = <<>>
        /\ Caller.err = <<>> => f.err = Top.err
        /\ \A x \in Failures : Caller.err = <<x>> /\ x.exit => f.err = <<x>>
    BY <1>5, <1>7, CombinedFacts
  <1>9. /\ Len(stack') = Len(stack) - 1
        /\ stack'[Len(stack) - 1] = f
        /\ \A c \in 1..Len(stack) - 2 : stack'[c] = stack[c]
    BY <1>1, <1>2, <1>3, PopFacts
  <1>10. PICK n \in Nat : n = Len(stack) /\ n > 1
    BY <1>2, <1>4
  <1>11. Top = stack[n] /\ Caller = stack[n - 1]
    BY <1>10 DEF Top, Caller
  <1>12. /\ \A c \in 1..n : c \in 1..n - 2 \/ c = n - 1 \/ c = n
         /\ \A c \in 1..n - 1 : c \in 1..n - 2 \/ c = n - 1
         /\ n \in 1..n /\ n - 1 \in 1..n /\ n - 1 \in 1..n - 1
         /\ \A c \in 1..n - 2 : c \in 1..n /\ c \in 1..n - 1
    BY <1>10
  <1>13. /\ Len(stack') = n - 1 /\ stack'[n - 1].err = f.err
         /\ \A c \in 1..n - 2 : stack'[c].err = stack[c].err
    BY <1>9, <1>10
  <1>14. (\A c \in 1..n - 1 : stack'[c].err = <<>>) <=> \A c \in 1..n : stack[c].err = <<>>
    <2>1. ASSUME \A c \in 1..n - 1 : stack'[c].err = <<>>
          PROVE  \A c \in 1..n : stack[c].err = <<>>
      <3>1. stack[n - 1].err = <<>> /\ stack[n].err = <<>>
        BY <1>8, <1>11, <1>12, <1>13, <2>1
      <3>2. \A c \in 1..n - 2 : stack[c].err = <<>>
        BY <1>12, <1>13, <2>1
      <3> QED
        BY <1>12, <3>1, <3>2
    <2>2. ASSUME \A c \in 1..n : stack[c].err = <<>>
          PROVE  \A c \in 1..n - 1 : stack'[c].err = <<>>
      <3>1. f.err = <<>>
        BY <1>8, <1>11, <1>12, <2>2
      <3>2. \A c \in 1..n - 2 : stack'[c].err = <<>>
        BY <1>12, <1>13, <2>2
      <3> QED
        BY <1>12, <1>13, <3>1, <3>2
    <2> QED
      BY <2>1, <2>2
  <1>15. ASSUME failed # <<>>, failed[1].exit
         PROVE  \E c \in 1..n - 1 :
                    /\ stack'[c].err = <<failed[1]>>
                    /\ \A b \in 1..c - 1 : stack'[b].err = <<>>
    <2>1. PICK c \in 1..n : /\ stack[c].err = <<failed[1]>>
                            /\ \A b \in 1..c - 1 : stack[b].err = <<>>
      BY <1>10, <1>15 DEF Errors
    <2>2. failed[1] \in Failures
      <3> HIDE DEF Failures
      <3> QED
        BY <1>1, <1>15 DEF Typed
    <2>3. CASE c \in 1..n - 2
      <3>1. \A b \in 1..c - 1 : b \in 1..n - 2
        BY <2>3
      <3>2. stack'[c].err = <<failed[1]>> /\ \A b \in 1..c - 1 : stack'[b].err = <<>>
        BY <1>13, <2>1, <2>3, <3>1
      <3> QED
        BY <1>12, <2>3, <3>2
    <2>4. CASE c = n - 1
      <3>1. f.err = <<failed[1]>>
        BY <1>8, <1>11, <1>15, <2>1, <2>2, <2>4
      <3>2. \A b \in 1..c - 1 : b \in 1..n - 2
        BY <2>4
      <3>3. stack'[c].err = <<failed[1]>> /\ \A b \in 1..c - 1 : stack'[b].err = <<>>
        BY <1>13, <2>1, <2>4, <3>1, <3>2
      <3> QED
        BY <1>12, <2>4, <3>3
    <2>5. CASE c = n
      <3>1. Caller.err = <<>>
        BY <1>10, <1>11, <2>1, <2>5
      <3>2. f.err = <<failed[1]>>
        BY <1>8, <1>11, <2>1, <2>5, <3>1
      <3>3. \A b \in 1..(n - 1) - 1 : b \in 1..n - 2 /\ b \in 1..c - 1
        BY <2>5
      <3>4. /\ stack'[n - 1].err = <<failed[1]>>
            /\ \A b \in 1..(n - 1) - 1 : stack'[b].err = <<>>
        BY <1>13, <2>1, <3>2, <3>3
      <3> QED
        BY <1>12, <3>4
    <2> QED
      BY <1>12, <2>3, <2>4, <2>5
  <1> QED
    BY <1>2, <1>10, <1>13, <1>14, <1>15 DEF Errors

LEMMA ErrorsStep == Shape /\ Errors /\ [Next]_vars => Errors'
  <1> SUFFICES ASSUME Shape, Errors, [Next]_vars
               PROVE  Errors'
    OBVIOUS
  <1>1. Typed /\ Calls
    BY DEF Shape
  <1>2. CASE UNCHANGED vars \/ End \/ Interrupt \/ Background
    <2>1. UNCHANGED <<failed, stack>>
      BY <1>2 DEF vars, End, Interrupt, Background
    <2> QED
      BY <2>1 DEF Errors
  <1>3. CASE RejectMounts \/ BatchFails
    <2>1. PICK f \in Frames, x \in Failures : Refuses(f, x)
      BY <1>1, <1>3, RejectMountsDoes, BatchFailsDoes
    <2>2. Top.err = <<>>
      BY <1>3 DEF RejectMounts, BatchFails, MoreSteps
    <2>3. f.err = FirstError(Top.err, x)
      BY <2>1, <2>2 DEF Refuses, FirstError
    <2> QED
      BY <1>1, <2>1, <2>3, ErrorsFail DEF Refuses
  <1>4. CASE BeginStep \/ BeginBatch \/ StopStep
    <2>1. PICK f \in Frames : Keeps(f) /\ f.err = Top.err
      BY <1>1, <1>4, BeginStepDoes, BeginBatchDoes, StopStepDoes
    <2>2. failed' = failed
      BY <1>4 DEF BeginStep, BeginBatch, StopStep
    <2> QED
      BY <1>1, <2>1, <2>2, ErrorsKeep
  <1>5. CASE Setup \/ EndStep \/ Join
    <2>1. Top.i \in DOMAIN Top.steps
      BY <1>1, <1>5, TopOK DEF Setup, EndStep, Join
    <2>2. PICK f \in Frames : Keeps(f) /\ f.err = Top.err
      BY <1>1, <1>5, <2>1, SetupMoves, EndStepDoes, JoinDoes DEF Moves
    <2>3. failed' = failed
      BY <1>5 DEF Setup, EndStep, Join
    <2> QED
      BY <1>1, <2>2, <2>3, ErrorsKeep
  <1>6. CASE CallPackage
    <2>1. /\ Top.i \in DOMAIN Top.steps /\ Step.kind = "package"
      BY <1>6, CallingFacts DEF CallPackage
    <2>2. PICK f \in Frames, g \in Frames : Opens(f, g)
      BY <1>1, <1>6, <2>1, CallPackageDoes
    <2>3. failed' = failed
      BY <1>6 DEF CallPackage
    <2> QED
      BY <1>1, <2>2, <2>3, ErrorsOpen
  <1>7. CASE Teardown
    <2>1. PICK f \in Frames, g \in Frames : Opens(f, g)
      BY <1>1, <1>7, TeardownDoes
    <2>2. failed' = failed
      BY <1>7 DEF Teardown
    <2> QED
      BY <1>1, <2>1, <2>2, ErrorsOpen
  <1>8. CASE Return
    BY <1>8, ErrorsReturn
  <1>9. ASSUME NEW n \in DOMAIN Top.members,
               MemberStart(n) \/ MemberSetup(n) \/ Write(n) \/ Succeed(n) \/ Fail(n)
        PROVE  Errors'
    <2>1. n \in DOMAIN Top.steps
      BY <1>1, TopOK
    <2>2. CASE MemberStart(n) \/ MemberSetup(n) \/ Write(n) \/ Succeed(n)
      <3>1. PICK f \in Frames : Moves(f, n) /\ f.err = Top.err
        BY <1>1, <2>1, <2>2, MemberStartMoves, MemberSetupMoves, WriteMoves, SucceedMoves
      <3>2. failed' = failed
        BY <2>2 DEF MemberStart, MemberSetup, Write, Succeed
      <3> QED
        BY <1>1, <3>1, <3>2, ErrorsKeep DEF Moves
    <2>3. CASE Fail(n)
      <3>1. PICK f \in Frames, x \in Failures :
               Moves(f, n) /\ f.err = FirstError(Top.err, x) /\ failed' = Append(failed, x)
        BY <1>1, <2>1, <2>3, FailMoves
      <3> QED
        BY <1>1, <3>1, ErrorsFail DEF Moves
    <2> QED
      BY <1>9, <2>2, <2>3
  <1> QED
    BY <1>2, <1>3, <1>4, <1>5, <1>6, <1>7, <1>8, <1>9, NextIs

(* One call, at rest, with no error: how a run begins.                     *)
LEMMA InitFacts ==
  ASSUME Init
  PROVE  /\ Len(stack) = 1 /\ stack[1] = Top
         /\ \E w \in Called : /\ w \in Workflows /\ Top.steps = w.steps
                              /\ Top.finally = w.finally
         /\ Top.members = Idle /\ Top.err = <<>> /\ Top.i = 1 /\ ~Top.teardown
  <1>1. PICK w \in Workflows : stack = <<Call(w.steps, w.finally, FALSE)>>
    BY DEF Init
  <1>2. w \in Called
    BY DEF Called
  <1>3. PICK g : g = Call(w.steps, w.finally, FALSE)
    OBVIOUS
  <1>4. /\ g.steps = w.steps /\ g.finally = w.finally /\ g.teardown = FALSE
        /\ g.i = 1 /\ g.err = <<>> /\ g.members = Idle
    BY <1>2, <1>3, CalledCall
  <1>5. Len(stack) = 1 /\ stack[1] = g /\ Top = g
    BY <1>1, <1>3, OneInSeq DEF Top
  <1> QED
    BY <1>2, <1>4, <1>5

LEMMA ErrorsInvariant == Spec => []Errors
  <1>1. Init => Errors
    <2> SUFFICES ASSUME Init
                 PROVE  Errors
      OBVIOUS
    <2>1. Len(stack) = 1 /\ stack[1].err = <<>> /\ failed = <<>>
      BY InitFacts DEF Init
    <2> QED
      BY <2>1 DEF Errors
  <1> QED
    BY <1>1, ErrorsStep, ShapeInvariant, PTL DEF Spec

(* A run returns with End.                                                 *)
LEMMA EndsWith ==
  ASSUME [Next]_vars, ~ (UNCHANGED vars), ~End, ~Background
  PROVE  outcome' \in {"running", "killed"}
  BY NextIs DEF RejectMounts, BeginStep, Setup, EndStep, StopStep, BeginBatch,
     BatchFails, Join, CallPackage, Teardown, Return, Interrupt, MemberStart,
     MemberSetup, Write, Succeed, Fail, AtRest, Running

(* A run ends well only if nothing failed, and otherwise with the exit     *)
(* code of the container that failed first: the error passes through the   *)
(* batch, the finally steps and every call on its way out unchanged.       *)
THEOREM FirstExitSurvives == Spec => []FirstExitCodeSurvives
  <1>1. Init => FirstExitCodeSurvives
    BY DEF Init, FirstExitCodeSurvives
  <1>2. Shape /\ Errors /\ FirstExitCodeSurvives /\ [Next]_vars => FirstExitCodeSurvives'
    <2> SUFFICES ASSUME Shape, Errors, FirstExitCodeSurvives, [Next]_vars
                 PROVE  FirstExitCodeSurvives'
      OBVIOUS
    <2>1. Typed
      BY DEF Shape
    <2>2. CASE UNCHANGED vars \/ Background
      BY <2>2 DEF vars, Background, FirstExitCodeSurvives
    <2>3. CASE End
      <3>1. /\ Len(stack) = 1 /\ failed' = failed
            /\ outcome' = IF Top.err = <<>> THEN "ok" ELSE "failed"
            /\ reported' = IF HasExit(Top.err) THEN ExitOf(Top.err) ELSE Top.err
        BY <2>3 DEF End
      <3>2. Top = stack[1] /\ Top.err \in Seq(Failures)
        BY <2>1, <3>1, StackFacts, FrameFacts DEF Top
      <3>3. outcome' = "ok" <=> failed' = <<>>
        BY <3>1, <3>2 DEF Errors
      <3>4. ASSUME failed # <<>>, failed[1].exit
            PROVE  reported' = <<failed[1]>>
        <4>1. Top.err = <<failed[1]>>
          BY <3>1, <3>2, <3>4 DEF Errors
        <4>2. Top.err[1] = failed[1] /\ 1 \in DOMAIN Top.err
          BY <4>1
        <4>3. HasExit(Top.err)
          BY <3>4, <4>2 DEF HasExit
        <4>4. ExitOf(Top.err) = <<Top.err[1]>>
          BY <3>2, <3>4, <4>2, <4>3, ExitOfFacts
        <4> QED
          BY <3>1, <4>2, <4>3, <4>4
      <3> QED
        BY <3>1, <3>3, <3>4 DEF FirstExitCodeSurvives
    <2>4. CASE ~ (UNCHANGED vars) /\ ~End /\ ~Background
      <3>1. outcome' \in {"running", "killed"}
        BY <2>4, EndsWith
      <3> QED
        BY <3>1 DEF FirstExitCodeSurvives
    <2> QED
      BY <2>2, <2>3, <2>4
  <1> QED
    BY <1>1, <1>2, ShapeInvariant, ErrorsInvariant, PTL DEF Spec
-----------------------------------------------------------------------------
(* Where the calls come from.                                              *)

(* Nothing is left to do in a call but its finally steps.                  *)
IsOver(f) == f.members = Idle /\ (f.err # <<>> \/ f.i > Len(f.steps))

(* A call runs the steps of a workflow and still has its finally steps, or *)
(* it is over; or it runs the finally steps for the call below it.         *)
Comes(c) ==
    \E w \in Called :
        IF stack[c].teardown
        THEN /\ c > 1 /\ w.finally # <<>>
             /\ stack[c].steps = w.finally /\ stack[c - 1].steps = w.steps
        ELSE /\ stack[c].steps = w.steps
             /\ \/ stack[c].finally = w.finally
                \/ stack[c].finally = <<>> /\ IsOver(stack[c])
Origin == \A c \in 1..Len(stack) : Comes(c)

(* What a call came from does not change with the calls above it.          *)
LEMMA ComesSame ==
  ASSUME NEW c \in Nat, Comes(c), stack'[c].steps = stack[c].steps,
         stack'[c].teardown = stack[c].teardown,
         c > 1 => stack'[c - 1].steps = stack[c - 1].steps,
         \/ stack'[c].finally = stack[c].finally /\ (IsOver(stack[c]) => IsOver(stack'[c]))
         \/ stack'[c].finally = <<>> /\ IsOver(stack'[c])
  PROVE  Comes(c)'
  BY DEF Comes, IsOver

LEMMA OriginKeep ==
  ASSUME Typed, Origin, NEW f, Keeps(f), ~IsOver(Top),
         f.finally = Top.finally \/ (f.finally = <<>> /\ IsOver(f))
  PROVE  Origin'
  <1>1. /\ Len(stack) \in Nat \ {0} /\ Len(stack') = Len(stack)
        /\ \A c \in 1..Len(stack) - 1 : stack'[c] = stack[c]
        /\ stack'[Len(stack)] = f
    BY SetTopFacts, StackFacts DEF Keeps
  <1>2. f.steps = Top.steps /\ f.teardown = Top.teardown /\ Top = stack[Len(stack)]
    BY DEF Keeps, Top
  <1>3. ASSUME NEW c \in 1..Len(stack)
        PROVE  Comes(c)'
    <2>1. Comes(c) /\ c \in Nat
      BY <1>1 DEF Origin
    <2>2. c > 1 => stack'[c - 1].steps = stack[c - 1].steps
      BY <1>1
    <2>3. CASE c \in 1..Len(stack) - 1
      BY <1>1, <2>1, <2>2, <2>3, ComesSame
    <2>4. CASE c = Len(stack)
      BY <1>1, <1>2, <2>1, <2>2, <2>4, ComesSame
    <2> QED
      BY <1>1, <2>3, <2>4
  <1> QED
    BY <1>1, <1>3 DEF Origin

(* A call is opened for a packaged step, or for the finally steps.         *)
LEMMA OriginOpen ==
  ASSUME Typed, Origin, NEW f, NEW g, Opens(f, g), NEW w \in Called,
         IF g.teardown
         THEN /\ f.finally = <<>> /\ IsOver(f) /\ Top.steps = w.steps
              /\ g.steps = w.finally /\ w.finally # <<>>
         ELSE f.finally = Top.finally /\ g.steps = w.steps /\ g.finally = w.finally
  PROVE  Origin'
  <1>1. /\ Len(stack) \in Nat \ {0} /\ Len(stack') = Len(stack) + 1
        /\ \A c \in 1..Len(stack) - 1 : stack'[c] = stack[c]
        /\ stack'[Len(stack)] = f /\ stack'[Len(stack) + 1] = g
    BY PushFacts, StackFacts DEF Opens
  <1>2. /\ f.steps = Top.steps /\ f.teardown = Top.teardown /\ Top = stack[Len(stack)]
        /\ f.i = Top.i /\ f.err = Top.err /\ f.members = Top.members
    BY DEF Opens, Top
  <1>3. IsOver(Top) => IsOver(f)
    BY <1>2 DEF IsOver
  <1>4. ASSUME NEW c \in 1..Len(stack)
        PROVE  Comes(c)'
    <2>1. Comes(c) /\ c \in Nat
      BY <1>1 DEF Origin
    <2>2. c > 1 => stack'[c - 1].steps = stack[c - 1].steps
      BY <1>1
    <2>3. CASE c \in 1..Len(stack) - 1
      BY <1>1, <2>1, <2>2, <2>3, ComesSame
    <2>4. CASE c = Len(stack)
      BY <1>1, <1>2, <1>3, <2>1, <2>2, <2>4, ComesSame
    <2> QED
      BY <1>1, <2>3, <2>4
  <1>5. ASSUME NEW c \in Nat, c = Len(stack) + 1
        PROVE  Comes(c)'
    <2>1. c > 1 /\ c - 1 = Len(stack)
      BY <1>1, <1>5
    <2>2. stack'[c] = g /\ stack'[c - 1].steps = Top.steps
      BY <1>1, <1>2, <1>5, <2>1
    <2> QED
      BY <2>1, <2>2 DEF Comes
  <1>6. \A c \in 1..Len(stack') : c \in Nat /\ (c \in 1..Len(stack) \/ c = Len(stack) + 1)
    BY <1>1
  <1> QED
    BY <1>4, <1>5, <1>6 DEF Origin

LEMMA OriginReturn ==
  ASSUME Shape, Origin, Return
  PROVE  Origin'
  <1>1. Typed /\ Calls
    BY DEF Shape
  <1>2. Len(stack) > 1
    BY <1>1, ReturnDoes
  <1>3. PICK f \in Frames :
               /\ stack' = SubSeq(stack, 1, Len(stack) - 2) \o <<f>>
               /\ f.steps = Caller.steps /\ f.finally = Caller.finally
               /\ f.teardown = Caller.teardown /\ f.i = Caller.i
               /\ Top.teardown =>
                     f.members = Caller.members /\ f.err = Combined(Caller.err, Top.err)
    BY <1>1, ReturnDoes
  <1>4. /\ Waits(Caller, Top) /\ Caller \in Frames /\ Top \in Frames
        /\ Len(stack) \in Nat \ {0}
    BY <1>1, <1>2, CallerFacts, StackFacts
  <1>5. IsOver(Caller) => IsOver(f)
    <2>1. Caller.err \in Seq(Failures) /\ Top.err \in Seq(Failures)
      BY <1>4, FrameFacts
    <2>2. Top.teardown => (f.err = <<>> => Caller.err = <<>>)
      BY <1>3, <2>1, CombinedFacts
    <2>3. ~Top.teardown => Caller.members # Idle
      BY <1>4 DEF Waits
    <2> QED
      BY <1>3, <2>2, <2>3 DEF IsOver
  <1>6. /\ Len(stack') = Len(stack) - 1
        /\ stack'[Len(stack) - 1] = f
        /\ \A c \in 1..Len(stack) - 2 : stack'[c] = stack[c]
    BY <1>1, <1>2, <1>3, PopFacts
  <1>7. Caller = stack[Len(stack) - 1]
    BY DEF Caller
  <1>8. ASSUME NEW c \in 1..Len(stack) - 1
        PROVE  Comes(c)'
    <2>1. Comes(c) /\ c \in Nat
      BY <1>4 DEF Origin
    <2>2. c > 1 => c - 1 \in 1..Len(stack) - 2
      BY <1>4
    <2>3. c > 1 => stack'[c - 1].steps = stack[c - 1].steps
      BY <1>6, <2>2
    <2>4. CASE c \in 1..Len(stack) - 2
      BY <1>6, <2>1, <2>3, <2>4, ComesSame
    <2>5. CASE c = Len(stack) - 1
      BY <1>3, <1>5, <1>6, <1>7, <2>1, <2>3, <2>5, ComesSame
    <2> QED
      BY <1>4, <2>4, <2>5
  <1> QED
    BY <1>6, <1>8 DEF Origin

LEMMA OriginStep == Shape /\ Origin /\ [Next]_vars => Origin'
  <1> SUFFICES ASSUME Shape, Origin, [Next]_vars
               PROVE  Origin'
    OBVIOUS
  <1>1. Typed /\ Calls
    BY DEF Shape
  <1>2. /\ Top.i \in Nat /\ Len(Top.steps) \in Nat
        /\ Top.members = Idle => DOMAIN Top.members = {}
    BY <1>1, StackFacts, FrameFacts, ListFacts, MembersAre
  <1>3. CASE UNCHANGED vars \/ End \/ Interrupt \/ Background
    <2>1. UNCHANGED stack
      BY <1>3 DEF vars, End, Interrupt, Background
    <2> QED
      BY <2>1 DEF Origin, Comes
  <1>4. CASE RejectMounts \/ BatchFails
    <2>1. PICK f \in Frames, x \in Failures :
             Refuses(f, x) /\ (f.finally = <<>> \/ f.finally = Top.finally)
      BY <1>1, <1>4, RejectMountsDoes, BatchFailsDoes
    <2>2. MoreSteps
      BY <1>4 DEF RejectMounts, BatchFails
    <2>3. ~IsOver(Top)
      BY <1>2, <2>2 DEF MoreSteps, IsOver
    <2>4. IsOver(f)
      BY <2>1, OneInSeq DEF Refuses, IsOver
    <2> QED
      BY <1>1, <2>1, <2>3, <2>4, OriginKeep DEF Refuses
  <1>5. CASE BeginStep \/ BeginBatch
    <2>1. PICK f \in Frames : Keeps(f) /\ f.finally = Top.finally
      BY <1>1, <1>5, BeginStepDoes, BeginBatchDoes
    <2>2. ~IsOver(Top)
      BY <1>2, <1>5 DEF BeginStep, BeginBatch, MoreSteps, IsOver
    <2> QED
      BY <1>1, <2>1, <2>2, OriginKeep
  <1>6. CASE Setup \/ EndStep \/ StopStep \/ Join
    <2>1. Top.i \in DOMAIN Top.steps /\ Top.members # Idle
      BY <1>1, <1>6, TopOK DEF Setup, EndStep, StopStep, Join
    <2>2. PICK f \in Frames : Keeps(f) /\ f.finally = Top.finally
      BY <1>1, <1>6, <2>1, SetupMoves, EndStepDoes, StopStepDoes, JoinDoes DEF Moves
    <2>3. ~IsOver(Top)
      BY <2>1 DEF IsOver
    <2> QED
      BY <1>1, <2>2, <2>3, OriginKeep
  <1>7. CASE CallPackage
    <2>1. /\ Top.i \in DOMAIN Top.steps /\ Step.kind = "package"
      BY <1>7, CallingFacts DEF CallPackage
    <2>2. PICK f \in Frames, g \in Frames, w \in Called :
               /\ Opens(f, g) /\ f.finally = Top.finally
               /\ g.steps = w.steps /\ g.finally = w.finally /\ ~g.teardown
      BY <1>1, <1>7, <2>1, CallPackageDoes
    <2> QED
      BY <1>1, <2>2, OriginOpen
  <1>8. CASE Teardown
    <2>1. PICK f \in Frames, g \in Frames :
               /\ Opens(f, g) /\ f.finally = <<>> /\ Top.finally # <<>>
               /\ g.steps = Top.finally /\ g.finally = <<>> /\ g.teardown
               /\ Top.members = Idle /\ ~MoreSteps
      BY <1>1, <1>8, TeardownDoes
    <2>2. IsOver(f)
      BY <1>2, <2>1 DEF IsOver, Opens, MoreSteps
    <2>3. ~Top.teardown
      BY <1>1, <2>1, TopOK DEF FrameOK
    <2>4. Comes(Len(stack))
      BY <1>1, StackFacts DEF Origin
    <2>5. PICK w \in Called : Top.steps = w.steps /\ Top.finally = w.finally
      BY <2>1, <2>3, <2>4 DEF Comes, Top
    <2> QED
      BY <1>1, <2>1, <2>2, <2>5, OriginOpen
  <1>9. CASE Return
    BY <1>9, OriginReturn
  <1>10. ASSUME NEW n \in DOMAIN Top.members,
               MemberStart(n) \/ MemberSetup(n) \/ Write(n) \/ Succeed(n) \/ Fail(n)
        PROVE  Origin'
    <2>1. n \in DOMAIN Top.steps
      BY <1>1, TopOK
    <2>2. PICK f \in Frames : Moves(f, n)
      BY <1>1, <1>10, <2>1, MemberStartMoves, MemberSetupMoves, WriteMoves, SucceedMoves,
         FailMoves
    <2>3. ~IsOver(Top)
      BY <1>2 DEF IsOver
    <2> QED
      BY <1>1, <2>2, <2>3, OriginKeep DEF Moves
  <1> QED
    BY <1>3, <1>4, <1>5, <1>6, <1>7, <1>8, <1>9, <1>10, NextIs

LEMMA OriginInvariant == Spec => []Origin
  <1>1. Init => Origin
    <2> SUFFICES ASSUME Init
                 PROVE  Origin
      OBVIOUS
    <2>1. PICK w \in Called : Top.steps = w.steps /\ Top.finally = w.finally
      BY InitFacts
    <2>2. Len(stack) = 1 /\ stack[1] = Top /\ ~Top.teardown
      BY InitFacts
    <2>3. Comes(1)
      BY <2>1, <2>2 DEF Comes
    <2> QED
      BY <2>2, <2>3 DEF Origin
  <1> QED
    BY <1>1, OriginStep, ShapeInvariant, PTL DEF Spec
-----------------------------------------------------------------------------
(* What runs is waited for.                                                *)

(* Every process waited for is that of a member of the innermost call.     *)
Awaited ==
    \A id \in live : \E n \in DOMAIN Top.members :
        Top.members[n].at = "running" /\ Top.steps[n].id = id

LEMMA NoneLive ==
  ASSUME Awaited, \A n \in DOMAIN Top.members : Top.members[n].at # "running"
  PROVE  live = {}
  BY DEF Awaited

(* A member that moves starts a process, goes on, or ends its process.     *)
LEMMA AwaitedMoves ==
  ASSUME Typed, Awaited, NEW f, NEW n, Moves(f, n),
         \/ /\ f.members[n].at = "running"
            /\ live' \subseteq live \cup {Top.steps[n].id}
         \/ Top.members[n].at # "running" /\ live' \subseteq live
         \/ live' = live \ {Top.steps[n].id}
  PROVE  Awaited'
  <1>1. Top' = f
    BY SetTopFacts DEF Moves, Keeps
  <1>2. /\ DOMAIN f.members = DOMAIN Top.members /\ n \in DOMAIN Top.members
        /\ f.steps = Top.steps
        /\ \A k \in DOMAIN Top.members : k # n => f.members[k] = Top.members[k]
    BY DEF Moves, Keeps
  <1>3. ASSUME NEW id \in live'
        PROVE  \E k \in DOMAIN f.members : f.members[k].at = "running" /\ f.steps[k].id = id
    <2>1. CASE f.members[n].at = "running" /\ id = Top.steps[n].id
      BY <1>2, <2>1
    <2>2. CASE id \in live /\ ~ (f.members[n].at = "running" /\ id = Top.steps[n].id)
      <3>1. PICK k \in DOMAIN Top.members :
               Top.members[k].at = "running" /\ Top.steps[k].id = id
        BY <2>2 DEF Awaited
      <3>2. k # n
        BY <1>3, <2>2, <3>1
      <3> QED
        BY <1>2, <3>1, <3>2
    <2> QED
      BY <1>3, <2>1, <2>2
  <1> QED
    BY <1>1, <1>3 DEF Awaited

LEMMA AwaitedStep == Shape /\ Awaited /\ [Next]_vars => Awaited'
  <1> SUFFICES ASSUME Shape, Awaited, [Next]_vars
               PROVE  Awaited'
    OBVIOUS
  <1>1. Typed /\ Calls
    BY DEF Shape
  <1>2. /\ FrameOK(Top)
        /\ Top.members = Idle => DOMAIN Top.members = {}
    BY <1>1, StackFacts, FrameFacts, MembersAre, TopOK
  <1>3. CASE UNCHANGED vars \/ End \/ Interrupt \/ Background
    <2>1. UNCHANGED <<stack, live>>
      BY <1>3 DEF vars, End, Interrupt, Background
    <2> QED
      BY <2>1 DEF Awaited, Top
  <1>4. CASE RejectMounts \/ BeginStep \/ BeginBatch \/ BatchFails \/ Teardown \/ Return
    <2>1. Top.members = Idle /\ live' = live
      BY <1>4 DEF RejectMounts, BeginStep, BeginBatch, BatchFails, Teardown, Return, AtRest
    <2>2. live' = {}
      BY <1>2, <2>1, NoneLive
    <2> QED
      BY <2>2 DEF Awaited
  <1>5. CASE EndStep \/ StopStep \/ CallPackage
    <2>1. /\ Top.i \in DOMAIN Top.members /\ live' = live
          /\ Top.members[Top.i].at \in {"ok", "failed", "calling"}
      BY <1>5 DEF EndStep, StopStep, CallPackage
    <2>2. Top.members # Idle
      BY <1>2, <2>1
    <2>3. Step.blocking
      BY <1>2, <1>5, <2>1, <2>2 DEF EndStep, StopStep, CallPackage, FrameOK, Step
    <2>4. \A n \in DOMAIN Top.members : n = Top.i
      BY <1>2, <2>2, <2>3 DEF FrameOK, Step
    <2>5. live' = {}
      BY <2>1, <2>4, NoneLive
    <2> QED
      BY <2>5 DEF Awaited
  <1>6. CASE Join
    <2>1. live' = live /\ \A n \in DOMAIN Top.members : Top.members[n].at \in {"ok", "failed"}
      BY <1>6 DEF Join, Finished
    <2>2. live' = {}
      BY <2>1, NoneLive
    <2> QED
      BY <2>2 DEF Awaited
  <1>7. CASE Setup
    <2>1. Top.i \in DOMAIN Top.steps
      BY <1>1, <1>7, TopOK DEF Setup
    <2>2. PICK f \in Frames :
             /\ Moves(f, Top.i) /\ Top.members[Top.i].at = "setup"
             /\ f.members[Top.i].at = IF Step.kind = "package" THEN "calling" ELSE "running"
      BY <1>1, <1>7, <2>1, SetupMoves
    <2>3. live' = IF Step.kind = "package" THEN live ELSE live \cup {Top.steps[Top.i].id}
      BY <1>7 DEF Setup, Step
    <2> QED
      BY <1>1, <2>2, <2>3, AwaitedMoves
  <1>8. ASSUME NEW n \in DOMAIN Top.members,
               MemberStart(n) \/ MemberSetup(n) \/ Write(n) \/ Succeed(n) \/ Fail(n)
        PROVE  Awaited'
    <2>1. n \in DOMAIN Top.steps
      BY <1>1, TopOK
    <2>2. CASE MemberStart(n)
      <3>1. PICK f \in Frames : Moves(f, n) /\ Top.members[n].at = "new"
        BY <1>1, <2>1, <2>2, MemberStartMoves
      <3>2. live' = live
        BY <2>2 DEF MemberStart
      <3> QED
        BY <1>1, <3>1, <3>2, AwaitedMoves
    <2>3. CASE MemberSetup(n)
      <3>1. PICK f \in Frames : Moves(f, n) /\ f.members[n].at = "running"
        BY <1>1, <2>1, <2>3, MemberSetupMoves
      <3>2. live' = live \cup {Top.steps[n].id}
        BY <2>3 DEF MemberSetup
      <3> QED
        BY <1>1, <3>1, <3>2, AwaitedMoves
    <2>4. CASE Write(n)
      <3>1. PICK f \in Frames : Moves(f, n) /\ f.members[n].at = "running"
        BY <1>1, <2>1, <2>4, WriteMoves
      <3>2. live' = live
        BY <2>4 DEF Write
      <3> QED
        BY <1>1, <3>1, <3>2, AwaitedMoves
    <2>5. CASE Succeed(n) \/ Fail(n)
      <3>1. PICK f \in Frames : Moves(f, n)
        BY <1>1, <2>1, <2>5, SucceedMoves, FailMoves
      <3>2. live' = live \ {Top.steps[n].id}
        BY <2>5 DEF Succeed, Fail
      <3> QED
        BY <1>1, <3>1, <3>2, AwaitedMoves
    <2> QED
      BY <1>8, <2>2, <2>3, <2>4, <2>5
  <1> QED
    BY <1>3, <1>4, <1>5, <1>6, <1>7, <1>8, NextIs

(* Every process that the runner waits for is that of a step in the        *)
(* innermost call: no call begins, returns or ends before these have       *)
(* ended.  Other processes there are only when the user said --detach:     *)
(* containers, which no call waits for.                                    *)
THEOREM ProcessesAwaited == Spec => [](Awaited /\ OnlyDetached)
  <1>1. Init => Awaited
    BY DEF Init, Awaited
  <1>2. Behind => OnlyDetached
    BY DEF Behind
  <1> QED
    BY <1>1, <1>2, AwaitedStep, ShapeInvariant, BehindInvariant, PTL DEF Spec

(* The finally steps, when none of them is a packaged workflow, are the    *)
(* innermost call.                                                         *)
TeardownIsLast == \A c \in 1..Len(stack) : stack[c].teardown => c = Len(stack)

LEMMA LastStep == NamesApart /\ Shape /\ Origin /\ TeardownIsLast /\ [Next]_vars => TeardownIsLast'
  <1> SUFFICES ASSUME NamesApart, Shape, Origin, TeardownIsLast, [Next]_vars
               PROVE  TeardownIsLast'
    OBVIOUS
  <1>1. Typed /\ Calls
    BY DEF Shape
  <1>2. Len(stack) \in Nat \ {0} /\ Top = stack[Len(stack)]
    BY <1>1, StackFacts DEF Top
  <1>3. CASE UNCHANGED vars \/ End \/ Interrupt \/ Background
    <2>1. UNCHANGED stack
      BY <1>3 DEF vars, End, Interrupt, Background
    <2> QED
      BY <2>1 DEF TeardownIsLast
  <1>4. ASSUME NEW f, Keeps(f)
        PROVE  TeardownIsLast'
    <2>1. /\ Len(stack') = Len(stack) /\ stack'[Len(stack)] = f
          /\ \A c \in 1..Len(stack) - 1 : stack'[c] = stack[c]
      BY <1>1, <1>4, SetTopFacts DEF Keeps
    <2> QED
      BY <1>2, <2>1 DEF TeardownIsLast
  <1>5. ASSUME NEW f, NEW g, Opens(f, g), ~Top.teardown
        PROVE  TeardownIsLast'
    <2>1. /\ Len(stack') = Len(stack) + 1 /\ stack'[Len(stack)] = f
          /\ \A c \in 1..Len(stack) - 1 : stack'[c] = stack[c]
      BY <1>1, <1>5, PushFacts DEF Opens
    <2>2. ~f.teardown
      BY <1>5 DEF Opens
    <2>3. \A c \in 1..Len(stack) - 1 : ~stack[c].teardown
      BY <1>2 DEF TeardownIsLast
    <2> QED
      BY <1>2, <2>1, <2>2, <2>3 DEF TeardownIsLast
  <1>6. CASE RejectMounts \/ BeginStep \/ BeginBatch \/ BatchFails \/ StopStep
    <2>1. \E f \in Frames : Keeps(f)
      BY <1>1, <1>6, RejectMountsDoes, BatchFailsDoes, BeginStepDoes, BeginBatchDoes,
         StopStepDoes DEF Refuses
    <2> QED
      BY <1>4, <2>1
  <1>7. CASE Setup \/ EndStep \/ Join
    <2>1. Top.i \in DOMAIN Top.steps
      BY <1>1, <1>7, TopOK DEF Setup, EndStep, Join
    <2>2. \E f \in Frames : Keeps(f)
      BY <1>1, <1>7, <2>1, SetupMoves, EndStepDoes, JoinDoes DEF Moves
    <2> QED
      BY <1>4, <2>2
  <1>8. CASE CallPackage
    <2>1. Top.i \in DOMAIN Top.steps /\ Step.kind = "package"
      BY <1>8, CallingFacts DEF CallPackage
    <2>2. PICK f \in Frames, g \in Frames : Opens(f, g)
      BY <1>1, <1>8, <2>1, CallPackageDoes
    <2>3. ~Top.teardown
      BY <1>2, <2>1 DEF Origin, Comes, NamesApart, Step
    <2> QED
      BY <1>5, <2>2, <2>3
  <1>9. CASE Teardown
    <2>1. PICK f \in Frames, g \in Frames : Opens(f, g) /\ Top.finally # <<>>
      BY <1>1, <1>9, TeardownDoes
    <2>2. ~Top.teardown
      BY <1>1, <2>1, TopOK DEF FrameOK
    <2> QED
      BY <1>5, <2>1, <2>2
  <1>10. CASE Return
    <2>1. Len(stack) > 1
      BY <1>1, <1>10, ReturnDoes
    <2>2. PICK f \in Frames : /\ stack' = SubSeq(stack, 1, Len(stack) - 2) \o <<f>>
                              /\ f.teardown = Caller.teardown
      BY <1>1, <1>10, ReturnDoes
    <2>3. /\ Len(stack') = Len(stack) - 1 /\ stack'[Len(stack) - 1] = f
          /\ \A c \in 1..Len(stack) - 2 : stack'[c] = stack[c]
      BY <1>1, <2>1, <2>2, PopFacts
    <2> QED
      BY <1>2, <2>1, <2>3 DEF TeardownIsLast
  <1>11. ASSUME NEW n \in DOMAIN Top.members,
                MemberStart(n) \/ MemberSetup(n) \/ Write(n) \/ Succeed(n) \/ Fail(n)
         PROVE  TeardownIsLast'
    <2>1. n \in DOMAIN Top.steps
      BY <1>1, TopOK
    <2>2. \E f \in Frames : Keeps(f)
      BY <1>1, <1>11, <2>1, MemberStartMoves, MemberSetupMoves, WriteMoves, SucceedMoves,
         FailMoves DEF Moves
    <2> QED
      BY <1>4, <2>2
  <1> QED
    BY <1>3, <1>6, <1>7, <1>8, <1>9, <1>10, <1>11, NextIs

(* No process of a workflow is left while its finally steps run, for       *)
(* workflows whose steps and finally steps have different names and whose  *)
(* finally steps call no packaged workflow; but for containers, when the   *)
(* user said --detach.                                                     *)
THEOREM TeardownAfterSteps == NamesApart => (Spec => []TeardownWaits)
  <1> SUFFICES ASSUME NamesApart
               PROVE  Spec => []TeardownWaits
    OBVIOUS
  <1>1. Init => TeardownIsLast
    <2> SUFFICES ASSUME Init
                 PROVE  TeardownIsLast
      OBVIOUS
    <2>1. Len(stack) = 1
      BY InitFacts
    <2> QED
      BY <2>1 DEF TeardownIsLast
  <1>2. Shape /\ Origin /\ TeardownIsLast /\ [Next]_vars => TeardownIsLast'
    BY LastStep
  <1>3. OnlyDetached => (Remaining # {} => detach)
    BY DEF Remaining, OnlyDetached
  <1>4. Shape /\ Origin /\ Awaited /\ OnlyDetached /\ TeardownIsLast => TeardownWaits
    <2> SUFFICES ASSUME Shape, Origin, Awaited, TeardownIsLast, NEW c \in DOMAIN stack,
                        stack[c].teardown, NEW n \in DOMAIN stack[c - 1].steps,
                        stack[c - 1].steps[n].id \in live
                 PROVE  FALSE
      BY <1>3 DEF TeardownWaits
    <2>1. Typed /\ Calls
      BY DEF Shape
    <2>2. c = Len(stack) /\ c \in 1..Len(stack)
      BY <2>1, StackFacts DEF TeardownIsLast
    <2>3. PICK w \in Called : Top.steps = w.finally /\ stack[c - 1].steps = w.steps
      BY <2>2 DEF Origin, Comes, Top
    <2>4. PICK k \in DOMAIN Top.members : Top.steps[k].id = stack[c - 1].steps[n].id
      BY DEF Awaited
    <2>5. k \in DOMAIN Top.steps
      BY <2>1, TopOK
    <2> QED
      BY <2>3, <2>4, <2>5 DEF NamesApart
  <1> QED
    BY <1>1, <1>2, <1>4, OriginInvariant, ShapeInvariant, ProcessesAwaited, PTL DEF Spec
-----------------------------------------------------------------------------
(* Workflows that began a step are torn down.                              *)

(* The first of the finally steps has begun or has failed.                 *)
Down(id) == id \in began \/ \E n \in DOMAIN failed : failed[n].id = id
Begun(w) == \E n \in DOMAIN w.steps : w.steps[n].id \in began

(* A call that has come to something will begin the finally step id; a     *)
(* call that runs the finally steps has not begun its first one.           *)
Owes(f, id) ==
    IF f.teardown
    THEN /\ f.steps # <<>> /\ f.steps[1].id = id /\ f.i = 1
         /\ f.members = Idle => f.err = <<>>
         /\ f.members # Idle => f.members[1].at = "new"
    ELSE /\ f.finally # <<>> /\ f.finally[1].id = id
         /\ f.i > 1 \/ f.members # Idle \/ f.err # <<>>

Owed ==
    \A w \in Called :
        Begun(w) /\ w.finally # <<>> =>
            \/ Down(w.finally[1].id)
            \/ \E c \in 1..Len(stack) : Owes(stack[c], w.finally[1].id)

LEMMA DownStays ==
  ASSUME Typed, NEW id, Down(id), began \subseteq began',
         failed' = failed \/ \E x \in Failures : failed' = Append(failed, x)
  PROVE  Down(id)'
  <1>1. failed \in Seq(Failures)
    BY DEF Typed
  <1> HIDE DEF Failures
  <1>2. \A n \in DOMAIN failed : n \in DOMAIN failed' /\ failed'[n] = failed[n]
    BY <1>1, AppendProperties
  <1> QED
    BY <1>2 DEF Down

LEMMA DownFails ==
  ASSUME Typed, NEW x \in Failures, failed' = Append(failed, x)
  PROVE  Down(x.id)'
  <1>1. failed \in Seq(Failures)
    BY DEF Typed
  <1>2. Len(failed) + 1 \in DOMAIN failed' /\ failed'[Len(failed) + 1] = x
    <2> HIDE DEF Failures
    <2> QED
      BY <1>1, AppendProperties
  <1> QED
    BY <1>2 DEF Down

(* The innermost call changes: what it owed it still owes or has done, and *)
(* what began owes.                                                        *)
LEMMA OwedKeep ==
  ASSUME Typed, Owed, NEW f, Keeps(f), began \subseteq began',
         failed' = failed \/ \E x \in Failures : failed' = Append(failed, x),
         \A id : Owes(Top, id) => Owes(f, id) \/ Down(id)',
         \A w \in Called : Begun(w)' /\ w.finally # <<>> =>
                               Begun(w) \/ Owes(f, w.finally[1].id)
  PROVE  Owed'
  <1>1. /\ Len(stack) \in Nat \ {0} /\ Len(stack') = Len(stack)
        /\ \A c \in 1..Len(stack) - 1 : stack'[c] = stack[c]
        /\ stack'[Len(stack)] = f /\ Top = stack[Len(stack)]
    BY SetTopFacts, StackFacts DEF Keeps, Top
  <1>2. ASSUME NEW w \in Called, Begun(w)', w.finally # <<>>, ~Down(w.finally[1].id)'
        PROVE  \E c \in 1..Len(stack') : Owes(stack'[c], w.finally[1].id)
    <2>1. PICK id : id = w.finally[1].id
      OBVIOUS
    <2>2. CASE Owes(f, id)
      BY <1>1, <2>1, <2>2
    <2>3. CASE Begun(w)
      <3>1. ~Down(id)
        BY <1>2, <2>1, DownStays
      <3>2. PICK c \in 1..Len(stack) : Owes(stack[c], id)
        BY <1>2, <2>1, <2>3, <3>1 DEF Owed
      <3>3. CASE c = Len(stack)
        BY <1>1, <1>2, <2>1, <3>2, <3>3
      <3>4. CASE c \in 1..Len(stack) - 1
        BY <1>1, <2>1, <3>2, <3>4
      <3> QED
        BY <1>1, <3>3, <3>4
    <2> QED
      BY <1>2, <2>1, <2>2, <2>3
  <1> QED
    BY <1>2 DEF Owed

LEMMA OwedOpen ==
  ASSUME Typed, Owed, NEW f, NEW g, Opens(f, g), began' = began, failed' = failed,
         \A id : Owes(Top, id) => Owes(f, id) \/ Owes(g, id)
  PROVE  Owed'
  <1>1. /\ Len(stack) \in Nat \ {0} /\ Len(stack') = Len(stack) + 1
        /\ \A c \in 1..Len(stack) - 1 : stack'[c] = stack[c]
        /\ stack'[Len(stack)] = f /\ stack'[Len(stack) + 1] = g /\ Top = stack[Len(stack)]
    BY PushFacts, StackFacts DEF Opens, Top
  <1>2. \A id : Down(id)' = Down(id)
    BY DEF Down
  <1>3. \A w \in Called : Begun(w)' = Begun(w)
    BY DEF Begun
  <1>4. ASSUME NEW id, NEW c \in 1..Len(stack), Owes(stack[c], id)
        PROVE  \E b \in 1..Len(stack') : Owes(stack'[b], id)
    <2>1. CASE c = Len(stack)
      BY <1>1, <1>4, <2>1
    <2>2. CASE c \in 1..Len(stack) - 1
      BY <1>1, <1>4, <2>2
    <2> QED
      BY <1>1, <2>1, <2>2
  <1> QED
    BY <1>2, <1>3, <1>4 DEF Owed

LEMMA OwedReturn ==
  ASSUME Shape, Origin, Owed, Return
  PROVE  Owed'
  <1>1. Typed /\ Calls
    BY DEF Shape
  <1>2. /\ Len(stack) > 1 /\ Top.members = Idle /\ ~MoreSteps /\ Top.finally = <<>>
        /\ began' = began /\ failed' = failed
    BY <1>1, ReturnDoes DEF Return
  <1>3. PICK f \in Frames :
               /\ stack' = SubSeq(stack, 1, Len(stack) - 2) \o <<f>>
               /\ f.steps = Caller.steps /\ f.finally = Caller.finally
               /\ f.teardown = Caller.teardown /\ f.i = Caller.i
               /\ Top.teardown =>
                     f.members = Caller.members /\ f.err = Combined(Caller.err, Top.err)
               /\ ~Top.teardown =>
                     /\ DOMAIN f.members = DOMAIN Caller.members
                     /\ Caller.i \in DOMAIN Caller.members
    BY <1>1, ReturnDoes
  <1>4. /\ Waits(Caller, Top) /\ Caller \in Frames /\ Top \in Frames /\ FrameOK(Caller)
        /\ Len(stack) \in Nat \ {0}
    BY <1>1, <1>2, CallerFacts, StackFacts
  <1>5. /\ Caller.err \in Seq(Failures) /\ Top.err \in Seq(Failures)
        /\ Top.steps \in Lists /\ Top.i \in Nat /\ Caller.steps \in Lists
        /\ f.members = Idle => DOMAIN f.members = {}
    BY <1>3, <1>4, FrameFacts, MembersAre
  <1>6. /\ Top.steps # <<>> => Len(Top.steps) >= 1
        /\ Caller.steps # <<>> => Len(Caller.steps) >= 1
    <2>1. Top.steps \in Seq(Declared) /\ Caller.steps \in Seq(Declared)
      BY <1>5, ListFacts
    <2> HIDE DEF Declared
    <2> QED
      BY <2>1
  <1>7. ASSUME NEW id, Owes(Top, id)
        PROVE  FALSE
    BY <1>2, <1>5, <1>6, <1>7, ListFacts DEF Owes, MoreSteps
  <1>8. ASSUME NEW id, Owes(Caller, id)
        PROVE  Owes(f, id)
    <2>1. Caller.teardown => FALSE
      BY <1>4, <1>6, <1>8 DEF Owes, Waits
    <2>2. CASE Top.teardown
      <3>1. f.err = <<>> => Caller.err = <<>>
        BY <1>3, <1>5, <2>2, CombinedFacts
      <3> QED
        BY <1>3, <1>8, <2>1, <2>2, <3>1 DEF Owes
    <2>3. CASE ~Top.teardown
      <3>1. f.members # Idle
        BY <1>3, <1>5, <2>3
      <3> QED
        BY <1>3, <1>8, <2>1, <3>1 DEF Owes
    <2> QED
      BY <2>2, <2>3
  <1>9. /\ Len(stack') = Len(stack) - 1
        /\ stack'[Len(stack) - 1] = f
        /\ \A c \in 1..Len(stack) - 2 : stack'[c] = stack[c]
    BY <1>1, <1>2, <1>3, PopFacts
  <1>10. Top = stack[Len(stack)] /\ Caller = stack[Len(stack) - 1]
    BY DEF Top, Caller
  <1>11. ASSUME NEW id, NEW c \in 1..Len(stack), Owes(stack[c], id)
         PROVE  \E b \in 1..Len(stack') : Owes(stack'[b], id)
    <2>1. c # Len(stack)
      BY <1>7, <1>10, <1>11
    <2>2. CASE c = Len(stack) - 1
      <3>1. Owes(f, id)
        BY <1>8, <1>10, <1>11, <2>2
      <3>2. Len(stack) - 1 \in 1..Len(stack')
        BY <1>2, <1>4, <1>9
      <3> QED
        BY <1>9, <3>1, <3>2
    <2>3. CASE c \in 1..Len(stack) - 2
      <3>1. c \in 1..Len(stack')
        BY <1>4, <1>9, <2>3
      <3> QED
        BY <1>9, <1>11, <2>3, <3>1
    <2> QED
      BY <1>4, <2>1, <2>2, <2>3
  <1>12. \A id : Down(id)' = Down(id)
    BY <1>2 DEF Down
  <1>13. \A w \in Called : Begun(w)' = Begun(w)
    BY <1>2 DEF Begun
  <1> QED
    BY <1>11, <1>12, <1>13 DEF Owed

(* A step begins in a call: the workflows that have a step of its name     *)
(* have this call's teardown ahead of them.                                *)
LEMMA BegunOwes ==
  ASSUME TeardownsAgree, Shape, Origin, ~IsOver(Top), NEW n \in DOMAIN Top.steps,
         began' = began \cup {Top.steps[n].id}, NEW f, Keeps(f), f.finally = Top.finally,
         f.members # Idle,
         NEW w \in Called, Begun(w)', w.finally # <<>>, ~Begun(w)
  PROVE  Owes(f, w.finally[1].id)
  <1>1. Typed /\ Calls
    BY DEF Shape
  <1>2. Comes(Len(stack))
    BY <1>1, StackFacts DEF Origin
  <1>3. PICK m \in DOMAIN w.steps : w.steps[m].id = Top.steps[n].id
    BY DEF Begun
  <1>4. PICK v \in Called :
          IF Top.teardown THEN Top.steps = v.finally
          ELSE Top.steps = v.steps /\ Top.finally = v.finally
    BY <1>2 DEF Comes, Top
  <1>5. ~Top.teardown
    BY <1>3, <1>4 DEF TeardownsAgree
  <1>6. v.finally # <<>> /\ v.finally[1].id = w.finally[1].id
    BY <1>3, <1>4, <1>5 DEF TeardownsAgree
  <1> QED
    BY <1>4, <1>5, <1>6 DEF Owes, Keeps

LEMMA OwedStep ==
  TeardownsAgree /\ Shape /\ Origin /\ Owed /\ [Next]_vars => Owed'
  <1> SUFFICES ASSUME TeardownsAgree, Shape, Origin, Owed, [Next]_vars
               PROVE  Owed'
    OBVIOUS
  <1>1. Typed /\ Calls
    BY DEF Shape
  <1>2. /\ Top.i \in Nat \ {0} /\ Len(Top.steps) \in Nat /\ FrameOK(Top) /\ Top \in Frames
        /\ Top.members = Idle => DOMAIN Top.members = {}
    BY <1>1, StackFacts, FrameFacts, ListFacts, MembersAre, TopOK
  <1>3. began' = began => \A w \in Called : Begun(w)' => Begun(w)
    BY DEF Begun
  <1>4. CASE UNCHANGED vars \/ End \/ Interrupt \/ Background
    <2>1. UNCHANGED <<stack, began, failed>>
      BY <1>4 DEF vars, End, Interrupt, Background
    <2> QED
      BY <2>1 DEF Owed, Down, Begun
  <1>5. CASE RejectMounts \/ BatchFails
    <2>1. PICK f \in Frames, x \in Failures :
             /\ Refuses(f, x)
             /\ IF RejectMounts THEN f.finally = <<>> ELSE f.finally = Top.finally
      BY <1>1, <1>5, RejectMountsDoes, BatchFailsDoes
    <2>2. /\ AtRest /\ MoreSteps /\ began' = began /\ failed' = Append(failed, x)
          /\ RejectMounts => Top.i = 1 /\ ~Top.teardown
      BY <1>5, <2>1 DEF RejectMounts, BatchFails, Refuses
    <2>3. f.err # <<>>
      BY <2>1, OneInSeq DEF Refuses
    <2>4. ASSUME NEW id, Owes(Top, id)
          PROVE  Owes(f, id) \/ Down(id)'
      <3>1. CASE Top.teardown
        <4>1. x.id = id
          BY <2>1, <2>4, <3>1 DEF Owes, Refuses, Step
        <4> QED
          BY <1>1, <2>2, <4>1, DownFails
      <3>2. CASE ~Top.teardown
        <4>1. ~RejectMounts
          BY <2>2, <2>4, <3>2 DEF Owes, AtRest, MoreSteps
        <4> QED
          BY <2>1, <2>3, <2>4, <3>2, <4>1 DEF Owes, Refuses, Keeps
      <3> QED
        BY <3>1, <3>2
    <2>5. Keeps(f)
      BY <2>1 DEF Refuses
    <2> QED
      BY <1>1, <1>3, <2>2, <2>4, <2>5, OwedKeep
  <1>6. CASE BeginStep
    <2>1. AtRest /\ MoreSteps /\ failed' = failed /\ began' = began \cup {Top.steps[Top.i].id}
      BY <1>6 DEF BeginStep, Step
    <2>2. PICK f \in Frames :
             /\ Keeps(f) /\ f.finally = Top.finally /\ f.i = Top.i
             /\ DOMAIN f.members = {Top.i}
      BY <1>1, <1>6, BeginStepDoes
    <2>3. f.members # Idle
      BY <2>2, FrameFacts, MembersAre
    <2>4. Top.i \in DOMAIN Top.steps /\ ~IsOver(Top)
      BY <1>1, <1>2, <2>1, StepFacts DEF IsOver, MoreSteps
    <2>5. ASSUME NEW id, Owes(Top, id)
          PROVE  Owes(f, id) \/ Down(id)'
      BY <2>1, <2>2, <2>3, <2>5 DEF Owes, Down, Keeps
    <2>6. \A w \in Called : Begun(w)' /\ w.finally # <<>> =>
                               Begun(w) \/ Owes(f, w.finally[1].id)
      BY <2>1, <2>2, <2>3, <2>4, BegunOwes
    <2> QED
      BY <1>1, <2>1, <2>2, <2>5, <2>6, OwedKeep
  <1>7. CASE BeginBatch
    <2>1. failed' = failed /\ began' = began /\ ~Step.blocking /\ Top.i \in DOMAIN Top.steps
      BY <1>1, <1>7, BeginBatchDoes DEF BeginBatch
    <2>2. PICK f \in Frames :
             /\ Keeps(f) /\ f.finally = Top.finally /\ f.i = Top.i
             /\ DOMAIN f.members = Batch
             /\ \A n \in Batch : f.members[n].at = "new"
      BY <1>1, <1>7, BeginBatchDoes
    <2>3. Top.i \in Batch
      BY <1>1, <2>1, BatchFacts
    <2>4. f.members # Idle
      BY <2>2, <2>3, FrameFacts, MembersAre
    <2>5. ASSUME NEW id, Owes(Top, id)
          PROVE  Owes(f, id)
      BY <2>2, <2>3, <2>4, <2>5 DEF Owes, Keeps
    <2> QED
      BY <1>1, <1>3, <2>1, <2>2, <2>5, OwedKeep
  <1>8. CASE Setup \/ EndStep \/ StopStep \/ Join
    <2>1. /\ Top.i \in DOMAIN Top.steps /\ Top.members # Idle /\ Top.i \in DOMAIN Top.members
          /\ Top.members[Top.i].at # "new" /\ failed' = failed /\ began' = began
      BY <1>1, <1>8, TopOK DEF Setup, EndStep, StopStep, Join, Finished
    <2>2. ASSUME NEW f \in Frames, Keeps(f), f.finally = Top.finally,
                 f.i > 1 \/ f.members # Idle \/ f.err # <<>>
          PROVE  Owed'
      <3>1. ASSUME NEW id, Owes(Top, id)
            PROVE  Owes(f, id)
        BY <2>1, <2>2, <3>1 DEF Owes, Keeps
      <3> QED
        BY <1>1, <1>3, <2>1, <2>2, <3>1, OwedKeep
    <2>3. CASE Setup
      <3>1. PICK f \in Frames : Moves(f, Top.i)
        BY <1>1, <2>1, <2>3, SetupMoves
      <3>2. f.members # Idle
        BY <2>1, <3>1, FrameFacts, MembersAre DEF Moves
      <3> QED
        BY <2>2, <3>1, <3>2 DEF Moves
    <2>4. CASE EndStep
      <3>1. PICK f \in Frames : Keeps(f) /\ f.finally = Top.finally /\ f.i = Top.i + 1
        BY <1>1, <2>1, <2>4, EndStepDoes
      <3> QED
        BY <1>2, <2>2, <3>1
    <2>5. CASE StopStep
      <3>1. PICK f \in Frames :
               /\ Keeps(f) /\ f.finally = Top.finally /\ f.err = Top.err /\ Step.blocking
               /\ Top.members[Top.i].at = "failed"
        BY <1>1, <2>5, StopStepDoes
      <3>2. Top.err # <<>>
        BY <1>2, <2>1, <3>1 DEF FrameOK, Step
      <3> QED
        BY <2>2, <3>1, <3>2
    <2>6. CASE Join
      <3>1. PICK f \in Frames :
               /\ Keeps(f) /\ f.finally = Top.finally /\ f.err = Top.err
               /\ Top.err = <<>> => f.i = BatchEnd
        BY <1>1, <2>1, <2>6, JoinDoes
      <3>2. BatchEnd \in Top.i + 1..Len(Top.steps) + 1
        BY <1>1, <2>1, <2>6, BatchFacts DEF Join
      <3>3. BatchEnd > 1
        BY <1>2, <3>2
      <3> QED
        BY <2>2, <3>1, <3>3
    <2> QED
      BY <1>8, <2>3, <2>4, <2>5, <2>6
  <1>9. CASE CallPackage
    <2>1. Top.i \in DOMAIN Top.members /\ Top.members[Top.i].at = "calling"
      BY <1>9 DEF CallPackage
    <2>2. Top.i \in DOMAIN Top.steps /\ Step.kind = "package" /\ Top.members # Idle
      BY <2>1, CallingFacts
    <2>3. PICK f \in Frames, g \in Frames : Opens(f, g) /\ f.finally = Top.finally
      BY <1>1, <1>9, <2>2, CallPackageDoes
    <2>4. ASSUME NEW id, Owes(Top, id)
          PROVE  Owes(f, id)
      BY <2>1, <2>2, <2>3, <2>4 DEF Owes, Opens
    <2>5. failed' = failed /\ began' = began
      BY <1>9 DEF CallPackage
    <2> QED
      BY <1>1, <2>3, <2>4, <2>5, OwedOpen
  <1>10. CASE Teardown
    <2>1. PICK f \in Frames, g \in Frames :
               /\ Opens(f, g) /\ Top.finally # <<>>
               /\ g.steps = Top.finally /\ g.teardown
      BY <1>1, <1>10, TeardownDoes
    <2>2. ~Top.teardown
      BY <1>1, <2>1, TopOK DEF FrameOK
    <2>3. ASSUME NEW id, Owes(Top, id)
          PROVE  Owes(g, id)
      BY <2>1, <2>2, <2>3 DEF Owes, Opens
    <2>4. failed' = failed /\ began' = began
      BY <1>10 DEF Teardown
    <2> QED
      BY <1>1, <2>1, <2>3, <2>4, OwedOpen
  <1>11. CASE Return
    BY <1>11, OwedReturn
  <1>12. ASSUME NEW n \in DOMAIN Top.members,
                MemberStart(n) \/ MemberSetup(n) \/ Write(n) \/ Succeed(n) \/ Fail(n)
         PROVE  Owed'
    <2>1. n \in DOMAIN Top.steps /\ Top.members # Idle
      BY <1>1, TopOK
    <2>2. PICK f \in Frames : /\ Moves(f, n)
                              /\ Top.members[n].at = "new" => MemberStart(n)
      BY <1>1, <1>12, <2>1, MemberStartMoves, MemberSetupMoves, WriteMoves, SucceedMoves,
         FailMoves
    <2>3. f.members # Idle
      BY <2>2, FrameFacts, MembersAre DEF Moves
    <2>4. MemberStart(n) => began' = began \cup {Top.steps[n].id} /\ failed' = failed
      BY DEF MemberStart
    <2>5. ~MemberStart(n) =>
             /\ began' = began
             /\ failed' = failed \/ \E x \in Failures : failed' = Append(failed, x)
      BY <1>1, <1>12, <2>1, FailMoves DEF MemberSetup, Write, Succeed, Fail
    <2>6. ASSUME NEW id, Owes(Top, id)
          PROVE  Owes(f, id) \/ Down(id)'
      <3>1. CASE Top.teardown
        <4>1. CASE n = 1
          <5>1. MemberStart(n) /\ Top.steps[n].id = id
            BY <2>1, <2>2, <2>6, <3>1, <4>1 DEF Owes
          <5> QED
            BY <2>4, <5>1 DEF Down
        <4>2. CASE n # 1
          <5>1. 1 \in DOMAIN Top.members
            BY <1>2, <2>1, <2>6, <3>1 DEF Owes, FrameOK
          <5> QED
            BY <2>1, <2>2, <2>3, <2>6, <3>1, <4>2, <5>1 DEF Owes, Moves, Keeps
        <4> QED
          BY <4>1, <4>2
      <3>2. CASE ~Top.teardown
        BY <2>2, <2>3, <2>6, <3>2 DEF Owes, Moves, Keeps
      <3> QED
        BY <3>1, <3>2
    <2>7. Keeps(f) /\ f.finally = Top.finally
      BY <2>2 DEF Moves
    <2>8. ~IsOver(Top)
      BY <2>1 DEF IsOver
    <2>9. \A w \in Called : Begun(w)' /\ w.finally # <<>> =>
                               Begun(w) \/ Owes(f, w.finally[1].id)
      BY <1>3, <2>1, <2>3, <2>4, <2>5, <2>7, <2>8, BegunOwes
    <2> QED
      BY <1>1, <2>4, <2>5, <2>6, <2>7, <2>9, OwedKeep
  <1> QED
    BY <1>4, <1>5, <1>6, <1>7, <1>8, <1>9, <1>10, <1>11, <1>12, NextIs

(* A run that returns has torn down every workflow it began, for workflows *)
(* in which steps of one name have the same teardown.                      *)
THEOREM TeardownsBegin == TeardownsAgree => (Spec => []TeardownBegins)
  <1> SUFFICES ASSUME TeardownsAgree
               PROVE  Spec => []TeardownBegins
    OBVIOUS
  <1>1. Init => Owed /\ TeardownBegins
    BY DEF Init, Owed, Begun, TeardownBegins
  <1>2. Shape /\ Origin /\ Owed /\ [Next]_vars => Owed'
    BY OwedStep
  <1>3. Shape /\ Origin /\ Owed /\ TeardownBegins /\ [Next]_vars => TeardownBegins'
    <2> SUFFICES ASSUME Shape, Origin, Owed, TeardownBegins, [Next]_vars
                 PROVE  TeardownBegins'
      OBVIOUS
    <2>1. Typed /\ Calls
      BY DEF Shape
    <2>2. CASE UNCHANGED vars \/ Background
      BY <2>2 DEF vars, Background, TeardownBegins, TornDown
    <2>3. CASE End
      <3>1. /\ Len(stack) = 1 /\ Top.members = Idle /\ ~MoreSteps /\ Top.finally = <<>>
            /\ began' = began /\ failed' = failed
        BY <2>3 DEF End, AtRest, TearsDown
      <3>2. stack[1] = Top /\ ~Top.teardown /\ Top.i \in Nat
        BY <2>1, <3>1, StackFacts, FrameFacts DEF Top, Calls
      <3>3. ASSUME NEW w \in Called, Begun(w), w.finally # <<>>
            PROVE  Down(w.finally[1].id)
        <4>1. \A id : ~Owes(Top, id)
          BY <3>1, <3>2 DEF Owes
        <4> QED
          BY <3>1, <3>2, <3>3, <4>1 DEF Owed
      <3>4. TornDown
        BY <3>3 DEF TornDown, Begun, Down
      <3> QED
        BY <3>1, <3>4 DEF TeardownBegins, TornDown
    <2>4. CASE ~ (UNCHANGED vars) /\ ~End /\ ~Background
      <3>1. outcome' \in {"running", "killed"}
        BY <2>4, EndsWith
      <3> QED
        BY <3>1 DEF TeardownBegins
    <2> QED
      BY <2>2, <2>3, <2>4
  <1> QED
    BY <1>1, <1>2, <1>3, OriginInvariant, ShapeInvariant, PTL DEF Spec
-----------------------------------------------------------------------------
(* Outputs files.                                                          *)

Packaged(step) == step.blocking /\ step.kind = "package"
Path(n) == OutputsFile(roots, Top.steps[n])

(* The outputs of a step go to the artifacts, wherever these are.          *)
Rooted == roots.output \in {None, roots.artifacts}

(* A packaged workflow has no process of its own and writes nothing.       *)
Quiet(f) ==
    \A n \in DOMAIN f.members :
        Packaged(f.steps[n]) => f.members[n].at # "running" /\ f.members[n].wrote = NoVars
AllQuiet == \A c \in 1..Len(stack) : Quiet(stack[c])

(* The members of a batch are all of its steps, each with a file for       *)
(* itself.                                                                 *)
Whole ==
    /\ Top.members # Idle /\ ~Step.blocking => DOMAIN Top.members = Batch
    /\ \A n, m \in DOMAIN Top.members : Top.steps[n].outputs = Top.steps[m].outputs => n = m

(* A member writes where the merge will look, and what it wrote is there.  *)
Placed ==
    \A n \in DOMAIN Top.members :
        LET m == Top.members[n]
        IN  /\ m.at = "new" => m.roots = roots
            /\ m.at # "new" /\ ~Packaged(Top.steps[n]) =>
                   OutputsFile(m.roots, Top.steps[n]) = Path(n)
            /\ m.wrote # NoVars => files[Path(n)] = m.wrote

(* Until a step has failed there is no other file.                         *)
Accounted ==
    failed = <<>> =>
        \A p \in Places \X Paths :
            files[p] # NoVars =>
                \E n \in DOMAIN Top.members : Top.members[n].wrote # NoVars /\ p = Path(n)

Written == Rooted /\ AllQuiet /\ Whole /\ Placed /\ Accounted

(* The end of a batch depends on the step it begins with.                  *)
EndOf(i, steps) ==
    CHOOSE j \in i..Len(steps) + 1 :
        /\ j = Len(steps) + 1 \/ steps[j].blocking
        /\ \A n \in i..j - 1 : ~steps[n].blocking

LEMMA BatchIs == Batch = Top.i..EndOf(Top.i, Top.steps) - 1
  BY DEF Batch, BatchEnd, EndOf

LEMMA BatchSame ==
  ASSUME Top'.i = Top.i, Top'.steps = Top.steps
  PROVE  Batch' = Batch /\ Step' = Step
  <1>1. (Batch = Top.i..EndOf(Top.i, Top.steps) - 1)'
    BY BatchIs, PTL
  <1>2. Batch' = Top'.i..EndOf(Top'.i, Top'.steps) - 1
    BY <1>1
  <1>3. Batch = Top.i..EndOf(Top.i, Top.steps) - 1
    BY BatchIs
  <1> QED
    BY <1>2, <1>3 DEF Step

LEMMA QuietKeeps ==
  ASSUME Typed, AllQuiet, NEW f, Keeps(f), Quiet(f)
  PROVE  AllQuiet'
  <1>1. /\ Len(stack) \in Nat \ {0} /\ Len(stack') = Len(stack)
        /\ \A c \in 1..Len(stack) - 1 : stack'[c] = stack[c]
        /\ stack'[Len(stack)] = f
    BY SetTopFacts, StackFacts DEF Keeps
  <1>2. \A c \in 1..Len(stack) : c \in 1..Len(stack) - 1 \/ c = Len(stack)
    BY <1>1
  <1> QED
    BY <1>1, <1>2 DEF AllQuiet

LEMMA QuietTop ==
  ASSUME Typed, AllQuiet
  PROVE  Quiet(Top)
  BY StackFacts DEF AllQuiet, Top

LEMMA QuietIdle ==
  ASSUME NEW f \in Frames, f.members = Idle
  PROVE  Quiet(f)
  BY FrameFacts, MembersAre DEF Quiet

(* A member moves that writes nothing.                                     *)
LEMMA WrittenMoves ==
  ASSUME Typed, Written, NEW f, NEW n, Moves(f, n), roots' = roots, files' = files,
         failed' = <<>> => failed = <<>>,
         f.members[n].wrote = Top.members[n].wrote, f.members[n].at # "new",
         Packaged(Top.steps[n]) => f.members[n].at # "running",
         \/ Top.members[n].at # "new" /\ f.members[n].roots = Top.members[n].roots
         \/ /\ Top.members[n].at = "new"
            /\ OutputsFile(f.members[n].roots, Top.steps[n]) =
                  OutputsFile(Top.members[n].roots, Top.steps[n])
  PROVE  Written'
  <1>1. Top' = f
    BY SetTopFacts DEF Moves, Keeps
  <1>2. /\ DOMAIN f.members = DOMAIN Top.members /\ n \in DOMAIN Top.members
        /\ f.steps = Top.steps /\ f.i = Top.i /\ f \in Frames /\ Keeps(f)
        /\ \A k \in DOMAIN Top.members : k # n => f.members[k] = Top.members[k]
    BY DEF Moves, Keeps
  <1>3. Batch' = Batch /\ Step' = Step
    BY <1>1, <1>2, BatchSame
  <1>4. Top.members # Idle
    BY <1>2, StackFacts, FrameFacts, MembersAre
  <1>5. \A k : Path(k)' = Path(k)
    BY <1>1, <1>2 DEF Path
  <1>6. Quiet(f)
    BY <1>2, QuietTop DEF Quiet, Written
  <1>7. Rooted' /\ AllQuiet'
    BY <1>2, <1>6, QuietKeeps DEF Written, Rooted
  <1>8. Whole'
    BY <1>1, <1>2, <1>3, <1>4 DEF Written, Whole
  <1>9. \A k \in DOMAIN Top.members : f.members[k].wrote = Top.members[k].wrote
    BY <1>2
  <1>10. Placed'
    <2>1. ASSUME NEW k \in DOMAIN Top.members
          PROVE  /\ f.members[k].at = "new" => f.members[k].roots = roots
                 /\ f.members[k].at # "new" /\ ~Packaged(Top.steps[k]) =>
                       OutputsFile(f.members[k].roots, Top.steps[k]) = Path(k)
                 /\ f.members[k].wrote # NoVars => files[Path(k)] = f.members[k].wrote
      <3>1. /\ Top.members[k].at = "new" => Top.members[k].roots = roots
            /\ Top.members[k].at # "new" /\ ~Packaged(Top.steps[k]) =>
                  OutputsFile(Top.members[k].roots, Top.steps[k]) = Path(k)
            /\ Top.members[k].wrote # NoVars => files[Path(k)] = Top.members[k].wrote
        BY DEF Written, Placed
      <3>2. CASE k # n
        BY <1>2, <3>1, <3>2
      <3>3. CASE k = n
        <4>1. Top.members[n].at = "new" => OutputsFile(Top.members[n].roots, Top.steps[n]) = Path(n)
          BY <3>1, <3>3 DEF Path
        <4> QED
          BY <1>9, <3>1, <3>3, <4>1
      <3> QED
        BY <3>2, <3>3
    <2> QED
      BY <1>1, <1>2, <1>5, <2>1 DEF Placed
  <1>11. Accounted'
    BY <1>1, <1>2, <1>5, <1>9 DEF Written, Accounted
  <1> QED
    BY <1>7, <1>8, <1>10, <1>11 DEF Written

(* A member writes its outputs file.                                       *)
LEMMA WrittenWrite ==
  ASSUME Shape, Written, NEW n \in DOMAIN Top.members, Write(n)
  PROVE  Written'
  <1>1. Typed /\ Calls
    BY DEF Shape
  <1>2. n \in DOMAIN Top.steps /\ Top.steps[n] \in Declared /\ Top.members # Idle
    BY <1>1, TopOK, TopMember
  <1>3. PICK f \in Frames :
            /\ Moves(f, n) /\ Top.members[n].at = "running" /\ f.members[n].at = "running"
            /\ f.members[n].roots = Top.members[n].roots
            /\ f.members[n].wrote = Top.steps[n].writes
    BY <1>1, <1>2, WriteMoves
  <1>4. Top' = f
    BY <1>1, <1>3, SetTopFacts DEF Moves, Keeps
  <1>5. /\ DOMAIN f.members = DOMAIN Top.members
        /\ f.steps = Top.steps /\ f.i = Top.i /\ Keeps(f)
        /\ \A k \in DOMAIN Top.members : k # n => f.members[k] = Top.members[k]
    BY <1>3 DEF Moves, Keeps
  <1>6. Batch' = Batch /\ Step' = Step
    BY <1>4, <1>5, BatchSame
  <1>7. /\ files' = [files EXCEPT ![OutputsFile(Top.members[n].roots, Top.steps[n])] =
                        Top.steps[n].writes]
        /\ roots' = roots /\ failed' = failed /\ Top.steps[n].writes # NoVars
    BY DEF Write
  <1>8. \A k : Path(k)' = Path(k)
    BY <1>4, <1>5, <1>7 DEF Path
  <1>9. ~Packaged(Top.steps[n])
    BY <1>1, <1>3, QuietTop DEF Written, Quiet
  <1>10. OutputsFile(Top.members[n].roots, Top.steps[n]) = Path(n)
    BY <1>3, <1>9 DEF Written, Placed
  <1>11. /\ files \in [Places \X Paths -> Map] /\ roots \in RootSet
         /\ Path(n) \in Places \X Paths
    BY <1>1, <1>2, OutputsFileFacts DEF Typed, Path
  <1>12. /\ files'[Path(n)] = Top.steps[n].writes
         /\ \A p \in Places \X Paths : p # Path(n) => files'[p] = files[p]
    <2> HIDE DEF Map, Places
    <2> QED
      BY <1>7, <1>10, <1>11
  <1>13. \A k \in DOMAIN Top.members : Path(k) = Path(n) => k = n
    BY DEF Written, Whole, Path, OutputsFile
  <1>14. \A k \in DOMAIN Top.members : Path(k) \in Places \X Paths
    BY <1>1, <1>11, TopOK, TopMember, OutputsFileFacts DEF Path
  <1>15. Quiet(f)
    BY <1>1, <1>5, <1>9, QuietTop DEF Quiet, Written
  <1>16. Rooted' /\ AllQuiet'
    BY <1>1, <1>5, <1>7, <1>15, QuietKeeps DEF Written, Rooted
  <1>17. Whole'
    BY <1>2, <1>4, <1>5, <1>6 DEF Written, Whole
  <1>18. Placed'
    <2>1. ASSUME NEW k \in DOMAIN Top.members
          PROVE  /\ f.members[k].at = "new" => f.members[k].roots = roots
                 /\ f.members[k].at # "new" /\ ~Packaged(Top.steps[k]) =>
                       OutputsFile(f.members[k].roots, Top.steps[k]) = Path(k)
                 /\ f.members[k].wrote # NoVars => files'[Path(k)] = f.members[k].wrote
      <3>1. CASE k # n
        <4>1. f.members[k] = Top.members[k]
          BY <1>5, <3>1
        <4>2. files'[Path(k)] = files[Path(k)]
          BY <1>12, <1>13, <1>14, <3>1
        <4> QED
          BY <4>1, <4>2 DEF Written, Placed
      <3>2. CASE k = n
        BY <1>3, <1>10, <1>12, <3>2
      <3> QED
        BY <3>1, <3>2
    <2> QED
      BY <1>4, <1>5, <1>7, <1>8, <2>1 DEF Placed
  <1>19. Accounted'
    <2>1. ASSUME failed' = <<>>, NEW p \in Places \X Paths, files'[p] # NoVars
          PROVE  \E k \in DOMAIN f.members : f.members[k].wrote # NoVars /\ p = Path(k)
      <3>1. CASE p = Path(n)
        BY <1>3, <1>5, <1>7, <3>1
      <3>2. CASE p # Path(n)
        <4>1. files[p] # NoVars
          BY <1>12, <2>1, <3>2
        <4>2. PICK k \in DOMAIN Top.members : Top.members[k].wrote # NoVars /\ p = Path(k)
          BY <1>7, <2>1, <4>1 DEF Written, Accounted
        <4>3. k # n
          BY <3>2, <4>2
        <4> QED
          BY <1>5, <4>2, <4>3
      <3> QED
        BY <3>1, <3>2
    <2> QED
      BY <1>4, <1>8, <2>1 DEF Accounted
  <1> QED
    BY <1>16, <1>17, <1>18, <1>19 DEF Written
-----------------------------------------------------------------------------
(* What a merge does.                                                      *)

LEMMA AppliedAt ==
  ASSUME NEW s \in Merges, NEW path \in Places \X Paths
  PROVE  /\ \A k \in Keys :
               LET v == s.files[path][k]
               IN  /\ Applied(s, path).env[k] = IF Takes(s.env, k, v) THEN v ELSE s.env[k]
                   /\ Applied(s, path).docker[k] = IF Takes(s.env, k, v) THEN v ELSE s.docker[k]
         /\ \A p \in Places \X Paths :
               Applied(s, path).files[p] = IF p = path THEN NoVars ELSE s.files[p]
  <1> DEFINE merged(e) == [k \in Keys |-> IF Takes(s.env, k, s.files[path][k])
                                          THEN s.files[path][k] ELSE e[k]]
             left == [s.files EXCEPT ![path] = NoVars]
  <1>1. Applied(s, path) = [env |-> merged(s.env), docker |-> merged(s.docker), files |-> left]
    BY DEF Applied
  <1>2. /\ Applied(s, path).env = merged(s.env) /\ Applied(s, path).docker = merged(s.docker)
        /\ Applied(s, path).files = left
    <2> HIDE DEF merged, left
    <2> QED
      BY <1>1
  <1>3. s.files \in [Places \X Paths -> Map]
    BY DEF Merges
  <1>4. \A p \in Places \X Paths : left[p] = IF p = path THEN NoVars ELSE s.files[p]
    <2> HIDE DEF Places, Map, NoVars
    <2> QED
      BY <1>3
  <1> QED
    BY <1>2, <1>4

(* A merge in progress: the files that were merged are gone, the others    *)
(* are as they were.                                                       *)
Merging(f, start, path, i, j) ==
    /\ MergedFrom(start, path, i, j) = f[j]
    /\ f[i - 1] = start
    /\ \A n \in i..j : f[n] = Applied(f[n - 1], path[n])
    /\ \A n \in i - 1..j : f[n] \in Merges
    /\ \A n \in i - 1..j : \A p \in Places \X Paths :
          f[n].files[p] = IF \E m \in i..n : p = path[m] THEN NoVars ELSE start.files[p]

LEMMA MergeRuns ==
  ASSUME NEW start \in Merges, NEW path, NEW i \in Nat \ {0}, NEW j \in Nat, i - 1 <= j,
         \A n \in i..j : path[n] \in Places \X Paths
  PROVE  \E f : Merging(f, start, path, i, j)
  <1>1. PICK f : /\ MergedFrom(start, path, i, j) = f[j]
                 /\ f[i - 1] = start
                 /\ \A n \in i..j : f[n] = Applied(f[n - 1], path[n])
    BY MergeIs
  <1> DEFINE Left(n) == \A p \in Places \X Paths :
                 f[n].files[p] = IF \E m \in i..n : p = path[m] THEN NoVars ELSE start.files[p]
             P == {n \in Nat : f[n] \in Merges /\ Left(n)}
  <1> HIDE DEF Merges, Places
  <1>2. i - 1 \in P
    <2>1. i..i - 1 = {}
      OBVIOUS
    <2>2. Left(i - 1)
      BY <1>1, <2>1
    <2> HIDE DEF Left
    <2> QED
      BY <1>1, <2>2
  <1>3. ASSUME NEW n \in i - 1..j - 1, n \in P
        PROVE  n + 1 \in P
    <2>1. n + 1 \in i..j /\ n + 1 - 1 = n /\ n + 1 \in Nat
      OBVIOUS
    <2>2. f[n + 1] = Applied(f[n], path[n + 1])
      BY <1>1, <2>1
    <2>3. f[n] \in Merges /\ path[n + 1] \in Places \X Paths /\ Left(n)
      BY <1>3, <2>1
    <2>4. f[n + 1] \in Merges
      BY <2>2, <2>3, AppliedFacts
    <2>5. \A p \in Places \X Paths :
             f[n + 1].files[p] = IF p = path[n + 1] THEN NoVars ELSE f[n].files[p]
      BY <2>2, <2>3, AppliedAt
    <2>6. \A m : m \in i..n + 1 <=> m \in i..n \/ m = n + 1
      BY <2>1
    <2>7. Left(n + 1)
      BY <2>3, <2>5, <2>6
    <2> HIDE DEF Left
    <2> QED
      BY <2>1, <2>4, <2>7
  <1>4. \A n \in i - 1..j : n \in P
    <2>1. \A n \in i - 1..j - 1 : n \in P => n + 1 \in P
      BY <1>3
    <2>2. i - 1 \in Nat
      OBVIOUS
    <2> HIDE DEF P
    <2> QED
      BY <1>2, <2>1, <2>2, Climb
  <1> QED
    BY <1>1, <1>4 DEF Merging

(* Every file that was merged is gone.                                     *)
Cleared(s, start, path, i, j) ==
    \A p \in Places \X Paths :
        s.files[p] = IF \E m \in i..j : p = path[m] THEN NoVars ELSE start.files[p]

LEMMA MergeClears ==
  ASSUME NEW start \in Merges, NEW path, NEW i \in Nat \ {0}, NEW j \in Nat, i - 1 <= j,
         \A n \in i..j : path[n] \in Places \X Paths
  PROVE  Cleared(MergedFrom(start, path, i, j), start, path, i, j)
  <1>1. PICK f : Merging(f, start, path, i, j)
    BY MergeRuns
  <1>2. j \in i - 1..j
    OBVIOUS
  <1> QED
    BY <1>1, <1>2 DEF Merging, Cleared

(* The files are different ones, and the one at last is the last that has  *)
(* a value for k.                                                          *)
LastFor(k, last, start, path, i, j) ==
    /\ \A n \in i..j : path[n] \in Places \X Paths
    /\ \A n, m \in i..j : path[n] = path[m] => n = m
    /\ start.files[path[last]][k] \notin {None, Empty}
    /\ \A n \in last + 1..j : start.files[path[n]][k] = None

(* Of several files that set a key, the last one that is merged wins.      *)
LEMMA MergeLast ==
  ASSUME NEW start \in Merges, NEW path, NEW i \in Nat \ {0}, NEW j \in Nat, i - 1 <= j,
         NEW k \in Keys, k \notin Locked, NEW last \in i..j,
         LastFor(k, last, start, path, i, j)
  PROVE  /\ MergedFrom(start, path, i, j).env[k] = start.files[path[last]][k]
         /\ MergedFrom(start, path, i, j).docker[k] = start.files[path[last]][k]
  <1> DEFINE v == start.files[path[last]][k]
  <1>0. /\ \A n \in i..j : path[n] \in Places \X Paths
        /\ \A n, m \in i..j : path[n] = path[m] => n = m
        /\ v # None /\ v # Empty
        /\ \A n \in last + 1..j : start.files[path[n]][k] = None
    BY DEF LastFor
  <1> HIDE DEF v
  <1>1. PICK f : Merging(f, start, path, i, j)
    BY <1>0, MergeRuns
  <1>2. ASSUME NEW n \in i..j
        PROVE  /\ f[n] = Applied(f[n - 1], path[n]) /\ f[n - 1] \in Merges
               /\ f[n - 1].files[path[n]] = start.files[path[n]]
    <2>1. n - 1 \in i - 1..j
      OBVIOUS
    <2>2. ~ \E m \in i..n - 1 : path[n] = path[m]
      <3>1. \A m \in i..n - 1 : m \in i..j /\ m # n
        OBVIOUS
      <3> QED
        BY <1>0, <3>1
    <2>3. path[n] \in Places \X Paths
      BY <1>0
    <2> QED
      BY <1>1, <2>1, <2>2, <2>3 DEF Merging
  <1> DEFINE P == {n \in Nat : f[n].env[k] = v /\ f[n].docker[k] = v}
  <1>3. last \in P
    <2>1. /\ f[last] = Applied(f[last - 1], path[last]) /\ f[last - 1] \in Merges
          /\ f[last - 1].files[path[last]][k] = v
      BY <1>2 DEF v
    <2>2. Takes(f[last - 1].env, k, v)
      BY <1>0 DEF Takes
    <2>3. path[last] \in Places \X Paths /\ last \in Nat
      BY <1>0
    <2>4. f[last].env[k] = v /\ f[last].docker[k] = v
      BY <2>1, <2>2, <2>3, AppliedAt
    <2> QED
      BY <2>3, <2>4
  <1>4. ASSUME NEW n \in last..j - 1, n \in P
        PROVE  n + 1 \in P
    <2>1. n + 1 \in i..j /\ n + 1 - 1 = n /\ n + 1 \in last + 1..j /\ n + 1 \in Nat
      OBVIOUS
    <2>2. /\ f[n + 1] = Applied(f[n], path[n + 1]) /\ f[n] \in Merges
          /\ f[n].files[path[n + 1]] = start.files[path[n + 1]]
      BY <1>2, <2>1
    <2>3. f[n].files[path[n + 1]][k] = None
      BY <1>0, <2>1, <2>2
    <2>4. ~Takes(f[n].env, k, f[n].files[path[n + 1]][k])
      BY <2>3 DEF Takes
    <2>5. path[n + 1] \in Places \X Paths
      BY <1>0, <2>1
    <2>6. f[n + 1].env[k] = f[n].env[k] /\ f[n + 1].docker[k] = f[n].docker[k]
      BY <2>2, <2>4, <2>5, AppliedAt
    <2> QED
      BY <1>4, <2>1, <2>6
  <1>5. \A n \in last..j : n \in P
    <2>1. \A n \in last..j - 1 : n \in P => n + 1 \in P
      BY <1>4
    <2>2. last \in Nat
      OBVIOUS
    <2> HIDE DEF P
    <2> QED
      BY <1>3, <2>1, <2>2, Climb
  <1>6. j \in last..j
    OBVIOUS
  <1>7. f[j].env[k] = v /\ f[j].docker[k] = v
    BY <1>5, <1>6
  <1> QED
    BY <1>1, <1>7 DEF Merging, v

(* Empty files change no environment.                                      *)
LEMMA AppliedNothing ==
  ASSUME NEW s \in Merges, NEW path \in Places \X Paths, s.files[path] = NoVars
  PROVE  Applied(s, path).env = s.env
  <1>1. \A k \in Keys : s.files[path][k] = None
    BY DEF NoVars
  <1>2. \A k \in Keys : Applied(s, path).env[k] = s.env[k]
    BY <1>1, AppliedAt DEF Takes
  <1>3. s.env \in Map /\ Applied(s, path).env \in Map
    BY AppliedFacts DEF Merges
  <1> QED
    BY <1>2, <1>3 DEF Map

LEMMA MergeNothing ==
  ASSUME NEW start \in Merges, NEW path, NEW i \in Nat \ {0}, NEW j \in Nat, i - 1 <= j,
         \A n \in i..j : path[n] \in Places \X Paths /\ start.files[path[n]] = NoVars
  PROVE  MergedFrom(start, path, i, j).env = start.env
  <1>1. PICK f : Merging(f, start, path, i, j)
    BY MergeRuns
  <1> DEFINE P == {n \in Nat : f[n].env = start.env}
  <1>2. i - 1 \in P
    BY <1>1 DEF Merging
  <1>3. ASSUME NEW n \in i - 1..j - 1, n \in P
        PROVE  n + 1 \in P
    <2>1. n + 1 \in i..j /\ n + 1 - 1 = n /\ n + 1 \in Nat /\ n \in i - 1..j
      OBVIOUS
    <2>2. f[n + 1] = Applied(f[n], path[n + 1]) /\ f[n] \in Merges
      BY <1>1, <2>1 DEF Merging
    <2>3. path[n + 1] \in Places \X Paths /\ start.files[path[n + 1]] = NoVars
      BY <2>1
    <2>4. f[n].files[path[n + 1]] = NoVars
      BY <1>1, <2>1, <2>3 DEF Merging
    <2>5. f[n + 1].env = f[n].env
      BY <2>2, <2>3, <2>4, AppliedNothing
    <2> QED
      BY <1>3, <2>1, <2>5
  <1>4. \A n \in i - 1..j : n \in P
    <2>1. \A n \in i - 1..j - 1 : n \in P => n + 1 \in P
      BY <1>3
    <2>2. i - 1 \in Nat
      OBVIOUS
    <2> HIDE DEF P
    <2> QED
      BY <1>2, <2>1, <2>2, Climb
  <1>5. f[j].env = start.env
    BY <1>4
  <1> QED
    BY <1>1, <1>5 DEF Merging

-----------------------------------------------------------------------------
(* Outputs files are written and merged.                                   *)

NoFiles == \A p \in Places \X Paths : files[p] = NoVars

AtRestWell ==
    /\ Typed /\ Rooted /\ AllQuiet /\ Top.members = Idle
    /\ failed = <<>> => NoFiles

LEMMA WrittenAtRest == AtRestWell => Written
  <1> SUFFICES ASSUME Typed, Rooted, AllQuiet, Top.members = Idle, failed = <<>> => NoFiles
               PROVE  Written
    BY DEF AtRestWell
  <1>1. DOMAIN Top.members = {}
    BY StackFacts, FrameFacts, MembersAre
  <1> QED
    BY <1>1 DEF Written, Whole, Placed, Accounted, NoFiles

LEMMA NothingWritten ==
  ASSUME Written, failed = <<>>, \A n \in DOMAIN Top.members : Top.members[n].wrote = NoVars
  PROVE  NoFiles
  BY DEF Written, Accounted, NoFiles

(* What a member wrote is what the merge finds.                            *)
LEMMA FilesFound ==
  ASSUME Shape, Written, failed = <<>>, NEW n \in DOMAIN Top.members
  PROVE  files[Path(n)] = Top.members[n].wrote /\ Path(n) \in Places \X Paths
  <1>1. Typed /\ Calls
    BY DEF Shape
  <1>2. Path(n) \in Places \X Paths
    BY <1>1, TopOK, TopMember, OutputsFileFacts DEF Path, Typed
  <1>3. CASE Top.members[n].wrote # NoVars
    BY <1>2, <1>3 DEF Written, Placed
  <1>4. CASE Top.members[n].wrote = NoVars
    <2>1. ASSUME files[Path(n)] # NoVars
          PROVE  FALSE
      <3>1. PICK m \in DOMAIN Top.members : Top.members[m].wrote # NoVars /\ Path(n) = Path(m)
        BY <1>2, <2>1 DEF Written, Accounted
      <3>2. n = m
        BY <3>1 DEF Written, Whole, Path, OutputsFile
      <3> QED
        BY <1>4, <3>1, <3>2
    <2> QED
      BY <1>2, <1>4, <2>1
  <1> QED
    BY <1>3, <1>4

(* The merge of a batch looks at the files of its members.                 *)
LEMMA BatchMerge ==
  ASSUME Shape, Written, Top.members # Idle, ~Step.blocking
  PROVE  /\ Before \in Merges /\ Before.env = env /\ Before.docker = Top.docker
         /\ Before.files = files
         /\ DOMAIN Top.members = Top.i..BatchEnd - 1
         /\ Top.i \in Nat \ {0} /\ BatchEnd - 1 \in Nat /\ Top.i - 1 <= BatchEnd - 1
         /\ \A n \in Top.i..BatchEnd - 1 :
               BatchPath[n] = Path(n) /\ BatchPath[n] \in Places \X Paths
         /\ \A n, m \in Top.i..BatchEnd - 1 : BatchPath[n] = BatchPath[m] => n = m
  <1>1. Typed /\ Calls
    BY DEF Shape
  <1>2. Top.i \in DOMAIN Top.steps /\ Top.i \in Nat \ {0} /\ Top.docker \in Map
    BY <1>1, TopOK, StackFacts, FrameFacts
  <1>3. BatchEnd \in Top.i + 1..Len(Top.steps) + 1 /\ Batch = Top.i..BatchEnd - 1
    BY <1>1, <1>2, BatchFacts
  <1>4. Len(Top.steps) \in Nat
    BY <1>1, StackFacts, FrameFacts, ListFacts
  <1>5. BatchEnd - 1 \in Nat /\ Top.i - 1 <= BatchEnd - 1
    BY <1>2, <1>3, <1>4
  <1>6. DOMAIN Top.members = Batch
    BY DEF Written, Whole
  <1>7. \A n \in Batch : BatchPath[n] = Path(n)
    BY DEF BatchPath, Path
  <1>8. \A n \in DOMAIN Top.members : Path(n) \in Places \X Paths
    BY <1>1, TopOK, TopMember, OutputsFileFacts DEF Path, Typed
  <1>9. \A n, m \in DOMAIN Top.members : Path(n) = Path(m) => n = m
    BY DEF Written, Whole, Path, OutputsFile
  <1>10. /\ Before \in Merges /\ Before.env = env /\ Before.docker = Top.docker
         /\ Before.files = files
    <2> HIDE DEF Map, Places
    <2> QED
      BY <1>1, <1>2 DEF Before, Merges, Typed
  <1>11. \A n \in Top.i..BatchEnd - 1 :
            BatchPath[n] = Path(n) /\ BatchPath[n] \in Places \X Paths
    BY <1>3, <1>6, <1>7, <1>8
  <1>12. \A n, m \in Top.i..BatchEnd - 1 : BatchPath[n] = BatchPath[m] => n = m
    BY <1>3, <1>6, <1>7, <1>9
  <1>13. DOMAIN Top.members = Top.i..BatchEnd - 1
    BY <1>3, <1>6
  <1> QED
    BY <1>2, <1>5, <1>10, <1>11, <1>12, <1>13

(* A blocking step has ended: its file is gone.                            *)
LEMMA EndStepClears ==
  ASSUME Shape, Written, failed = <<>>, EndStep
  PROVE  NoFiles'
  <1>1. Typed /\ Calls
    BY DEF Shape
  <1>2. /\ Top.i \in DOMAIN Top.members /\ Top.i \in DOMAIN Top.steps /\ Step.blocking
        /\ FrameOK(Top) /\ Top.members # Idle
    BY <1>1, TopOK DEF EndStep
  <1>3. PICK s \in Merges :
            /\ s = Applied(Before, Path(Top.i)) /\ files' = s.files
    BY <1>1, <1>2, EndStepDoes DEF Before, Path, Step
  <1>4. \A n \in DOMAIN Top.members : n = Top.i
    BY <1>2 DEF FrameOK, Step
  <1>5. Before \in Merges /\ Before.files = files
    <2>1. Top.docker \in Map
      BY <1>1, StackFacts, FrameFacts
    <2> HIDE DEF Map, Places
    <2> QED
      BY <1>1, <2>1 DEF Before, Merges, Typed
  <1>6. Path(Top.i) \in Places \X Paths
    BY <1>2, FilesFound
  <1>7. \A p \in Places \X Paths : p # Path(Top.i) => files[p] = NoVars
    BY <1>4 DEF Written, Accounted
  <1>8. \A p \in Places \X Paths : s.files[p] = NoVars
    BY <1>3, <1>5, <1>6, <1>7, AppliedAt
  <1> QED
    BY <1>3, <1>8 DEF NoFiles

LEMMA JoinClears ==
  ASSUME Shape, Errors, Written, failed = <<>>, Join
  PROVE  NoFiles'
  <1>1. Typed /\ Calls
    BY DEF Shape
  <1>2. Top.members # Idle /\ ~Step.blocking /\ Top.i \in DOMAIN Top.steps
    BY <1>1, TopOK DEF Join
  <1>3. Top.err = <<>>
    BY <1>1, StackFacts DEF Errors, Top
  <1>4. PICK s \in Merges :
            s = MergedFrom(Before, BatchPath, Top.i, BatchEnd - 1) /\ files' = s.files
    BY <1>1, <1>2, <1>3, JoinDoes
  <1>5. /\ Before \in Merges /\ Before.files = files
        /\ DOMAIN Top.members = Top.i..BatchEnd - 1
        /\ Top.i \in Nat \ {0} /\ BatchEnd - 1 \in Nat /\ Top.i - 1 <= BatchEnd - 1
        /\ \A n \in Top.i..BatchEnd - 1 :
              BatchPath[n] = Path(n) /\ BatchPath[n] \in Places \X Paths
    BY <1>2, BatchMerge
  <1>6. \A p \in Places \X Paths :
            s.files[p] = IF \E m \in Top.i..BatchEnd - 1 : p = BatchPath[m]
                         THEN NoVars ELSE files[p]
    <2>1. \A n \in Top.i..BatchEnd - 1 : BatchPath[n] \in Places \X Paths
      BY <1>5
    <2>2. Cleared(MergedFrom(Before, BatchPath, Top.i, BatchEnd - 1),
                  Before, BatchPath, Top.i, BatchEnd - 1)
      BY <1>5, <2>1, MergeClears
    <2> QED
      BY <1>4, <1>5, <2>2 DEF Cleared
  <1>7. \A p \in Places \X Paths :
            files[p] # NoVars => \E m \in Top.i..BatchEnd - 1 : p = BatchPath[m]
    BY <1>5 DEF Written, Accounted
  <1>8. \A p \in Places \X Paths : s.files[p] = NoVars
    BY <1>6, <1>7
  <1> QED
    BY <1>4, <1>8 DEF NoFiles

(* Under Unscoped the members of a batch write where the merge looks.      *)
LEMMA AsyncPath ==
  ASSUME Unscoped, Shape, Rooted, NEW n \in DOMAIN Top.steps, ~Top.steps[n].blocking
  PROVE  OutputsFile(Scoped(roots, Top.steps[n]), Top.steps[n]) =
            OutputsFile(roots, Top.steps[n])
  <1>1. Top.steps \in Lists
    BY StackFacts, FrameFacts DEF Shape
  <1>2. Top.steps[n].artifacts = "artifacts"
    BY <1>1 DEF Lists, Unscoped
  <1>3. PICK r : r = Scoped(roots, Top.steps[n])
    OBVIOUS
  <1>4. r.artifacts = roots.artifacts /\ r.output = roots.artifacts
    BY <1>2, <1>3 DEF Scoped
  <1> QED
    BY <1>3, <1>4 DEF OutputsFile, Rooted

LEMMA WrittenReturn ==
  ASSUME Shape, Written, Return
  PROVE  Written'
  <1>1. Typed /\ Calls
    BY DEF Shape
  <1>2. /\ Len(stack) > 1 /\ Top.members = Idle
        /\ UNCHANGED <<roots, files, failed>>
    BY <1>1, ReturnDoes DEF Return
  <1>3. PICK f \in Frames :
               /\ stack' = SubSeq(stack, 1, Len(stack) - 2) \o <<f>>
               /\ f.steps = Caller.steps /\ f.i = Caller.i
               /\ Top.teardown => f.members = Caller.members
               /\ ~Top.teardown =>
                     /\ DOMAIN f.members = DOMAIN Caller.members
                     /\ Caller.i \in DOMAIN Caller.members
                     /\ f.members[Caller.i].at = IF Top.err = <<>> THEN "ok" ELSE "failed"
                     /\ f.members[Caller.i].wrote = Caller.members[Caller.i].wrote
    BY <1>1, ReturnDoes
  <1>4. /\ Waits(Caller, Top) /\ Caller \in Frames /\ FrameOK(Caller)
        /\ Len(stack) \in Nat \ {0} /\ Len(stack) - 1 \in 1..Len(stack)
    BY <1>1, <1>2, CallerFacts
  <1>5. /\ Len(stack') = Len(stack) - 1 /\ Top' = f
        /\ stack'[Len(stack) - 1] = f
        /\ \A c \in 1..Len(stack) - 2 : stack'[c] = stack[c]
    BY <1>1, <1>2, <1>3, PopFacts
  <1>6. Quiet(Caller)
    BY <1>4 DEF Written, AllQuiet, Caller
  <1>7. failed = <<>> => NoFiles
    <2>1. DOMAIN Top.members = {}
      BY <1>1, <1>2, StackFacts, FrameFacts, MembersAre
    <2> QED
      BY <2>1, NothingWritten
  <1>8. CASE Top.teardown
    <2>1. f.members = Idle
      BY <1>3, <1>4, <1>8 DEF Waits
    <2>2. Quiet(f)
      BY <2>1, QuietIdle
    <2>3. AllQuiet'
      <3>1. \A c \in 1..Len(stack') : c \in 1..Len(stack) - 2 \/ c = Len(stack) - 1
        BY <1>4, <1>5
      <3>2. \A c \in 1..Len(stack) - 2 : c \in 1..Len(stack)
        BY <1>4
      <3> QED
        BY <1>5, <2>2, <3>1, <3>2 DEF AllQuiet, Written
    <2>4. Rooted'
      BY <1>2 DEF Written, Rooted
    <2>5. (AtRestWell => Written)'
      BY WrittenAtRest, PTL
    <2>6. (failed = <<>> => NoFiles)'
      BY <1>2, <1>7 DEF NoFiles
    <2>7. Typed'
      BY CallShape DEF Shape
    <2> QED
      BY <1>5, <2>1, <2>3, <2>4, <2>5, <2>6, <2>7 DEF AtRestWell
  <1>9. CASE ~Top.teardown
    <2>1. /\ Caller.members # Idle /\ Caller.steps[Caller.i].blocking
          /\ Caller.members[Caller.i].at = "calling"
      BY <1>4, <1>9 DEF Waits
    <2>2. /\ \A n \in DOMAIN Caller.members : n = Caller.i
          /\ Packaged(Caller.steps[Caller.i])
      BY <1>3, <1>4, <1>9, <2>1 DEF FrameOK, Packaged
    <2>3. f.members[f.i].wrote = NoVars /\ f.members[f.i].at \in {"ok", "failed"}
      BY <1>3, <1>6, <1>9, <2>2 DEF Quiet
    <2>4. /\ \A n \in DOMAIN f.members : n = f.i
          /\ Packaged(f.steps[f.i]) /\ f.steps[f.i].blocking
      BY <1>3, <1>9, <2>1, <2>2
    <2>5. Quiet(f)
      BY <2>3, <2>4 DEF Quiet
    <2>6. AllQuiet'
      <3>1. \A c \in 1..Len(stack') : c \in 1..Len(stack) - 2 \/ c = Len(stack) - 1
        BY <1>4, <1>5
      <3>2. \A c \in 1..Len(stack) - 2 : c \in 1..Len(stack)
        BY <1>4
      <3> QED
        BY <1>5, <2>5, <3>1, <3>2 DEF AllQuiet, Written
    <2>7. Rooted'
      BY <1>2 DEF Written, Rooted
    <2>8. Whole'
      BY <1>5, <2>4 DEF Whole, Step
    <2>9. Placed'
      BY <1>5, <2>3, <2>4 DEF Placed
    <2>10. Accounted'
      BY <1>2, <1>7 DEF Accounted, NoFiles
    <2> QED
      BY <2>6, <2>7, <2>8, <2>9, <2>10 DEF Written
  <1> QED
    BY <1>8, <1>9

LEMMA WrittenStep ==
  Unscoped /\ Shape /\ Behind /\ Errors /\ Written /\ [Next]_vars /\ ~Background => Written'
  <1> SUFFICES ASSUME Unscoped, Shape, Behind, Errors, Written, [Next]_vars, ~Background
               PROVE  Written'
    OBVIOUS
  <1>1. Typed /\ Calls /\ Typed'
    BY ShapeStep DEF Shape
  <1>2. /\ FrameOK(Top) /\ Top \in Frames /\ Top.i \in Nat \ {0}
        /\ Top.members = Idle => DOMAIN Top.members = {}
    BY <1>1, StackFacts, FrameFacts, MembersAre, TopOK
  <1>3. (AtRestWell => Written)'
    BY WrittenAtRest, PTL
  <1>4. ASSUME NEW f \in Frames, Keeps(f), f.members = Idle, roots' = roots,
               (failed = <<>> => NoFiles)'
        PROVE  Written'
    <2>1. AllQuiet'
      BY <1>1, <1>4, QuietIdle, QuietKeeps DEF Written
    <2>2. Top' = f /\ Rooted'
      BY <1>1, <1>4, SetTopFacts DEF Keeps, Written, Rooted
    <2> QED
      BY <1>1, <1>3, <1>4, <2>1, <2>2 DEF AtRestWell
  <1>5. Top.members = Idle /\ failed = <<>> => NoFiles
    BY <1>2, NothingWritten
  <1>6. failed = <<>> => Top.err = <<>>
    BY <1>1, StackFacts DEF Errors, Top
  <1>7. CASE UNCHANGED vars \/ End \/ Interrupt
    <2>1. UNCHANGED <<stack, roots, files, failed>>
      BY <1>7 DEF vars, End, Interrupt
    <2>2. Top' = Top
      BY <2>1 DEF Top
    <2>3. Batch' = Batch /\ Step' = Step
      BY <2>2, BatchSame
    <2> QED
      BY <2>1, <2>2, <2>3 DEF Written, Rooted, AllQuiet, Whole, Placed, Accounted, Path
  <1>8. CASE RejectMounts \/ BatchFails
    <2>1. PICK f \in Frames, x \in Failures : Refuses(f, x)
      BY <1>1, <1>8, RejectMountsDoes, BatchFailsDoes
    <2>2. failed' # <<>> /\ roots' = roots
      BY <1>1, <1>8, <2>1, FailedFacts DEF Refuses, RejectMounts, BatchFails
    <2> QED
      BY <1>4, <2>1, <2>2 DEF Refuses
  <1>9. CASE BeginStep
    <2>1. /\ Top.members = Idle /\ Step.blocking /\ files' = files /\ failed' = failed
          /\ roots' = Scoped(roots, Step)
      BY <1>9 DEF BeginStep, AtRest
    <2>2. PICK f \in Frames :
               /\ Keeps(f) /\ f.i = Top.i /\ DOMAIN f.members = {Top.i}
               /\ f.members[Top.i].at = "setup" /\ f.members[Top.i].roots = roots'
               /\ f.members[Top.i].wrote = NoVars
      BY <1>1, <1>9, BeginStepDoes
    <2>3. Top' = f /\ f.steps = Top.steps
      BY <1>1, <2>2, SetTopFacts DEF Keeps
    <2>4. Rooted'
      BY <2>1 DEF Scoped, Rooted
    <2>5. AllQuiet'
      BY <1>1, <2>2, QuietKeeps DEF Written, Quiet
    <2>6. Whole'
      BY <2>1, <2>2, <2>3 DEF Whole, Step
    <2>7. Placed'
      BY <2>2, <2>3 DEF Placed, Path
    <2>8. Accounted'
      BY <1>5, <2>1 DEF Accounted, NoFiles
    <2> QED
      BY <2>4, <2>5, <2>6, <2>7, <2>8 DEF Written
  <1>10. CASE BeginBatch
    <2>1. /\ Top.members = Idle /\ Batchable /\ UNCHANGED <<files, failed, roots>>
      BY <1>10 DEF BeginBatch, AtRest
    <2>2. PICK f \in Frames :
               /\ Keeps(f) /\ f.i = Top.i /\ DOMAIN f.members = Batch
               /\ \A n \in Batch : /\ f.members[n].at = "new" /\ f.members[n].roots = roots
                                   /\ f.members[n].wrote = NoVars
      BY <1>1, <1>10, BeginBatchDoes
    <2>3. Top' = f /\ f.steps = Top.steps
      BY <1>1, <2>2, SetTopFacts DEF Keeps
    <2>4. Batch' = Batch
      BY <2>2, <2>3, BatchSame
    <2>5. Rooted'
      BY <2>1 DEF Written, Rooted
    <2>6. AllQuiet'
      BY <1>1, <2>2, QuietKeeps DEF Written, Quiet
    <2>7. Whole'
      BY <2>1, <2>2, <2>3, <2>4 DEF Whole, Batchable
    <2>8. Placed'
      BY <2>1, <2>2, <2>3 DEF Placed
    <2>9. Accounted'
      BY <1>5, <2>1 DEF Accounted, NoFiles
    <2> QED
      BY <2>5, <2>6, <2>7, <2>8, <2>9 DEF Written
  <1>11. CASE Setup
    <2>1. Top.i \in DOMAIN Top.steps /\ UNCHANGED <<roots, files, failed>>
      BY <1>1, <1>11, TopOK DEF Setup
    <2>2. PICK f \in Frames :
               /\ Moves(f, Top.i) /\ Top.members[Top.i].at = "setup"
               /\ f.members[Top.i].at = IF Step.kind = "package" THEN "calling" ELSE "running"
               /\ f.members[Top.i].roots = Top.members[Top.i].roots
               /\ f.members[Top.i].wrote = Top.members[Top.i].wrote
      BY <1>1, <1>11, <2>1, SetupMoves
    <2>3. /\ Packaged(Top.steps[Top.i]) => f.members[Top.i].at # "running"
          /\ f.members[Top.i].at # "new" /\ Top.members[Top.i].at # "new"
      BY <2>2 DEF Packaged, Step
    <2> QED
      BY <1>1, <2>1, <2>2, <2>3, WrittenMoves
  <1>12. CASE EndStep
    <2>1. Top.i \in DOMAIN Top.steps /\ UNCHANGED <<roots, failed>>
      BY <1>1, <1>12, TopOK DEF EndStep
    <2>2. PICK f \in Frames : Keeps(f) /\ f.members = Idle
      BY <1>1, <1>12, <2>1, EndStepDoes
    <2>3. (failed = <<>> => NoFiles)'
      BY <1>12, <2>1, EndStepClears
    <2> QED
      BY <1>4, <2>1, <2>2, <2>3
  <1>13. CASE StopStep
    <2>1. PICK f \in Frames :
               /\ Keeps(f) /\ f.members = Idle /\ Step.blocking
               /\ Top.i \in DOMAIN Top.members /\ Top.members[Top.i].at = "failed"
      BY <1>1, <1>13, StopStepDoes
    <2>2. Top.err # <<>>
      BY <1>2, <2>1 DEF FrameOK, Step
    <2>3. roots' = roots /\ failed' # <<>>
      BY <1>6, <1>13, <2>2 DEF StopStep
    <2> QED
      BY <1>4, <2>1, <2>3
  <1>14. CASE Join
    <2>1. Top.i \in DOMAIN Top.steps /\ UNCHANGED <<roots, failed>>
      BY <1>1, <1>14, TopOK DEF Join
    <2>2. PICK f \in Frames : Keeps(f) /\ f.members = Idle
      BY <1>1, <1>14, <2>1, JoinDoes
    <2>3. (failed = <<>> => NoFiles)'
      BY <1>14, <2>1, JoinClears
    <2> QED
      BY <1>4, <2>1, <2>2, <2>3
  <1>15. CASE CallPackage \/ Teardown
    <2>1. UNCHANGED <<roots, files, failed>>
      BY <1>15 DEF CallPackage, Teardown
    <2>2. CallPackage => Top.i \in DOMAIN Top.steps /\ Step.kind = "package"
      BY CallingFacts DEF CallPackage
    <2>3. PICK f \in Frames, g \in Frames : Opens(f, g)
      BY <1>1, <1>15, <2>2, CallPackageDoes, TeardownDoes
    <2>4. \A n \in DOMAIN Top.members : Top.members[n].wrote = NoVars
      <3>1. CASE CallPackage
        <4>1. /\ Top.i \in DOMAIN Top.members /\ Step.kind = "package" /\ Step.blocking
              /\ DOMAIN Top.members = {Top.i}
          BY <3>1, CallingFacts DEF CallPackage
        <4> QED
          BY <1>1, <4>1, QuietTop DEF Written, Quiet, Packaged, Step
      <3>2. CASE Teardown
        BY <1>2, <3>2 DEF Teardown, AtRest
      <3> QED
        BY <1>15, <3>1, <3>2
    <2>5. /\ Len(stack) \in Nat \ {0} /\ Len(stack') = Len(stack) + 1
          /\ \A c \in 1..Len(stack) - 1 : stack'[c] = stack[c]
          /\ stack'[Len(stack)] = f /\ stack'[Len(stack) + 1] = g /\ Top' = g
      BY <1>1, <2>3, PushFacts, StackFacts DEF Opens
    <2>6. Quiet(f) /\ Quiet(g)
      BY <1>1, <2>3, QuietTop, QuietIdle DEF Written, Quiet, Opens
    <2>7. AllQuiet'
      <3>1. \A c \in 1..Len(stack') : \/ c \in 1..Len(stack) - 1
                                     \/ c = Len(stack) \/ c = Len(stack) + 1
        BY <2>5
      <3>2. \A c \in 1..Len(stack) - 1 : c \in 1..Len(stack)
        BY <2>5
      <3> QED
        BY <2>5, <2>6, <3>1, <3>2 DEF AllQuiet, Written
    <2>8. Rooted'
      BY <2>1 DEF Written, Rooted
    <2>9. (failed = <<>> => NoFiles)'
      BY <2>1, <2>4, NothingWritten DEF NoFiles
    <2>10. Top'.members = Idle
      BY <2>3, <2>5 DEF Opens
    <2> QED
      BY <1>1, <1>3, <2>7, <2>8, <2>9, <2>10 DEF AtRestWell
  <1>16. CASE Return
    BY <1>16, WrittenReturn
  <1>17. ASSUME NEW n \in DOMAIN Top.members,
                MemberStart(n) \/ MemberSetup(n) \/ Write(n) \/ Succeed(n) \/ Fail(n)
         PROVE  Written'
    <2>1. n \in DOMAIN Top.steps /\ Top.members # Idle
      BY <1>1, TopOK
    <2>2. CASE MemberStart(n)
      <3>1. PICK f \in Frames :
               /\ Moves(f, n) /\ Top.members[n].at = "new" /\ f.members[n].at = "setup"
               /\ f.members[n].roots = Scoped(Top.members[n].roots, Top.steps[n])
               /\ f.members[n].wrote = Top.members[n].wrote
        BY <1>1, <2>1, <2>2, MemberStartMoves
      <3>2. ~Top.steps[n].blocking
        BY <1>2, <2>1, <3>1 DEF FrameOK
      <3>3. Top.members[n].roots = roots
        BY <3>1 DEF Written, Placed
      <3>4. OutputsFile(f.members[n].roots, Top.steps[n]) =
               OutputsFile(Top.members[n].roots, Top.steps[n])
        BY <2>1, <3>1, <3>2, <3>3, AsyncPath DEF Written
      <3>5. UNCHANGED <<roots, files, failed>>
        BY <2>2 DEF MemberStart
      <3> QED
        BY <1>1, <3>1, <3>4, <3>5, WrittenMoves
    <2>3. CASE MemberSetup(n)
      <3>1. PICK f \in Frames :
               /\ Moves(f, n) /\ Top.members[n].at = "setup" /\ f.members[n].at = "running"
               /\ ~Top.steps[n].blocking /\ f.members[n].roots = Top.members[n].roots
               /\ f.members[n].wrote = Top.members[n].wrote
        BY <1>1, <2>1, <2>3, MemberSetupMoves
      <3>2. UNCHANGED <<roots, files, failed>>
        BY <2>3 DEF MemberSetup
      <3>3. ~Packaged(Top.steps[n])
        BY <3>1 DEF Packaged
      <3> QED
        BY <1>1, <3>1, <3>2, <3>3, WrittenMoves
    <2>4. CASE Write(n)
      BY <2>4, WrittenWrite
    <2>5. CASE Succeed(n)
      <3>1. PICK f \in Frames :
               /\ Moves(f, n) /\ Top.members[n].at = "running" /\ f.members[n].at = "ok"
               /\ f.members[n].roots = Top.members[n].roots
               /\ f.members[n].wrote = Top.members[n].wrote
        BY <1>1, <2>5, SucceedMoves
      <3>2. UNCHANGED <<roots, files, failed>>
        BY <2>5 DEF Succeed
      <3> QED
        BY <1>1, <3>1, <3>2, WrittenMoves
    <2>6. CASE Fail(n)
      <3>1. PICK f \in Frames, x \in Failures :
               /\ Moves(f, n) /\ failed' = Append(failed, x)
               /\ Top.members[n].at \in {"setup", "calling", "running"}
               /\ f.members[n].at = "failed"
               /\ f.members[n].roots = Top.members[n].roots
               /\ f.members[n].wrote = Top.members[n].wrote
        BY <1>1, <2>1, <2>6, FailMoves
      <3>2. UNCHANGED <<roots, files>> /\ failed' # <<>>
        BY <1>1, <2>6, <3>1, FailedFacts DEF Fail
      <3> QED
        BY <1>1, <3>1, <3>2, WrittenMoves
    <2> QED
      BY <1>17, <2>2, <2>3, <2>4, <2>5, <2>6
  <1> QED
    BY <1>7, <1>8, <1>9, <1>10, <1>11, <1>12, <1>13, <1>14, <1>15, <1>16, <1>17, NextIs

(* As long as no container was left in the background.                     *)
Undisturbed == background = <<>> => Written

LEMMA WrittenInvariant == Unscoped => (Spec => []Undisturbed)
  <1> SUFFICES ASSUME Unscoped
               PROVE  Spec => []Undisturbed
    OBVIOUS
  <1>1. Init => Written
    <2> SUFFICES ASSUME Init
                 PROVE  Written
      OBVIOUS
    <2>1. Typed /\ Top.members = Idle /\ Len(stack) = 1 /\ stack[1] = Top
      BY ShapeInit, InitFacts DEF Shape
    <2>2. Rooted
      BY DEF Init, Rooted
    <2>3. AllQuiet
      BY <2>1, StackFacts, QuietIdle DEF AllQuiet
    <2>4. NoFiles
      BY DEF Init, NoFiles
    <2> QED
      BY <2>1, <2>2, <2>3, <2>4, WrittenAtRest DEF AtRestWell
  <1>2. Shape /\ Behind /\ Errors /\ Undisturbed /\ [Next]_vars => Undisturbed'
    BY WrittenStep, BehindNothing DEF Undisturbed
  <1>3. Init => Undisturbed
    BY <1>1 DEF Undisturbed
  <1> QED
    BY <1>2, <1>3, ShapeInvariant, BehindInvariant, ErrorsInvariant, PTL DEF Spec

(* A step or a batch that is over has ended well when nothing has failed.  *)
LEMMA EndsWell ==
  ASSUME Shape, Errors, [Next]_vars, Top.members # Idle, failed = <<>>,
         stack'[Len(stack)].members = Idle
  PROVE  EndStep \/ Join
  <1>1. Typed /\ Calls
    BY DEF Shape
  <1>2. FrameOK(Top) /\ Top = stack[Len(stack)] /\ Top.err = <<>>
    BY <1>1, TopOK, StackFacts DEF Errors, Top
  <1>3. ~ (UNCHANGED vars) /\ ~End /\ ~Interrupt /\ ~Background
    BY <1>2 DEF vars, End, Interrupt, Background
  <1>4. ~ (RejectMounts \/ BeginStep \/ BeginBatch \/ BatchFails \/ Teardown \/ Return)
    BY DEF RejectMounts, BeginStep, BeginBatch, BatchFails, Teardown, Return, AtRest
  <1>5. ~StopStep
    <2> SUFFICES ASSUME StopStep
                 PROVE  FALSE
      OBVIOUS
    <2> QED
      BY <1>2 DEF StopStep, FrameOK, Step
  <1>6. ASSUME NEW f, NEW n, Moves(f, n)
        PROVE  FALSE
    <2>1. stack'[Len(stack)] = f /\ f \in Frames /\ n \in DOMAIN f.members
      BY <1>1, <1>6, SetTopFacts DEF Moves, Keeps
    <2> QED
      BY <2>1, FrameFacts, MembersAre
  <1>7. ~Setup
    <2> SUFFICES ASSUME Setup
                 PROVE  FALSE
      OBVIOUS
    <2>1. Top.i \in DOMAIN Top.steps
      BY <1>1, TopOK DEF Setup
    <2> QED
      BY <1>1, <1>6, <2>1, SetupMoves
  <1>8. ~CallPackage
    <2> SUFFICES ASSUME CallPackage
                 PROVE  FALSE
      OBVIOUS
    <2>1. Top.i \in DOMAIN Top.steps /\ Step.kind = "package"
      BY CallingFacts DEF CallPackage
    <2>2. PICK f \in Frames, g \in Frames : Opens(f, g)
      BY <1>1, <2>1, CallPackageDoes
    <2>3. stack'[Len(stack)] = f /\ f.members = Top.members
      BY <1>1, <2>2, PushFacts DEF Opens
    <2> QED
      BY <2>3
  <1>9. ASSUME NEW n \in DOMAIN Top.members,
               MemberStart(n) \/ MemberSetup(n) \/ Write(n) \/ Succeed(n) \/ Fail(n)
        PROVE  FALSE
    <2>1. n \in DOMAIN Top.steps
      BY <1>1, TopOK
    <2> QED
      BY <1>1, <1>6, <1>9, <2>1, MemberStartMoves, MemberSetupMoves, WriteMoves, SucceedMoves,
         FailMoves
  <1> QED
    BY <1>3, <1>4, <1>5, <1>7, <1>8, <1>9, NextIs

(* A finished step has ended: its file has been merged.                    *)
LEMMA EndStepMerges ==
  ASSUME Shape, Written, failed = <<>>, EndStep
  PROVE  /\ Top.i \in DOMAIN Top.members /\ \A n \in DOMAIN Top.members : n = Top.i
         /\ Before \in Merges /\ Before.env = env /\ Before.docker = Top.docker
         /\ Before.files = files
         /\ env' = Applied(Before, Path(Top.i)).env
         /\ stack'[Len(stack)].docker = Applied(Before, Path(Top.i)).docker
  <1>1. Typed /\ Calls
    BY DEF Shape
  <1>2. /\ Top.i \in DOMAIN Top.members /\ Top.i \in DOMAIN Top.steps /\ Step.blocking
        /\ FrameOK(Top) /\ Top.members # Idle
    BY <1>1, TopOK DEF EndStep
  <1>3. PICK f \in Frames, s \in Merges :
            /\ Keeps(f) /\ s = Applied(Before, Path(Top.i))
            /\ env' = s.env /\ f.docker = s.docker
    BY <1>1, <1>2, EndStepDoes DEF Before, Path, Step
  <1>4. \A n \in DOMAIN Top.members : n = Top.i
    BY <1>2 DEF FrameOK, Step
  <1>5. /\ Before \in Merges /\ Before.env = env /\ Before.docker = Top.docker
        /\ Before.files = files
    <2>1. Top.docker \in Map
      BY <1>1, StackFacts, FrameFacts
    <2> HIDE DEF Map, Places
    <2> QED
      BY <1>1, <2>1 DEF Before, Merges, Typed
  <1>6. stack'[Len(stack)] = f
    BY <1>1, <1>3, SetTopFacts DEF Keeps
  <1> QED
    BY <1>2, <1>3, <1>4, <1>5, <1>6

LEMMA JoinMerges ==
  ASSUME Shape, Errors, Written, failed = <<>>, Join
  PROVE  /\ Top.members # Idle /\ ~Step.blocking
         /\ env' = MergedFrom(Before, BatchPath, Top.i, BatchEnd - 1).env
         /\ stack'[Len(stack)].docker =
               MergedFrom(Before, BatchPath, Top.i, BatchEnd - 1).docker
  <1>1. Typed /\ Calls
    BY DEF Shape
  <1>2. Top.members # Idle /\ ~Step.blocking /\ Top.i \in DOMAIN Top.steps
    BY <1>1, TopOK DEF Join
  <1>3. Top.err = <<>>
    BY <1>1, StackFacts DEF Errors, Top
  <1>4. PICK f \in Frames, s \in Merges :
            /\ Keeps(f) /\ s = MergedFrom(Before, BatchPath, Top.i, BatchEnd - 1)
            /\ env' = s.env /\ f.docker = s.docker
    BY <1>1, <1>2, <1>3, JoinDoes
  <1>5. stack'[Len(stack)] = f
    BY <1>1, <1>4, SetTopFacts DEF Keeps
  <1> QED
    BY <1>2, <1>4, <1>5

(* The value that a member wrote, and no later member of its batch.        *)
LEMMA EndStepSets ==
  ASSUME Shape, Written, failed = <<>>, EndStep, NEW k \in Keys, k \notin Locked,
         NEW last \in DOMAIN Top.members, NEW v, v = Top.members[last].wrote[k],
         v # None, v # Empty
  PROVE  env'[k] = v /\ stack'[Len(stack)].docker[k] = v
  <1>1. /\ \A n \in DOMAIN Top.members : n = Top.i
        /\ Before \in Merges /\ Before.files = files
        /\ env' = Applied(Before, Path(Top.i)).env
        /\ stack'[Len(stack)].docker = Applied(Before, Path(Top.i)).docker
    BY EndStepMerges
  <1>2. last = Top.i
    BY <1>1
  <1>3. files[Path(last)] = Top.members[last].wrote /\ Path(last) \in Places \X Paths
    BY FilesFound
  <1>4. Before.files[Path(Top.i)][k] = v /\ Path(Top.i) \in Places \X Paths
    BY <1>1, <1>2, <1>3
  <1>5. Takes(Before.env, k, v)
    BY DEF Takes
  <1>6. /\ Applied(Before, Path(Top.i)).env[k] = v
        /\ Applied(Before, Path(Top.i)).docker[k] = v
    BY <1>1, <1>4, <1>5, AppliedAt
  <1> QED
    BY <1>1, <1>6

LEMMA JoinSets ==
  ASSUME Shape, Errors, Written, failed = <<>>, Join, NEW k \in Keys, k \notin Locked,
         NEW last \in DOMAIN Top.members, NEW v, v = Top.members[last].wrote[k],
         v # None, v # Empty,
         \A n \in DOMAIN Top.members : Top.members[n].wrote[k] # None => n <= last
  PROVE  env'[k] = v /\ stack'[Len(stack)].docker[k] = v
  <1>1. /\ Top.members # Idle /\ ~Step.blocking
        /\ env' = MergedFrom(Before, BatchPath, Top.i, BatchEnd - 1).env
        /\ stack'[Len(stack)].docker =
              MergedFrom(Before, BatchPath, Top.i, BatchEnd - 1).docker
    BY JoinMerges
  <1>2. /\ Before \in Merges /\ Before.files = files
        /\ DOMAIN Top.members = Top.i..BatchEnd - 1
        /\ Top.i \in Nat \ {0} /\ BatchEnd - 1 \in Nat /\ Top.i - 1 <= BatchEnd - 1
        /\ \A n \in Top.i..BatchEnd - 1 :
              BatchPath[n] = Path(n) /\ BatchPath[n] \in Places \X Paths
        /\ \A n, m \in Top.i..BatchEnd - 1 : BatchPath[n] = BatchPath[m] => n = m
    BY <1>1, BatchMerge
  <1>3. PICK i \in Nat \ {0} : i = Top.i
    BY <1>2
  <1>4. PICK j \in Nat : j = BatchEnd - 1
    BY <1>2
  <1>5. PICK t \in Merges : t = Before /\ t.files = files
    BY <1>2
  <1>6. PICK b : b = BatchPath
    OBVIOUS
  <1>7. /\ i - 1 <= j /\ last \in i..j /\ DOMAIN Top.members = i..j
        /\ \A n, m \in i..j : b[n] = b[m] => n = m
    BY <1>2, <1>3, <1>4, <1>6
  <1>8. \A n \in i..j : b[n] \in Places \X Paths /\ b[n] = Path(n)
    BY <1>2, <1>3, <1>4, <1>6
  <1>9. \A n \in i..j : t.files[b[n]] = Top.members[n].wrote
    BY <1>5, <1>7, <1>8, FilesFound
  <1>10. v = t.files[b[last]][k]
    BY <1>7, <1>9
  <1>11. ASSUME NEW n \in last + 1..j
         PROVE  t.files[b[n]][k] = None
    <2>1. n \in i..j /\ ~ (n <= last)
      BY <1>7
    <2> QED
      BY <1>7, <1>9, <2>1
  <1>12. MergedFrom(t, b, i, j).env[k] = v /\ MergedFrom(t, b, i, j).docker[k] = v
    <2>1. LastFor(k, last, t, b, i, j)
      BY <1>7, <1>8, <1>10, <1>11 DEF LastFor
    <2> HIDE DEF Merges
    <2> QED
      BY <1>7, <1>10, <2>1, MergeLast
  <1> QED
    BY <1>1, <1>3, <1>4, <1>5, <1>6, <1>12

(* What the finished steps wrote is in both environments after the merge,  *)
(* and of several members of a batch that wrote a key the last in the file *)
(* wins, in whatever order they ran: for batches that keep their artifacts *)
(* where the workflow does.                                                *)
THEOREM LastWriterHolds == Unscoped => (Spec => LastWriterWins)
  <1> SUFFICES ASSUME Unscoped
               PROVE  Spec => LastWriterWins
    OBVIOUS
  <1>1. Spec => []Undisturbed
    BY WrittenInvariant
  <1>2. Shape /\ Errors /\ Undisturbed /\ [Next]_vars => [LastWriterStep]_vars
    <2> SUFFICES ASSUME Shape, Errors, Written, [Next]_vars, NEW k \in Keys,
                        Top.members # Idle, failed = <<>>,
                        stack'[Len(stack)].members = Idle,
                        NEW wrote, wrote = {n \in DOMAIN Top.members :
                                               Top.members[n].wrote[k] # None},
                        NEW last, last = CHOOSE n \in wrote : \A m \in wrote : m <= n,
                        NEW value, value = Top.members[last].wrote[k],
                        wrote # {}, k \notin Locked, value # Empty
                 PROVE  env'[k] = value /\ stack'[Len(stack)].docker[k] = value
      BY DEF LastWriterStep, Undisturbed
    <2>1. EndStep \/ Join
      BY EndsWell
    <2>2. Len(Top.steps) \in Nat /\ DOMAIN Top.members \subseteq 1..Len(Top.steps)
      BY StackFacts, FrameFacts, ListFacts, TopOK DEF Shape, FrameOK
    <2>3. wrote \subseteq 1..Len(Top.steps)
      BY <2>2
    <2>4. \E n \in wrote : \A m \in wrote : m <= n
      BY <2>2, <2>3, Greatest
    <2>5. last \in wrote /\ \A m \in wrote : m <= last
      BY <2>4
    <2>6. \A n \in wrote : n \in DOMAIN Top.members /\ Top.members[n].wrote[k] # None
      OBVIOUS
    <2>7. last \in DOMAIN Top.members /\ value # None
      BY <2>5, <2>6
    <2>8. \A n \in DOMAIN Top.members : Top.members[n].wrote[k] # None => n <= last
      BY <2>5
    <2> QED
      BY <2>1, <2>7, <2>8, EndStepSets, JoinSets
  <1> QED
    BY <1>1, <1>2, ShapeInvariant, ErrorsInvariant, PTL DEF Spec, LastWriterWins

(* A step or a batch that wrote nothing changes no variable when it ends:  *)
(* no earlier outputs are merged again.                                    *)
THEOREM OutputsUsedOnce == Unscoped => (Spec => OutputsAreUsedOnce)
  <1> SUFFICES ASSUME Unscoped
               PROVE  Spec => OutputsAreUsedOnce
    OBVIOUS
  <1>1. Spec => []Undisturbed
    BY WrittenInvariant
  <1>2. Shape /\ Errors /\ Undisturbed /\ [Next]_vars => [UsedOnceStep]_vars
    <2> SUFFICES ASSUME Shape, Errors, Written, [Next]_vars,
                        Running, Top.members # Idle, failed = <<>>,
                        stack'[Len(stack)].members = Idle,
                        \A n \in DOMAIN Top.members : Top.members[n].wrote = NoVars
                 PROVE  env' = env
      BY DEF UsedOnceStep, Undisturbed
    <2>1. \A n \in DOMAIN Top.members :
             files[Path(n)] = NoVars /\ Path(n) \in Places \X Paths
      BY FilesFound
    <2>2. CASE EndStep
      <3>1. /\ Top.i \in DOMAIN Top.members
            /\ Before \in Merges /\ Before.files = files /\ Before.env = env
            /\ env' = Applied(Before, Path(Top.i)).env
        BY <2>2, EndStepMerges
      <3> QED
        BY <2>1, <3>1, AppliedNothing
    <2>3. CASE Join
      <3>1. /\ Top.members # Idle /\ ~Step.blocking
            /\ env' = MergedFrom(Before, BatchPath, Top.i, BatchEnd - 1).env
        BY <2>3, JoinMerges
      <3>2. /\ Before \in Merges /\ Before.files = files /\ Before.env = env
            /\ DOMAIN Top.members = Top.i..BatchEnd - 1
            /\ Top.i \in Nat \ {0} /\ BatchEnd - 1 \in Nat /\ Top.i - 1 <= BatchEnd - 1
            /\ \A n \in Top.i..BatchEnd - 1 :
                  BatchPath[n] = Path(n) /\ BatchPath[n] \in Places \X Paths
        BY <3>1, BatchMerge
      <3>3. \A n \in Top.i..BatchEnd - 1 :
               BatchPath[n] \in Places \X Paths /\ Before.files[BatchPath[n]] = NoVars
        BY <2>1, <3>2
      <3>4. MergedFrom(Before, BatchPath, Top.i, BatchEnd - 1).env = Before.env
        BY <3>2, <3>3, MergeNothing
      <3> QED
        BY <3>1, <3>2, <3>4
    <2> QED
      BY <2>2, <2>3, EndsWell
  <1> QED
    BY <1>1, <1>2, ShapeInvariant, ErrorsInvariant, PTL DEF Spec, OutputsAreUsedOnce

=============================================================================
