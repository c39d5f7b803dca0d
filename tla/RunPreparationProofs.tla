------------------------ MODULE RunPreparationProofs ------------------------
(***************************************************************************)
(* Theorems about RunPreparation, for any repositories, configurations,    *)
(* machines and worktrees: which layer decides a setting of the policy,    *)
(* that a rerun of the gates goes through the same, that a report which    *)
(* passes has gone through all that the plan owes, that a declared stack   *)
(* decides whose gates run, that the reader of .proto files finds what is  *)
(* there, and that the graph of the domains is whole.                      *)
(***************************************************************************)
EXTENDS RunPreparation, FiniteSetTheorems, WellFoundedInduction, TLAPS

-----------------------------------------------------------------------------
\* Settings

\* Every value that a layer holds is one, or is junk.
Readable(l) ==
  \A name \in {"toml", "env", "cli"} :
    \A k \in DOMAIN l[name] : l[name][k].is \in {"value", "junk"}

\* What the layers make of a setting of the policy: the environment's value,
\* else the file's, else the default.
LEMMA SettingOf ==
  ASSUME NEW l, NEW k \in PolicyKeys
  PROVE  Load(l)[k] = IF Gives(l.env, k) THEN l.env[k].value
                      ELSE IF Gives(l.toml, k) THEN l.toml[k].value ELSE Defaults[k]
<1> DEFINE merged == [n \in Keys |-> IF Gives(l.toml, n) THEN l.toml[n].value ELSE Defaults[n]]
           base   == AfterToml(l)
           named  == WithRepo(base, l.cli)
<1>1. k \in Keys /\ k \in EnvKeys /\ k \notin {"oom_policy", "repo"}
  BY ConstantsAssumption DEF PolicyKeys, Keys, EnvKeys
<1>2. base = merged \/ base = [merged EXCEPT !.oom_policy = merged.kill_policy]
  BY DEF AfterToml, FromToml
<1>3. /\ DOMAIN base = Keys
      /\ base[k] = IF Gives(l.toml, k) THEN l.toml[k].value ELSE Defaults[k]
  BY <1>1, <1>2
<1>4. named = base \/ named = [base EXCEPT !.repo = l.cli["repo"].value]
  BY DEF WithRepo
<1>5. named[k] = base[k]
  <2> HIDE DEF named, base
  <2>1. QED
    BY <1>1, <1>3, <1>4
<1>6. Load(l)[k] = IF Gives(l.env, k) THEN l.env[k].value ELSE named[k]
  BY <1>1 DEF Load, FromEnv
<1>7. QED
  BY <1>3, <1>5, <1>6

LEMMA LayersStay == Readable(layers) /\ [Next]_vars => Readable(layers)'
<1> SUFFICES ASSUME Readable(layers), [Next]_vars PROVE layers' = layers
  BY DEF Readable
<1>1. CASE Next
  BY <1>1 DEF Next, given, ungated, ReadArguments, LoadSettings, DecidePolicy, Inspect, TakeDeclared,
              TakeDetected, AskTracker, TrackerFails, JudgeFindings, ProbeCodex, RequireToken, CheckMcp,
              ResolveBackend, EnsureImage, ProbeContainer, EndDryRun, GoOn, CheckCheckout, Work, Gating,
              RunAgain
<1>2. CASE UNCHANGED vars
  BY <1>2 DEF vars, given
<1>3. QED
  BY <1>1, <1>2

\* The layer that the banner names for a setting of the policy gave its value,
\* whatever the layers hold, as long as it is no junk.
THEOREM NamedLayer == Spec => []NamedLayerDecides
<1>1. Init => Readable(layers)
  BY ConstantsAssumption DEF Init, Readable
<1>2. Readable(layers) => NamedLayerDecides
  <2> SUFFICES ASSUME Readable(layers),
                      \A l \in {"cli", "env", "toml"} :
                        \A n \in DOMAIN layers[l] : layers[l][n].is # "junk",
                      NEW k \in PolicyKeys
               PROVE  Policy(layers, settings)[k] =
                        IF PolicySource(layers, k) = "default" THEN Defaults[k]
                        ELSE LayerNamed(k)[k].value
    BY DEF NamedLayerDecides
  <2>1. /\ Gives(layers.cli, k) <=> Present(layers.cli, k)
        /\ Gives(layers.env, k) <=> Present(layers.env, k)
        /\ Gives(layers.toml, k) <=> Present(layers.toml, k)
    BY DEF Readable, Gives, Present
  <2>2. Policy(layers, settings)[k] =
          IF Gives(layers.cli, k) THEN layers.cli[k].value ELSE settings[k]
    BY DEF Policy
  <2>3. settings[k] = IF Gives(layers.env, k) THEN layers.env[k].value
                      ELSE IF Gives(layers.toml, k) THEN layers.toml[k].value ELSE Defaults[k]
    BY SettingOf DEF settings
  <2>4. CASE Present(layers.cli, k)
    BY <2>1, <2>2, <2>4 DEF PolicySource, LayerNamed
  <2>5. CASE ~ Present(layers.cli, k) /\ Present(layers.env, k)
    BY <2>1, <2>2, <2>3, <2>5 DEF PolicySource, BaseSource, LayerNamed
  <2>6. CASE ~ Present(layers.cli, k) /\ ~ Present(layers.env, k)
    BY <2>1, <2>2, <2>3, <2>6 DEF PolicySource, BaseSource, LayerNamed
  <2>7. QED
    BY <2>4, <2>5, <2>6
<1>3. QED
  BY <1>1, <1>2, LayersStay, PTL DEF Spec

-----------------------------------------------------------------------------
\* Sequences

LEMMA Least ==
  ASSUME NEW T, T \subseteq Nat, T # {}
  PROVE  \E x \in T : \A y \in T : x <= y
<1> DEFINE Below == {0 .. n : n \in T}
<1>1. Below \subseteq FiniteSubsetsOf(Nat) /\ Below # {}
  <2>1. \A n \in T : 0 .. n \in SUBSET Nat /\ IsFiniteSet(0 .. n)
    BY FS_Interval
  <2>2. QED
    BY <2>1 DEF FiniteSubsetsOf
<1>2. PICK B \in Below : \A C \in Below : <<C, B>> \notin StrictSubsetOrdering(Nat)
  <2> HIDE DEF Below
  <2>1. QED
    BY <1>1, FS_StrictSubsetOrderingWellFounded, WFMin
<1>3. PICK x \in T : B = 0 .. x
  BY <1>2
<1>4. ASSUME NEW y \in T, ~ (x <= y) PROVE FALSE
  <2>1. 0 .. y \in Below /\ 0 .. y \subseteq 0 .. x /\ x \in 0 .. x /\ x \notin 0 .. y
    BY <1>4
  <2>2. <<0 .. y, 0 .. x>> \in StrictSubsetOrdering(Nat)
    BY <2>1 DEF StrictSubsetOrdering
  <2>3. QED
    BY <1>2, <1>3, <2>1, <2>2
<1>5. QED
  BY <1>4

\* Induction over the numbers up to n, on the set of those that it holds for.
LEMMA Upward ==
  ASSUME NEW n \in Nat, NEW T, 0 \in T, \A i \in 0 .. n - 1 : i \in T => i + 1 \in T
  PROVE  0 .. n \subseteq T
<1> SUFFICES ASSUME (0 .. n) \ T # {} PROVE FALSE
  OBVIOUS
<1>1. PICK x \in (0 .. n) \ T : \A y \in (0 .. n) \ T : x <= y
  <2> DEFINE R == (0 .. n) \ T
  <2>1. R \subseteq Nat /\ R # {}
    OBVIOUS
  <2> HIDE DEF R
  <2>2. \E x \in R : \A y \in R : x <= y
    BY <2>1, Least
  <2>3. QED
    BY <2>2 DEF R
<1>2. x - 1 \in 0 .. n - 1 /\ x - 1 \notin T
  BY <1>1
<1>3. x - 1 \in (0 .. n) \ T
  BY <1>2
<1>4. QED
  BY <1>1, <1>3

\* The sequences of a sequence, one after another.

LEMMA Concatenated == ASSUME NEW S, NEW u \in Seq(S), NEW v \in Seq(S) PROVE u \o v \in Seq(S)
  OBVIOUS

LEMMA Flattened ==
  ASSUME NEW S, NEW seqs \in Seq(Seq(S))
  PROVE  FlattenSeq(seqs) \in Seq(S)
<1> DEFINE n == Len(seqs)
           Is(f, k) == /\ f = [i \in 1 .. k |-> IF i = 1 THEN seqs[i] ELSE f[i - 1] \o seqs[i]]
                       /\ \A i \in 1 .. k : f[i] \in Seq(S)
           T == {k \in 0 .. n : \E f : Is(f, k)}
<1>1. n \in Nat /\ \A i \in 1 .. n : seqs[i] \in Seq(S)
  OBVIOUS
<1>2. 0 \in T
  <2>1. Is(<<>>, 0)
    OBVIOUS
  <2> HIDE DEF Is
  <2>2. QED
    BY <1>1, <2>1
<1>3. ASSUME NEW k \in 0 .. n - 1, k \in T PROVE k + 1 \in T
  <2>1. PICK f : Is(f, k)
    BY <1>3
  <2> DEFINE g == [i \in 1 .. k + 1 |-> IF i <= k THEN f[i] ELSE IF i = 1 THEN seqs[i] ELSE f[k] \o seqs[i]]
  <2>2. k \in Nat /\ k + 1 \in 1 .. n /\ DOMAIN f = 1 .. k /\ \A i \in 1 .. k : f[i] \in Seq(S)
    BY <1>1, <2>1
  <2>3. ASSUME NEW i \in 1 .. k + 1
        PROVE  g[i] \in Seq(S) /\ g[i] = IF i = 1 THEN seqs[i] ELSE g[i - 1] \o seqs[i]
    <3>1. CASE i <= k
      <4>1. i \in 1 .. k /\ (i # 1 => i - 1 \in 1 .. k)
        BY <2>2, <3>1
      <4>2. f[i] = IF i = 1 THEN seqs[i] ELSE f[i - 1] \o seqs[i]
        BY <2>1, <4>1
      <4>3. g[i] = f[i] /\ (i # 1 => g[i - 1] = f[i - 1])
        BY <3>1, <4>1
      <4> HIDE DEF g
      <4>4. QED
        BY <2>2, <4>1, <4>2, <4>3
    <3>2. CASE i = k + 1
      <4>1. g[i] = IF i = 1 THEN seqs[i] ELSE f[k] \o seqs[i]
        BY <2>2, <3>2
      <4>2. i # 1 => k \in 1 .. k /\ g[i - 1] = f[k] /\ f[k] \in Seq(S)
        BY <2>2, <3>2
      <4>3. seqs[i] \in Seq(S)
        BY <1>1, <2>2, <3>2
      <4> HIDE DEF g
      <4>4. QED
        BY <2>2, <3>2, <4>1, <4>2, <4>3
    <3>3. QED
      BY <2>2, <3>1, <3>2
  <2>4. Is(g, k + 1)
    <3>1. g = [i \in 1 .. k + 1 |-> g[i]]
      OBVIOUS
    <3> HIDE DEF g
    <3>2. QED
      BY <2>3, <3>1
  <2> HIDE DEF Is, g
  <2>5. QED
    BY <2>2, <2>4
<1>4. n \in T
  <2>1. \A k \in 0 .. n - 1 : k \in T => k + 1 \in T
    BY <1>3
  <2> HIDE DEF T, n
  <2>2. 0 .. n \subseteq T
    BY <1>1, <1>2, <2>1, Upward
  <2>3. QED
    BY <1>1, <2>2
<1>5. CASE n = 0
  <2>1. seqs = <<>>
    BY <1>5
  <2>2. QED
    BY <2>1 DEF FlattenSeq
<1>6. CASE n # 0
  <2> DEFINE P(h) == h = [i \in 1 .. n |-> IF i = 1 THEN seqs[i] ELSE h[i - 1] \o seqs[i]]
             f == CHOOSE h : P(h)
  <2>1. FlattenSeq(seqs) = f[n]
    BY <1>6, Zenon DEF FlattenSeq
  <2>2. \E h : P(h)
    BY <1>4
  <2>3. P(f)
    <3> HIDE DEF P
    <3>1. QED
      BY <2>2
  <2> HIDE DEF f
  <2>4. ASSUME NEW i \in 1 .. n PROVE f[i] = IF i = 1 THEN seqs[i] ELSE f[i - 1] \o seqs[i]
    <3> HIDE DEF n
    <3>1. QED
      BY <2>3
  <2> HIDE DEF P
  <2> DEFINE U == {0} \cup {i \in 1 .. n : f[i] \in Seq(S)}
  <2>5. ASSUME NEW i \in 0 .. n - 1, i \in U PROVE i + 1 \in U
    <3> HIDE DEF n
    <3>1. i \in Nat /\ i + 1 \in 1 .. n /\ seqs[i + 1] \in Seq(S) /\ (i + 1) - 1 = i
      BY <1>1
    <3>2. f[i + 1] = IF i + 1 = 1 THEN seqs[i + 1] ELSE f[(i + 1) - 1] \o seqs[i + 1]
      BY <2>4, <3>1
    <3>3. i # 0 => f[i] \in Seq(S)
      BY <2>5
    <3>4. f[i + 1] \in Seq(S)
      <4>1. CASE i = 0
        BY <3>1, <3>2, <4>1
      <4>2. CASE i # 0
        <5>1. f[i + 1] = f[i] \o seqs[i + 1]
          <6>1. i + 1 # 1
            BY <3>1, <4>2
          <6>2. QED
            BY <3>1, <3>2, <6>1, Zenon
        <5>2. f[i] \in Seq(S)
          BY <3>3, <4>2
        <5>3. f[i] \o seqs[i + 1] \in Seq(S)
          BY <3>1, <5>2, Concatenated
        <5>4. QED
          BY <5>1, <5>3
      <4>3. QED
        BY <4>1, <4>2
    <3>5. QED
      BY <3>1, <3>4
  <2>6. n \in U
    <3>1. 0 \in U /\ \A i \in 0 .. n - 1 : i \in U => i + 1 \in U
      BY <2>5
    <3> HIDE DEF U, n
    <3>2. 0 .. n \subseteq U
      BY <1>1, <3>1, Upward
    <3>3. QED
      BY <1>1, <3>2
  <2>7. QED
    BY <1>6, <2>1, <2>6
<1>7. QED
  BY <1>5, <1>6

-----------------------------------------------------------------------------
\* The plan of a repository

\* A plan: a sequence of commands of the names and directories there are.
IsCommand(c) ==
  c = Command(c.name, c.dir, c.tool, c.does) /\ c.name \in CommandNames /\ c.dir \in Dirs
IsPlan(plan) == plan \in Seq(ToSet(plan)) /\ \A k \in DOMAIN plan : IsCommand(plan[k])

\* A set in a sequence.
LEMMA InSequence ==
  ASSUME NEW A, IsFiniteSet(A)
  PROVE  SetToSeq(A) \in Seq(A)
<1>1. Cardinality(A) \in Nat /\ \E f \in [1 .. Cardinality(A) -> A] : IsInjective(f)
  BY FS_CardinalityType DEF ExistsBijection, Bijection, Injection
<1>2. SetToSeq(A) \in [1 .. Cardinality(A) -> A]
  <2> DEFINE n == Cardinality(A)
  <2> HIDE DEF n
  <2>1. (CHOOSE f \in [1 .. n -> A] : IsInjective(f)) \in [1 .. n -> A]
    BY <1>1 DEF n
  <2>2. QED
    BY <2>1 DEF SetToSeq, n
<1>3. QED
  BY <1>1, <1>2

LEMMA ThoseOf ==
  ASSUME NEW A, NEW s \in Seq(A), NEW set
  PROVE  Those(s, set) \in Seq(A \cap set)
<1> DEFINE parts == [i \in DOMAIN s |-> IF s[i] \in set THEN <<s[i]>> ELSE <<>>]
<1>1. Len(s) \in Nat /\ DOMAIN s = 1 .. Len(s) /\ \A i \in DOMAIN s : s[i] \in A
  OBVIOUS
<1>2. \A i \in DOMAIN s : (IF s[i] \in set THEN <<s[i]>> ELSE <<>>) \in Seq(A \cap set)
  <2> DEFINE B == A \cap set
  <2>1. <<>> \in Seq(B) /\ \A x \in B : <<x>> \in Seq(B)
    <3> HIDE DEF B
    <3>1. QED
      OBVIOUS
  <2>2. \A i \in DOMAIN s : s[i] \in set => s[i] \in B
    BY <1>1
  <2> HIDE DEF B
  <2>3. QED
    <3>1. \A i \in DOMAIN s : (IF s[i] \in set THEN <<s[i]>> ELSE <<>>) \in Seq(B)
      BY <2>1, <2>2
    <3>2. QED
      BY <3>1 DEF B
<1>3. parts \in Seq(Seq(A \cap set))
  <2> DEFINE R == Seq(A \cap set)
  <2>1. DOMAIN parts = 1 .. Len(s) /\ parts = [i \in 1 .. Len(s) |-> parts[i]] /\ \A i \in 1 .. Len(s) : parts[i] \in R
    BY <1>1, <1>2
  <2> HIDE DEF parts, R
  <2>2. parts \in [1 .. Len(s) -> R]
    BY <2>1
  <2>3. QED
    BY <1>1, <2>2 DEF R
<1>4. Those(s, set) = FlattenSeq(parts)
  BY DEF Those
<1> HIDE DEF parts
<1>5. QED
  BY <1>3, <1>4, Flattened

LEMMA PlansFlattened ==
  ASSUME NEW plans, plans \in Seq(ToSet(plans)), \A i \in DOMAIN plans : IsPlan(plans[i])
  PROVE  IsPlan(FlattenSeq(plans))
<1> DEFINE C == UNION {ToSet(plans[i]) : i \in DOMAIN plans}
<1>1. \A c \in C : IsCommand(c)
  BY DEF IsPlan, ToSet
<1>2. ASSUME NEW i \in DOMAIN plans PROVE plans[i] \in Seq(C)
  <2>1. plans[i] \in Seq(ToSet(plans[i])) /\ ToSet(plans[i]) \subseteq C
    BY DEF IsPlan
  <2> HIDE DEF C
  <2>2. QED
    BY <2>1
<1>3. plans \in Seq(Seq(C))
  <2> HIDE DEF C
  <2>1. Len(plans) \in Nat /\ plans = [i \in 1 .. Len(plans) |-> plans[i]] /\ DOMAIN plans = 1 .. Len(plans)
    OBVIOUS
  <2>2. QED
    BY <1>2, <2>1
<1> HIDE DEF C
<1>4. FlattenSeq(plans) \in Seq(C)
  BY <1>3, Flattened
<1> DEFINE plan == FlattenSeq(plans)
<1> HIDE DEF plan
<1>5. plan \in Seq(C) => plan \in Seq(ToSet(plan)) /\ \A k \in DOMAIN plan : plan[k] \in C
  BY DEF ToSet
<1>6. QED
  BY <1>1, <1>4, <1>5 DEF IsPlan, plan

LEMMA NamedPlan ==
  ASSUME NEW names \in Seq(CommandNames), NEW d \in Dirs, NEW tool
  PROVE  IsPlan(Named(names, d, tool))
<1> DEFINE plan == Named(names, d, tool)
<1>1. Len(names) \in Nat /\ DOMAIN names = 1 .. Len(names) /\ \A i \in DOMAIN names : names[i] \in CommandNames
  OBVIOUS
<1>2. DOMAIN plan = 1 .. Len(names) /\ plan = [i \in 1 .. Len(names) |-> plan[i]]
      /\ \A i \in DOMAIN plan : plan[i] = Command(names[i], d, tool, names[i])
  BY <1>1 DEF Named
<1>3. \A i \in DOMAIN plan : IsCommand(plan[i])
  BY <1>1, <1>2 DEF IsCommand, Command
<1> HIDE DEF plan
<1>4. plan \in Seq(ToSet(plan))
  BY <1>1, <1>2 DEF ToSet
<1>5. QED
  BY <1>3, <1>4 DEF IsPlan, plan

LEMMA OfItsMembers ==
  ASSUME NEW A, NEW s \in Seq(A)
  PROVE  s \in Seq(ToSet(s))
<1>1. Len(s) \in Nat /\ DOMAIN s = 1 .. Len(s) /\ s = [i \in 1 .. Len(s) |-> s[i]]
  OBVIOUS
<1>2. \A i \in 1 .. Len(s) : s[i] \in ToSet(s)
  BY <1>1 DEF ToSet
<1>3. QED
  BY <1>1, <1>2

LEMMA NamesOfCommands ==
  {RustNames, PythonNames, GolangNames, DenoNames, ScriptNames} \subseteq Seq(CommandNames)
<1> SUFFICES ASSUME NEW names \in {RustNames, PythonNames, GolangNames, DenoNames, ScriptNames}
             PROVE  names \in Seq(CommandNames)
  OBVIOUS
<1>1. ToSet(names) \subseteq CommandNames
  BY DEF CommandNames
<1>2. names \in Seq(ToSet(names))
  <2>1. CASE names = RustNames
    <3>1. names \in Seq({"fmt", "clippy", "nextest", "doc_tests", "deny", "machete"})
      BY <2>1 DEF RustNames
    <3>2. QED
      BY <3>1, OfItsMembers
  <2>2. CASE names = PythonNames
    <3>1. names \in Seq({"sync", "format", "lint", "types", "test", "audit", "deps"})
      BY <2>2 DEF PythonNames
    <3>2. QED
      BY <3>1, OfItsMembers
  <2>3. CASE names = GolangNames
    <3>1. names \in Seq({"gofmt", "mod_verify", "tidy_check", "vet", "golangci_lint", "vulncheck", "test"})
      BY <2>3 DEF GolangNames
    <3>2. QED
      BY <3>1, OfItsMembers
  <2>4. CASE names = DenoNames
    <3>1. names \in Seq({"fmt", "lint", "test"})
      BY <2>4 DEF DenoNames
    <3>2. QED
      BY <3>1, OfItsMembers
  <2>5. CASE names = ScriptNames
    <3>1. names \in Seq({"lint", "typecheck", "test", "build"})
      BY <2>5 DEF ScriptNames
    <3>2. QED
      BY <3>1, OfItsMembers
  <2>6. QED
    BY <2>1, <2>2, <2>3, <2>4, <2>5
<1>3. QED
  BY <1>1, <1>2

LEMMA ModulePlans == ASSUME NEW d \in Dirs PROVE IsPlan(ModulePlan(d))
<1> DEFINE plan == ModulePlan(d)
<1>1. GolangNames \in Seq(CommandNames)
  BY NamesOfCommands
<1>2. Len(GolangNames) \in Nat /\ DOMAIN GolangNames = 1 .. Len(GolangNames)
      /\ \A i \in DOMAIN GolangNames : GolangNames[i] \in CommandNames
  BY <1>1
<1>3. DOMAIN plan = 1 .. Len(GolangNames) /\ plan = [i \in 1 .. Len(GolangNames) |-> plan[i]]
      /\ \A i \in DOMAIN plan : plan[i] = Command(GolangNames[i], d, GoTool(GolangNames[i]), GolangNames[i])
  BY <1>2 DEF ModulePlan
<1>4. \A i \in DOMAIN plan : IsCommand(plan[i])
  BY <1>2, <1>3 DEF IsCommand, Command
<1> HIDE DEF plan
<1>5. plan \in Seq(ToSet(plan))
  BY <1>2, <1>3 DEF ToSet
<1>6. QED
  BY <1>4, <1>5 DEF IsPlan, plan

LEMMA ShortPlans ==
  /\ IsPlan(<<>>)
  /\ \A c : IsCommand(c) => IsPlan(<<c>>)
<1>1. IsPlan(<<>>)
  BY DEF IsPlan
<1>2. ASSUME NEW c, IsCommand(c) PROVE IsPlan(<<c>>)
  <2>1. <<c>> \in Seq({c}) /\ DOMAIN <<c>> = {1} /\ <<c>>[1] = c
    OBVIOUS
  <2>2. <<c>> \in Seq(ToSet(<<c>>))
    BY <2>1, OfItsMembers
  <2>3. QED
    BY <1>2, <2>1, <2>2 DEF IsPlan
<1>3. QED
  BY <1>1, <1>2

LEMMA PlansJoined ==
  ASSUME NEW p, NEW q, IsPlan(p), IsPlan(q)
  PROVE  IsPlan(p \o q)
<1> DEFINE C == ToSet(p) \cup ToSet(q)
           r == p \o q
<1>1. p \in Seq(C) /\ q \in Seq(C) /\ \A c \in C : IsCommand(c)
  <2>1. p \in Seq(ToSet(p)) /\ q \in Seq(ToSet(q))
    BY DEF IsPlan
  <2>2. ToSet(p) \subseteq C /\ ToSet(q) \subseteq C
    OBVIOUS
  <2>3. \A c \in C : IsCommand(c)
    BY DEF IsPlan, ToSet
  <2> HIDE DEF C
  <2>4. QED
    BY <2>1, <2>2, <2>3
<1> HIDE DEF C
<1>2. r \in Seq(C)
  BY <1>1, Concatenated
<1> HIDE DEF r
<1>3. r \in Seq(ToSet(r)) /\ \A k \in DOMAIN r : r[k] \in C
  BY <1>2, OfItsMembers
<1>4. QED
  BY <1>1, <1>3 DEF IsPlan, r

LEMMA ProjectPlans ==
  ASSUME NEW r, NEW d \in Dirs, NEW manager, NEW installs
  PROVE  IsPlan(ProjectPlan(r, d, manager, installs))
<1> DEFINE install == IF installs THEN <<Install(r, d, manager)>> ELSE <<>>
           biome   == IF UsesBiome(r, d) THEN <<Command("biome", d, "npx", "biome check")>> ELSE <<>>
           scripts == Named(Scripts(r, d), d, manager)
           smoke   == IF "framework" \in PackageJson(r, d).uses /\ Smoke(r, d) # <<>>
                      THEN <<Command("framework_smoke", d, manager, Head(Smoke(r, d)))>> ELSE <<>>
<1>1. {"install", "biome", "framework_smoke"} \subseteq CommandNames
  <2> DEFINE others == UNION {ToSet(names) : names \in {RustNames, PythonNames, GolangNames, DenoNames, ScriptNames}}
  <2>1. CommandNames = others \cup {"install", "biome", "framework_smoke"}
    BY DEF CommandNames
  <2> HIDE DEF others
  <2>2. QED
    BY <2>1
<1>2. ASSUME NEW name \in {"install", "biome", "framework_smoke"}, NEW tool, NEW does
      PROVE  IsPlan(<<Command(name, d, tool, does)>>)
  <2>1. IsCommand(Command(name, d, tool, does))
    BY <1>1 DEF IsCommand, Command
  <2>2. QED
    BY <2>1, ShortPlans
<1>3. IsPlan(install)
  <2> DEFINE does == IF manager = "npm" THEN "ci"
                     ELSE IF manager = "yarn" /\ PackageJson(r, d).manager # "yarn@1" THEN "install --immutable"
                     ELSE "install --frozen-lockfile"
  <2>1. Install(r, d, manager) = Command("install", d, manager, does)
    BY Zenon DEF Install
  <2> HIDE DEF does
  <2>2. QED
    BY <1>2, <2>1, ShortPlans
<1>4. IsPlan(biome)
  <2> DEFINE check == "biome check"
  <2>1. biome = IF UsesBiome(r, d) THEN <<Command("biome", d, "npx", check)>> ELSE <<>>
    BY Zenon
  <2> HIDE DEF biome, check
  <2>2. QED
    BY <1>2, <2>1, ShortPlans
<1>5. IsPlan(scripts)
  <2>1. ScriptNames \in Seq(CommandNames)
    BY NamesOfCommands
  <2>2. Scripts(r, d) \in Seq(CommandNames \cap PackageJson(r, d).scripts)
    BY <2>1, ThoseOf DEF Scripts
  <2>3. Scripts(r, d) \in Seq(CommandNames)
    BY <2>2
  <2>4. QED
    BY <2>3, NamedPlan
<1>6. IsPlan(smoke)
  BY <1>2, ShortPlans
<1>7. IsPlan(Named(DenoNames, d, "deno"))
  <2>1. DenoNames \in Seq(CommandNames)
    BY NamesOfCommands
  <2>2. QED
    BY <2>1, NamedPlan
<1>8. ProjectPlan(r, d, manager, installs)
        = IF manager = "deno" THEN Named(DenoNames, d, "deno") ELSE install \o biome \o scripts \o smoke
  BY DEF ProjectPlan
<1> HIDE DEF install, biome, scripts, smoke
<1>9. IsPlan(install \o biome)
  BY <1>3, <1>4, PlansJoined
<1>10. IsPlan((install \o biome) \o scripts)
  BY <1>5, <1>9, PlansJoined
<1>11. IsPlan(((install \o biome) \o scripts) \o smoke)
  BY <1>6, <1>10, PlansJoined
<1>12. QED
  BY <1>7, <1>8, <1>11

\* One after another, the plans of the members of a sequence.
LEMMA PlansInSequence ==
  ASSUME NEW A, NEW s \in Seq(A), NEW plans, DOMAIN plans = DOMAIN s,
         plans = [i \in DOMAIN s |-> plans[i]], \A i \in DOMAIN s : IsPlan(plans[i])
  PROVE  IsPlan(FlattenSeq(plans))
<1>1. Len(s) \in Nat /\ DOMAIN s = 1 .. Len(s)
  OBVIOUS
<1>2. \A i \in 1 .. Len(s) : plans[i] \in ToSet(plans)
  BY <1>1 DEF ToSet
<1>3. plans \in Seq(ToSet(plans))
  BY <1>1, <1>2
<1>4. QED
  BY <1>3, PlansFlattened

LEMMA RootsOfDirs ==
  ASSUME NEW r
  PROVE  /\ SetToSeq(OrRoot(ModuleRoots(r))) \in Seq(Dirs)
         /\ SetToSeq(OrRoot(ProjectRoots(r))) \in Seq(Dirs)
<1> SUFFICES ASSUME NEW roots \in {ModuleRoots(r), ProjectRoots(r)}
             PROVE  SetToSeq(OrRoot(roots)) \in Seq(Dirs)
  OBVIOUS
<1>1. roots \subseteq Dirs
  BY DEF ModuleRoots, ProjectRoots, RootsOf
<1>2. OrRoot(roots) \subseteq Dirs /\ IsFiniteSet(OrRoot(roots))
  <2>1. OrRoot(roots) \subseteq Dirs
    BY <1>1, DirsAssumption DEF OrRoot
  <2>2. QED
    BY <2>1, DirsAssumption, FS_Subset
<1>3. SetToSeq(OrRoot(roots)) \in Seq(OrRoot(roots))
  BY <1>2, InSequence
<1> HIDE DEF OrRoot
<1>4. QED
  BY <1>2, <1>3

LEMMA LanguagePlans ==
  ASSUME NEW r, NEW s
  PROVE  IsPlan(LanguagePlan(r, s))
<1>1. IsPlan(RustPlan) /\ IsPlan(PythonPlan)
  BY DirsAssumption, NamesOfCommands, NamedPlan DEF RustPlan, PythonPlan
<1>2. IsPlan(GolangPlan(r))
  <2> DEFINE roots == SetToSeq(OrRoot(ModuleRoots(r)))
             plans == [i \in DOMAIN roots |-> ModulePlan(roots[i])]
  <2>1. roots \in Seq(Dirs)
    BY RootsOfDirs
  <2>2. GolangPlan(r) = FlattenSeq(plans)
    BY DEF GolangPlan
  <2> HIDE DEF roots
  <2>3. \A i \in DOMAIN roots : IsPlan(plans[i])
    BY <2>1, ModulePlans
  <2>4. DOMAIN plans = DOMAIN roots /\ plans = [i \in DOMAIN roots |-> plans[i]]
    OBVIOUS
  <2> HIDE DEF plans
  <2>5. QED
    BY <2>1, <2>2, <2>3, <2>4, PlansInSequence
<1>3. IsPlan(TypescriptPlan(r))
  <2> DEFINE roots == SetToSeq(OrRoot(ProjectRoots(r)))
             plan(d) == ProjectPlan(r, d,
                          PackageManager(r, IF d = "." \/ HasOwnManager(r, d) THEN d ELSE "."),
                          d = "." \/ (HasOwnManager(r, d) /\ ~PackageJson(r, ".").workspaces))
             plans == [i \in DOMAIN roots |-> plan(roots[i])]
  <2>1. roots \in Seq(Dirs)
    BY RootsOfDirs
  <2>2. TypescriptPlan(r) = FlattenSeq(plans)
    BY DEF TypescriptPlan
  <2>3. \A d \in Dirs : IsPlan(plan(d))
    BY ProjectPlans
  <2> HIDE DEF roots, plan
  <2>4. \A i \in DOMAIN roots : IsPlan(plans[i])
    BY <2>1, <2>3
  <2>5. DOMAIN plans = DOMAIN roots /\ plans = [i \in DOMAIN roots |-> plans[i]]
    OBVIOUS
  <2> HIDE DEF plans
  <2>6. QED
    BY <2>1, <2>2, <2>4, <2>5, PlansInSequence
<1>4. QED
  BY <1>1, <1>2, <1>3, ShortPlans DEF LanguagePlan

LEMMA StrictPlans ==
  ASSUME NEW r, NEW stack
  PROVE  IsPlan(StrictPlan(r, stack))
<1>1. CASE stack = "mixed"
  <2> DEFINE plans == [i \in DOMAIN Detected(r) |-> LanguagePlan(r, Detected(r)[i])]
  <2>1. StackOrder \in Seq({"typescript", "rust", "golang", "python"})
    BY DEF StackOrder
  <2>2. \E A : Detected(r) \in Seq(A)
    BY <2>1, ThoseOf DEF Detected
  <2>3. \A i \in DOMAIN Detected(r) : IsPlan(plans[i])
    BY LanguagePlans
  <2>4. DOMAIN plans = DOMAIN Detected(r) /\ plans = [i \in DOMAIN Detected(r) |-> plans[i]]
    OBVIOUS
  <2>5. StrictPlan(r, stack) = FlattenSeq(plans)
    BY <1>1 DEF StrictPlan
  <2> HIDE DEF plans
  <2>6. QED
    BY <2>2, <2>3, <2>4, <2>5, PlansInSequence
<1>2. CASE stack # "mixed"
  BY <1>2, LanguagePlans DEF StrictPlan
<1>3. QED
  BY <1>1, <1>2

\* The plan of a repository is a sequence of the commands there are.
LEMMA QualityPlans ==
  ASSUME NEW r, NEW stack, NEW profile
  PROVE  IsPlan(QualityPlan(r, stack, profile))
<1> DEFINE strict == StrictPlan(r, stack)
           kept == Those(strict, {c \in ToSet(strict) : Passes(c, stack, profile)})
           plan == [i \in DOMAIN kept |-> Renamed(kept[i], stack, profile)]
<1>1. IsPlan(strict)
  BY StrictPlans
<1>2. QualityPlan(r, stack, profile) = plan
  BY DEF QualityPlan
<1>3. kept \in Seq(ToSet(strict))
  <2> DEFINE some == {c \in ToSet(strict) : Passes(c, stack, profile)}
  <2>1. some \subseteq ToSet(strict)
    OBVIOUS
  <2>2. kept \in Seq(ToSet(strict) \cap some)
    BY <1>1, ThoseOf DEF IsPlan
  <2> HIDE DEF some, strict, kept
  <2>3. QED
    BY <2>1, <2>2
<1>4. \A c \in ToSet(strict) : IsCommand(c)
  BY <1>1 DEF IsPlan, ToSet
<1> HIDE DEF strict, kept
<1>5. Len(kept) \in Nat /\ DOMAIN kept = 1 .. Len(kept) /\ \A i \in DOMAIN kept : IsCommand(kept[i])
  BY <1>3, <1>4
<1>6. ASSUME NEW c, IsCommand(c) PROVE IsCommand(Renamed(c, stack, profile))
  <2>1. "test" \in CommandNames
    <3>1. PythonNames[5] = "test" /\ 5 \in DOMAIN PythonNames
      BY DEF PythonNames
    <3>2. "test" \in ToSet(PythonNames)
      BY <3>1 DEF ToSet
    <3>3. QED
      BY <3>2 DEF CommandNames
  <2>2. QED
    BY <1>6, <2>1 DEF Renamed, IsCommand, Command
<1>7. DOMAIN plan = 1 .. Len(kept) /\ plan = [i \in 1 .. Len(kept) |-> plan[i]]
      /\ \A i \in 1 .. Len(kept) : IsCommand(plan[i])
  BY <1>5, <1>6
<1> HIDE DEF plan
<1>8. plan \in Seq(ToSet(plan))
  BY <1>5, <1>7 DEF ToSet
<1>9. QED
  BY <1>2, <1>7, <1>8 DEF IsPlan

-----------------------------------------------------------------------------
\* The order of gates, and where they come from

Letters == ToSet(Alphabet)

\* Gates that their domain, name, directory and place in the plan tell apart.
AreGates(gates) ==
  /\ IsFiniteSet(gates)
  /\ \A g \in gates : {g.domain, g.name, g.dir} \subseteq Letters /\ g.at \in Nat
  /\ \A g, h \in gates : g.domain = h.domain /\ g.name = h.name /\ g.dir = h.dir /\ g.at = h.at => g = h

LEMMA Ranked ==
  /\ \A a \in Letters : Rank[a] \in Nat
  /\ \A a, b \in Letters : Rank[a] = Rank[b] => a = b
<1>1. ASSUME NEW a \in Letters PROVE Rank[a] \in DOMAIN Alphabet /\ Alphabet[Rank[a]] = a
  <2>1. \E i \in DOMAIN Alphabet : Alphabet[i] = a
    BY DEF Letters, ToSet
  <2>2. Rank[a] = CHOOSE i \in DOMAIN Alphabet : Alphabet[i] = a
    BY DEF Rank, Letters
  <2>3. QED
    BY <2>1, <2>2
<1>2. DOMAIN Alphabet \subseteq Nat
  BY AlphabetAssumption
<1>3. QED
  BY <1>1, <1>2

LEMMA Ordered ==
  ASSUME NEW gates, AreGates(gates)
  PROVE  /\ \A g \in gates : ~ Before(g, g)
         /\ \A f, g, h \in gates : Before(f, g) /\ Before(g, h) => Before(f, h)
         /\ \A g, h \in gates : g # h => Before(g, h) \/ Before(h, g)
<1>1. \A g \in gates : /\ Rank[g.domain] \in Nat /\ Rank[g.name] \in Nat /\ Rank[g.dir] \in Nat /\ g.at \in Nat
                       /\ g.domain \in Letters /\ g.name \in Letters /\ g.dir \in Letters
  BY Ranked DEF AreGates
<1>2. \A g \in gates : ~ Before(g, g)
  BY <1>1 DEF Before
<1>3. ASSUME NEW f \in gates, NEW g \in gates, NEW h \in gates, Before(f, g), Before(g, h) PROVE Before(f, h)
  BY <1>1, <1>3 DEF Before
<1>4. ASSUME NEW g \in gates, NEW h \in gates, g # h PROVE Before(g, h) \/ Before(h, g)
  <2>1. \/ Rank[g.domain] # Rank[h.domain]
        \/ g.domain = h.domain /\ Rank[g.name] # Rank[h.name]
        \/ g.domain = h.domain /\ g.name = h.name /\ Rank[g.dir] # Rank[h.dir]
        \/ g.domain = h.domain /\ g.name = h.name /\ g.dir = h.dir /\ g.at # h.at
    BY <1>1, <1>4, Ranked DEF AreGates
  <2>2. \A m, n \in Nat : m # n => m < n \/ n < m
    OBVIOUS
  <2>3. QED
    BY <1>1, <2>1, <2>2 DEF Before
<1>5. QED
  BY <1>2, <1>3, <1>4

\* The order loses no gate.
LEMMA SortedListsAll ==
  ASSUME NEW gates, AreGates(gates)
  PROVE  /\ Sorted(gates) \in Seq(gates)
         /\ \A g \in gates : \E k \in DOMAIN Sorted(gates) : Sorted(gates)[k] = g
<1> DEFINE n == Cardinality(gates)
           Below(g) == {h \in gates : Before(h, g)}
           place == [g \in gates |-> Cardinality(Below(g))]
<1>1. IsFiniteSet(gates) /\ n \in Nat
  BY FS_CardinalityType DEF AreGates
<1>2. ASSUME NEW g \in gates
      PROVE  IsFiniteSet(Below(g)) /\ place[g] = Cardinality(Below(g)) /\ place[g] \in 0 .. n - 1
  <2>1. Below(g) \subseteq gates \ {g}
    BY Ordered
  <2>2. IsFiniteSet(gates \ {g}) /\ Cardinality(gates \ {g}) = n - 1
    BY <1>1, FS_RemoveElement
  <2>3. IsFiniteSet(Below(g)) /\ Cardinality(Below(g)) <= n - 1
    <3> HIDE DEF Below, n
    <3>1. QED
      BY <2>1, <2>2, FS_Subset
  <2>4. Cardinality(Below(g)) \in Nat
    BY <2>3, FS_CardinalityType
  <2>5. QED
    <3>1. place[g] = Cardinality(Below(g))
      OBVIOUS
    <3> HIDE DEF place, Below, n
    <3>2. QED
      BY <1>1, <2>3, <2>4, <3>1
<1>3. ASSUME NEW g \in gates, NEW h \in gates, Before(g, h) PROVE place[g] < place[h]
  <2>1. Below(g) \cup {g} \subseteq Below(h) /\ g \notin Below(g)
    BY <1>3, Ordered
  <2> HIDE DEF Below, place
  <2>2. Cardinality(Below(g) \cup {g}) = Cardinality(Below(g)) + 1
    BY <1>2, <2>1, FS_AddElement
  <2>3. Cardinality(Below(g) \cup {g}) <= Cardinality(Below(h))
    BY <1>2, <2>1, FS_Subset
  <2>4. QED
    BY <1>1, <1>2, <2>2, <2>3
<1>4. ASSUME NEW g \in gates, NEW h \in gates, place[g] = place[h] PROVE g = h
  <2>1. ~ Before(g, h) /\ ~ Before(h, g)
    <3> HIDE DEF place
    <3>1. place[g] \in 0 .. n - 1 /\ place[h] \in 0 .. n - 1
      BY <1>2
    <3>2. QED
      BY <1>3, <1>4, <3>1
  <2>2. QED
    BY <2>1, Ordered
<1>5. \A k \in 1 .. n : \E g \in gates : place[g] = k - 1
  <2> DEFINE S == 0 .. n - 1
  <2>1. place \in [gates -> S]
    <3>1. place = [g \in gates |-> place[g]]
      OBVIOUS
    <3> HIDE DEF place
    <3>2. QED
      BY <1>2, <3>1
  <2>2. IsFiniteSet(S) /\ Cardinality(S) = n
    <3> HIDE DEF n
    <3>1. QED
      BY <1>1, FS_Interval
  <2>3. place \in Injection(gates, S)
    <3> HIDE DEF place, S
    <3>1. QED
      BY <1>4, <2>1 DEF Injection, IsInjective
  <2>4. place \in Surjection(gates, S)
    <3> HIDE DEF place, S
    <3>1. QED
      BY <2>2, <2>3, FS_Injection
  <2>5. \A i \in S : \E g \in gates : place[g] = i
    <3> HIDE DEF place, S
    <3>1. QED
      BY <2>4 DEF Surjection
  <2> HIDE DEF place, n
  <2>6. QED
    BY <1>1, <2>5
<1>6. ASSUME NEW k \in 1 .. n
      PROVE  Sorted(gates)[k] \in gates /\ place[Sorted(gates)[k]] = k - 1
  <2> DEFINE Here(g) == g \in gates /\ Cardinality(Below(g)) = k - 1
  <2>1. Sorted(gates)[k] = CHOOSE g \in gates : Cardinality(Below(g)) = k - 1
    BY DEF Sorted
  <2>2. \E g \in gates : Cardinality(Below(g)) = k - 1
    BY <1>2, <1>5
  <2>3. Sorted(gates)[k] \in gates /\ Cardinality(Below(Sorted(gates)[k])) = k - 1
    <3> HIDE DEF Below
    <3>1. QED
      BY <2>1, <2>2
  <2>4. QED
    BY <1>2, <2>3
<1>7. DOMAIN Sorted(gates) = 1 .. n /\ Sorted(gates) = [k \in 1 .. n |-> Sorted(gates)[k]]
  <2> DEFINE at(k) == CHOOSE g \in gates : Cardinality({h \in gates : Before(h, g)}) = k - 1
  <2>1. Sorted(gates) = [k \in 1 .. n |-> at(k)]
    BY DEF Sorted
  <2> HIDE DEF at, n
  <2>2. QED
    BY <2>1
<1>8. Sorted(gates) \in Seq(gates)
  <2> DEFINE s == Sorted(gates)
  <2>1. s = [k \in 1 .. n |-> s[k]] /\ \A k \in 1 .. n : s[k] \in gates
    BY <1>6, <1>7
  <2>2. s \in Seq(gates)
    <3> HIDE DEF s, n
    <3>1. QED
      BY <1>1, <2>1
  <2>3. QED
    BY <2>2
<1>9. ASSUME NEW g \in gates PROVE \E k \in DOMAIN Sorted(gates) : Sorted(gates)[k] = g
  <2> DEFINE k == place[g] + 1
  <2>1. k \in 1 .. n /\ k - 1 = place[g]
    <3>1. place[g] \in 0 .. n - 1
      BY <1>2
    <3> HIDE DEF place, n
    <3>2. QED
      BY <1>1, <3>1
  <2> HIDE DEF place, n
  <2>2. Sorted(gates)[k] \in gates /\ place[Sorted(gates)[k]] = place[g]
    BY <1>6, <2>1
  <2>3. Sorted(gates)[k] = g
    BY <1>4, <2>2
  <2>4. QED
    BY <1>7, <2>1, <2>3
<1>10. QED
  BY <1>8, <1>9

Stacks == Languages \cup {"mixed", "unknown"}

LEMMA LanguagesAre == Languages = {"typescript", "rust", "golang", "python"}
<1>1. DOMAIN StackOrder = 1 .. 4
  BY DEF StackOrder
<1>2. 1 .. 4 = {1, 2, 3, 4}
  OBVIOUS
<1>3. QED
  BY <1>1, <1>2 DEF Languages, ToSet, StackOrder

LEMMA LanguageDomainsAre ==
  /\ LanguageDomains = {"language.typescript", "language.rust", "language.golang", "language.python"}
  /\ \A s \in Languages : LanguageDomain[s] \in LanguageDomains
  BY LanguagesAre DEF LanguageDomains, LanguageDomain

LEMMA LanguageOfCommands ==
  ASSUME NEW stack \in Stacks \ {"unknown"}, NEW c, LanguageOf(stack, c) # "none"
  PROVE  LanguageOf(stack, c) \in Languages /\ (stack # "mixed" => LanguageOf(stack, c) = stack)
<1>1. Inferred(c) \in {"rust", "golang", "python", "typescript", "none"}
  BY DEF Inferred
<1>2. QED
  BY <1>1, LanguagesAre DEF LanguageOf, Stacks

LEMMA AlphabetHas ==
  /\ IsFiniteSet(Letters)
  /\ Dirs \cup CommandNames \cup GateNames \cup LanguageDomains \cup GateDomains \subseteq Letters
<1>1. IsFiniteSet(DOMAIN Alphabet)
  <2>1. Len(Alphabet) \in Nat /\ DOMAIN Alphabet = 1 .. Len(Alphabet)
    BY AlphabetAssumption
  <2>2. QED
    BY <2>1, FS_Interval
<1>2. Alphabet \in Surjection(DOMAIN Alphabet, Letters)
  <2>1. Alphabet \in [DOMAIN Alphabet -> Letters]
    BY AlphabetAssumption DEF Letters, ToSet
  <2>2. QED
    BY <2>1 DEF Surjection, Letters, ToSet
<1>3. QED
  BY <1>1, <1>2, FS_Surjection, AlphabetAssumption DEF Letters

\* The gates of the plan.
LEMMA LanguageGatesAre ==
  ASSUME NEW stack \in Stacks, NEW plan, IsPlan(plan)
  PROVE  /\ AreGates(LanguageGates(stack, plan))
         /\ \A g \in LanguageGates(stack, plan) : g.runs /\ g.domain \in LanguageDomains /\ g.at # 0
         /\ stack \in Languages => \A g \in LanguageGates(stack, plan) : g.domain = LanguageDomain[stack]
         /\ \A k \in Known(stack, plan) : \E g \in LanguageGates(stack, plan) : g.at = k
<1> DEFINE gate(k) == LanguageGate(LanguageOf(stack, plan[k]), plan[k], k)
           places == Known(stack, plan)
           gates == LanguageGates(stack, plan)
           made == [k \in places |-> gate(k)]
<1>1. gates = {gate(k) : k \in places}
  BY DEF LanguageGates
<1>2. places \subseteq DOMAIN plan /\ DOMAIN plan = 1 .. Len(plan) /\ Len(plan) \in Nat
  <2>1. places \subseteq DOMAIN plan
    BY DEF Known
  <2>2. plan \in Seq(ToSet(plan))
    BY DEF IsPlan
  <2>3. DOMAIN plan = 1 .. Len(plan) /\ Len(plan) \in Nat
    BY <2>2
  <2> HIDE DEF places
  <2>4. QED
    BY <2>1, <2>3, Zenon
<1>3. IsFiniteSet(places)
  <2>1. IsFiniteSet(1 .. Len(plan))
    BY <1>2, FS_Interval
  <2> HIDE DEF places
  <2>2. QED
    BY <1>2, <2>1, FS_Subset
<1>4. ASSUME NEW k \in places
      PROVE  /\ gate(k).at = k /\ gate(k).runs /\ gate(k).dir \in Dirs /\ gate(k).name \in CommandNames
             /\ gate(k).domain = LanguageDomain[LanguageOf(stack, plan[k])]
             /\ LanguageOf(stack, plan[k]) \in Languages
             /\ stack \in Languages => LanguageOf(stack, plan[k]) = stack
  <2>1. stack # "unknown" /\ LanguageOf(stack, plan[k]) # "none" /\ k \in DOMAIN plan
    BY DEF Known
  <2>2. plan[k].name \in CommandNames /\ plan[k].dir \in Dirs
    BY <2>1 DEF IsPlan, IsCommand
  <2>3. LanguageOf(stack, plan[k]) \in Languages /\ (stack # "mixed" => LanguageOf(stack, plan[k]) = stack)
    BY <2>1, LanguageOfCommands
  <2>4. stack \in Languages => stack # "mixed"
    BY LanguagesAre
  <2>5. QED
    BY <2>2, <2>3, <2>4 DEF LanguageGate
<1> HIDE DEF gate, places, gates
<1>5. IsFiniteSet(gates)
  <2>1. made \in Surjection(places, gates)
    BY <1>1 DEF Surjection
  <2> HIDE DEF made
  <2>2. QED
    BY <1>3, <2>1, FS_Surjection
<1>6. \A g \in gates : \E k \in places : g = gate(k)
  BY <1>1
<1>7. AreGates(gates)
  <2>1. ASSUME NEW g \in gates PROVE {g.domain, g.name, g.dir} \subseteq Letters /\ g.at \in Nat
    <3>1. PICK k \in places : g = gate(k)
      BY <1>6
    <3>2. g.domain \in LanguageDomains /\ g.name \in CommandNames /\ g.dir \in Dirs /\ g.at = k
      BY <1>4, <3>1, LanguageDomainsAre
    <3>3. k \in Nat
      BY <1>2
    <3>4. QED
      BY <3>2, <3>3, AlphabetHas
  <2>2. \A g, h \in gates : g.at = h.at => g = h
    BY <1>4, <1>6
  <2>3. QED
    BY <1>5, <2>1, <2>2 DEF AreGates
<1>8. \A g \in gates : g.runs /\ g.domain \in LanguageDomains /\ g.at # 0
  <2>1. \A k \in places : k # 0
    BY <1>2
  <2>2. QED
    BY <1>4, <1>6, <2>1, LanguageDomainsAre
<1>9. \A k \in places : gate(k) \in gates
  BY <1>1
<1>10. QED
  <2>1. stack \in Languages => \A g \in gates : g.domain = LanguageDomain[stack]
    BY <1>4, <1>6
  <2>2. \A k \in places : \E g \in gates : g.at = k
    BY <1>4, <1>9
  <2>3. QED
    BY <1>7, <1>8, <2>1, <2>2 DEF gates, places
\* The gates of the domains, whatever is composed: rows of the tables.
LEMMA RowsAreApart ==
  /\ \A row \in FindingGates : row \notin CommandGates /\ row \notin OptInGates /\ row # Degraded
  /\ \A row \in CommandGates : row \notin OptInGates /\ row # Degraded
  /\ \A row \in OptInGates : row # Degraded
  /\ \A row \in CommandGates \cup OptInGates : row[1] \notin LanguageDomains
  /\ \A row \in GateRows : row = <<row[1], row[2]>>
  BY LanguageDomainsAre DEF FindingGates, CommandGates, OptInGates, Degraded, GateRows

Runs(row) == row \in CommandGates \cup OptInGates
LEMMA GatesOfRows ==
  ASSUME NEW r, NEW d, NEW g \in GatesOf(r, d)
  PROVE  \E row \in GateRows : /\ row[1] = d
                               /\ g = Gate(d, row[2], Runs(row), row \in OptInGates)
<1> DEFINE of(rows) == {row \in rows : row[1] = d}
           found == {Gate(d, row[2], FALSE, FALSE) : row \in of(FindingGates)}
           commands == {Gate(d, row[2], TRUE, FALSE) : row \in of(CommandGates)}
           optIns == {Gate(d, row[2], TRUE, TRUE) : row \in of(OptInGates)}
<1>1. \/ d = Degraded[1] /\ g = Gate(d, Degraded[2], FALSE, FALSE)
      \/ g \in found \cup commands \cup optIns
  BY DEF GatesOf
<1>2. CASE d = Degraded[1] /\ g = Gate(d, Degraded[2], FALSE, FALSE)
  <2>1. Degraded \in GateRows /\ Runs(Degraded) = FALSE /\ (Degraded \in OptInGates) = FALSE
    BY RowsAreApart DEF GateRows, Runs
  <2>2. QED
    BY <1>2, <2>1
<1>3. CASE g \in found
  <2>1. PICK row \in FindingGates : row[1] = d /\ g = Gate(d, row[2], FALSE, FALSE)
    BY <1>3
  <2>2. row \in GateRows /\ Runs(row) = FALSE /\ (row \in OptInGates) = FALSE
    BY RowsAreApart DEF GateRows, Runs
  <2>3. QED
    BY <2>1, <2>2
<1>4. CASE g \in commands
  <2>1. PICK row \in CommandGates : row[1] = d /\ g = Gate(d, row[2], TRUE, FALSE)
    BY <1>4
  <2>2. row \in GateRows /\ Runs(row) = TRUE /\ (row \in OptInGates) = FALSE
    BY RowsAreApart DEF GateRows, Runs
  <2>3. QED
    BY <2>1, <2>2
<1>5. CASE g \in optIns
  <2>1. PICK row \in OptInGates : row[1] = d /\ g = Gate(d, row[2], TRUE, TRUE)
    BY <1>5
  <2>2. row \in GateRows /\ Runs(row) = TRUE /\ (row \in OptInGates) = TRUE
    BY DEF GateRows, Runs
  <2>3. QED
    BY <2>1, <2>2
<1>6. QED
  BY <1>1, <1>2, <1>3, <1>4, <1>5

LEMMA DomainGatesAre ==
  ASSUME NEW r, NEW selection
  PROVE  /\ AreGates(DomainGates(r, selection))
         /\ \A g \in DomainGates(r, selection) : g.at = 0
         /\ \A g \in DomainGates(r, selection) : g.runs => g.domain \notin LanguageDomains
<1> DEFINE gates == DomainGates(r, selection)
           gate(row) == Gate(row[1], row[2], Runs(row), row \in OptInGates)
<1>1. ASSUME NEW g \in gates PROVE \E row \in GateRows : g = gate(row)
  <2>1. PICK p \in ComposeProfiles(r, selection) : g \in GatesOf(r, p.id)
    BY DEF DomainGates
  <2>2. QED
    BY <2>1, GatesOfRows
<1>2. \A row \in GateRows : /\ gate(row).domain = row[1] /\ gate(row).name = row[2] /\ gate(row).dir = "."
                            /\ gate(row).at = 0 /\ gate(row).runs = Runs(row) /\ row = <<row[1], row[2]>>
                            /\ row[1] \in Letters /\ row[2] \in Letters
  <2>1. \A row \in GateRows : row[1] \in Letters /\ row[2] \in Letters
    BY AlphabetHas DEF GateDomains, GateNames
  <2>2. QED
    BY <2>1, RowsAreApart DEF Gate
<1> HIDE DEF gates, gate
<1>3. ASSUME NEW g \in gates, NEW h \in gates, g.domain = h.domain, g.name = h.name PROVE g = h
  BY <1>1, <1>2, <1>3
<1>4. \A g \in gates : g.domain \in Letters /\ g.name \in Letters /\ g.dir = "." /\ g.at = 0
  BY <1>1, <1>2
<1>5. IsFiniteSet(gates)
  <2> DEFINE pair == [g \in gates |-> <<g.domain, g.name>>]
  <2>1. pair \in Injection(gates, Letters \X Letters)
    BY <1>3, <1>4 DEF Injection, IsInjective
  <2>2. IsFiniteSet(Letters \X Letters)
    BY AlphabetHas, FS_Product
  <2> HIDE DEF pair
  <2>3. QED
    BY <2>1, <2>2, FS_Injection
<1>6. AreGates(gates)
  <2>1. "." \in Letters
    BY AlphabetHas, DirsAssumption
  <2>2. QED
    BY <1>3, <1>4, <1>5, <2>1 DEF AreGates
<1>7. \A g \in gates : g.runs => g.domain \notin LanguageDomains
  <2> SUFFICES ASSUME NEW g \in gates, g.runs PROVE g.domain \notin LanguageDomains
    OBVIOUS
  <2>1. PICK row \in GateRows : g = gate(row)
    BY <1>1
  <2>2. Runs(row) /\ g.domain = row[1]
    BY <1>2, <2>1
  <2>3. row[1] \notin LanguageDomains
    BY <2>2, RowsAreApart DEF Runs
  <2>4. QED
    BY <2>2, <2>3
<1>8. QED
  BY <1>4, <1>6, <1>7 DEF gates

\* An inspection whose gates are the domains' and the plan's.
IsInspection(i) ==
  /\ i.stack \in Stacks /\ IsPlan(i.plan) /\ AreGates(i.gates)
  /\ LanguageGates(i.stack, i.plan) \subseteq i.gates
  /\ \A g \in i.gates : g.runs /\ g.domain \in LanguageDomains => g \in LanguageGates(i.stack, i.plan)

LEMMA TypedGatesAre ==
  ASSUME NEW stack \in Stacks, NEW plan, IsPlan(plan), NEW r, NEW selection
  PROVE  LET gates == TypedGates(stack, plan, DomainGates(r, selection)) IN
         /\ AreGates(gates)
         /\ LanguageGates(stack, plan) \subseteq gates
         /\ \A g \in gates : g.runs /\ g.domain \in LanguageDomains => g \in LanguageGates(stack, plan)
<1> DEFINE own == DomainGates(r, selection)
           migrated == LanguageGates(stack, plan)
           kept == {g \in own : g.runs \/ g.domain \notin LanguageDomains}
           gates == TypedGates(stack, plan, own)
<1>1. AreGates(own) /\ AreGates(migrated) /\ (\A g \in own : g.at = 0) /\ (\A g \in migrated : g.at # 0)
      /\ \A g \in own : g.runs => g.domain \notin LanguageDomains
  BY DomainGatesAre, LanguageGatesAre
<1>2. gates = IF migrated = {} THEN own ELSE kept \cup migrated
  BY DEF TypedGates
<1>3. gates = kept \cup migrated \/ (gates = own /\ migrated = {})
  BY <1>2
<1>4. kept \subseteq own
  OBVIOUS
<1> HIDE DEF own, migrated, kept, gates
<1>5. gates \subseteq own \cup migrated /\ migrated \subseteq gates
  BY <1>3, <1>4
<1>6. IsFiniteSet(gates)
  <2>1. IsFiniteSet(own \cup migrated)
    BY <1>1, FS_Union DEF AreGates
  <2>2. QED
    BY <1>5, <2>1, FS_Subset
<1>7. \A g \in gates : {g.domain, g.name, g.dir} \subseteq Letters /\ g.at \in Nat
  BY <1>1, <1>5 DEF AreGates
<1>8. ASSUME NEW g \in gates, NEW h \in gates, g.domain = h.domain, g.name = h.name, g.dir = h.dir, g.at = h.at
      PROVE  g = h
  <2>1. (g \in own /\ h \in own) \/ (g \in migrated /\ h \in migrated)
    BY <1>1, <1>5, <1>8
  <2>2. QED
    BY <1>1, <1>8, <2>1 DEF AreGates
<1>9. AreGates(gates)
  BY <1>6, <1>7, <1>8 DEF AreGates
<1>10. \A g \in gates : g.runs /\ g.domain \in LanguageDomains => g \in migrated
  BY <1>1, <1>5
<1>11. QED
  BY <1>5, <1>9, <1>10 DEF gates, migrated, own

LEMMA InspectionsAre ==
  ASSUME NEW r, NEW stack \in Stacks, NEW confidence, NEW known, NEW s
  PROVE  /\ IsInspection(Inspection(r, stack, confidence, known, s))
         /\ Inspection(r, stack, confidence, known, s).stack = stack
<1> DEFINE plan == QualityPlan(r, stack, s.profile)
           gates == TypedGates(stack, plan, DomainGates(r, s.qdomains))
           i == Inspection(r, stack, confidence, known, s)
<1>1. i.stack = stack /\ i.plan = plan /\ i.gates = gates
  BY DEF Inspection
<1>2. IsPlan(plan)
  BY QualityPlans
<1> HIDE DEF plan, i
<1>3. AreGates(gates) /\ LanguageGates(stack, plan) \subseteq gates
      /\ \A g \in gates : g.runs /\ g.domain \in LanguageDomains => g \in LanguageGates(stack, plan)
  BY <1>2, TypedGatesAre
<1> HIDE DEF gates
<1>4. QED
  BY <1>1, <1>2, <1>3 DEF IsInspection, i

\* The stack of a repository is one of those there are.
LEMMA ScoresAre ==
  ASSUME NEW r, IsFiniteSet(r.files), NEW s
  PROVE  Score(r, s) \in Nat
<1>1. Visible(r) \subseteq r.files
  BY DEF Visible
<1>2. \A names : Cardinality({f \in Visible(r) : f[2] \in names}) \in Nat
  <2> TAKE names
  <2> DEFINE F == {f \in Visible(r) : f[2] \in names}
  <2>1. F \subseteq r.files
    BY <1>1
  <2> HIDE DEF F
  <2>2. IsFiniteSet(F)
    BY <2>1, FS_Subset
  <2>3. Cardinality(F) \in Nat
    BY <2>2, FS_CardinalityType
  <2>4. QED
    BY <2>3 DEF F
<1> DEFINE m == Cardinality({f \in Visible(r) : f[2] \in Markers[s]})
           n == Cardinality({f \in Visible(r) : f[2] \in Sources[s]})
           w == IF s = "typescript" THEN 4 ELSE 5
<1>3. m \in Nat /\ n \in Nat /\ w \in Nat
  BY <1>2
<1>4. Score(r, s) = (w * m + n) % 2^16
  BY DEF Score
<1> HIDE DEF m, n, w
<1>5. w * m + n \in Nat
  BY <1>3
<1>6. QED
  BY <1>4, <1>5

LEMMA LeaderIs ==
  ASSUME NEW r, IsFiniteSet(r.files), Active(r) # {}
  PROVE  Leader(r) \in Languages
<1> DEFINE score == [s \in Languages |-> Score(r, s)]
           Leads(s) == \A t \in Languages : score[t] <= score[s]
<1>1. \A s \in Languages : score[s] \in Nat
  BY ScoresAre
<1>2. \A s \in Languages : s \in Active(r) <=> score[s] > 0
  BY DEF Active
<1>3. \E s \in Languages : Leads(s)
  <2>1. \A s \in Languages : score[s] \in Int
    BY <1>1
  <2> HIDE DEF score
  <2>2. QED
    BY <2>1, LanguagesAre
<1>4. Active(r) \subseteq Languages
  BY DEF Active
<1>5. \E s \in Active(r) : Leads(s)
  <2>1. PICK s \in Languages : Leads(s)
    BY <1>3
  <2>2. PICK t \in Active(r) : t \in Languages /\ score[t] > 0
    BY <1>2, <1>4
  <2>3. score[t] <= score[s] /\ score[t] \in Nat /\ score[s] \in Nat
    BY <1>1, <2>1, <2>2
  <2> HIDE DEF score
  <2>4. score[s] > 0
    BY <2>2, <2>3
  <2>5. QED
    BY <1>2, <2>1, <2>4
<1>6. Leader(r) = CHOOSE s \in Active(r) : Leads(s)
  <2>1. \A s \in Active(r) : Leads(s) <=> \A t \in Languages : Score(r, t) <= Score(r, s)
    BY <1>4
  <2>2. QED
    BY <2>1 DEF Leader
<1> HIDE DEF Leads
<1>7. QED
  BY <1>4, <1>5, <1>6

LEMMA StacksAre ==
  ASSUME NEW r, IsFiniteSet(r.files), NEW s
  PROVE  /\ Discovered(r, s).stack \in Stacks
         /\ Chosen(r, s).stack \in Stacks
         /\ s.declared \in DOMAIN DeclaredAs => Chosen(r, s).stack = DeclaredAs[s.declared]
<1>1. SelectStack(r).stack \in Stacks
  BY LeaderIs DEF SelectStack, Stacks
<1>2. \A d \in DOMAIN DiscoveredAs : DiscoveredAs[d] \in Stacks
  BY LanguagesAre DEF DiscoveredAs, Stacks
<1>3. \A d \in DOMAIN DeclaredAs : DeclaredAs[d] \in Stacks
  BY LanguagesAre DEF DeclaredAs, Stacks
<1>4. Discovered(r, s).stack \in Stacks
  <2>1. CASE s.declared \in DOMAIN DiscoveredAs
    BY <1>2, <2>1 DEF Discovered, Choice
  <2>2. CASE s.declared \notin DOMAIN DiscoveredAs
    BY <1>1, <2>2 DEF Discovered, Choice
  <2>3. QED
    BY <2>1, <2>2
<1>5. QED
  BY <1>3, <1>4 DEF Chosen, Choice

LEMMA ConfiguredIs ==
  ASSUME NEW r, IsFiniteSet(r.files), NEW s
  PROVE  /\ IsInspection(Configured(r, s))
         /\ s.declared \in DOMAIN DeclaredAs => Configured(r, s).stack = DeclaredAs[s.declared]
<1> DEFINE c == Chosen(r, s)
<1>1. c.stack \in Stacks /\ (s.declared \in DOMAIN DeclaredAs => c.stack = DeclaredAs[s.declared])
  BY StacksAre
<1> HIDE DEF c
<1>2. Configured(r, s) = Inspection(r, c.stack, c.confidence, c.known, s)
  BY DEF Configured, Inspected, c
<1>3. QED
  BY <1>1, <1>2, InspectionsAre

-----------------------------------------------------------------------------
\* The plan of the gates

Early == {"arguments", "settings", "policy", "inspection", "refused"}
Origins == {"unresolved", "config", "detection", "tracker"}

\* What the run knows of the repository is what the configuration and the files
\* say, unless the tracker named the stack, and its gates come from that.
Prepared ==
  /\ context = Context(context.inspection, context.source)
  /\ stage \notin Early => context.source \in Origins
  /\ context.source \in Origins \ {"tracker"} => context.inspection = Configured(repo, settings)
  /\ stage = "context" => context.source = "unresolved"
  /\ stage = "gates" => steps = StepsOf(context.inspection)

LEMMA PreparedAtFirst == Init => Prepared
  BY DEF Init, Prepared, Context, NoContext, Early, Origins

\* A step that learns nothing of the repository, and opens no gates.
LEMMA PreparedStays ==
  ASSUME Prepared, UNCHANGED <<repo, layers, context>>,
         stage' \in Early \/ stage \notin Early,
         stage' = "context" => stage = "context",
         stage' = "gates" => stage = "gates" /\ steps' = steps
  PROVE  Prepared'
  BY DEF Prepared, settings

\* A step of the inspection.
LEMMA PreparedAnew ==
  ASSUME NEW i, NEW source \in Origins, context' = Context(i, source),
         UNCHANGED <<repo, layers>>, stage' # "gates",
         stage' = "context" => source = "unresolved",
         source = "tracker" \/ i = Configured(repo, settings)
  PROVE  Prepared'
<1>1. context'.inspection = i /\ context'.source = source /\ settings' = settings
  BY DEF Context, settings
<1>2. QED
  BY <1>1 DEF Prepared

LEMMA StepsStay == GateStep => steps' = steps
  BY DEF GateStep, EmptyPlan, Find, Skip, Check, StartCommand, CannotStart, Exit, Timeout, Released,
         Join, CannotWrite, Pass, Keep

LEMMA PreparedStep == Prepared /\ [Next]_vars => Prepared'
<1> SUFFICES ASSUME Prepared, [Next]_vars PROVE Prepared'
  OBVIOUS
<1>1. CASE ReadArguments \/ LoadSettings \/ DecidePolicy
  <2>1. UNCHANGED <<repo, layers, context>> /\ stage' \in Early
    BY <1>1 DEF ReadArguments, LoadSettings, DecidePolicy, Preflight, ungated, given, Early
  <2>2. stage' \notin {"gates", "context"}
    BY <2>1 DEF Early
  <2>3. QED
    BY <2>1, <2>2, PreparedStays
<1>2. CASE Inspect
  <2>1. /\ UNCHANGED <<repo, layers>> /\ stage' # "gates"
        /\ context' = Context(Configured(repo, settings), "unresolved")
    BY <1>2 DEF Inspect, ungated, given
  <2>2. QED
    BY <2>1, PreparedAnew DEF Origins
<1>3. CASE TakeDeclared \/ TakeDetected
  <2>1. PICK source \in {"config", "detection"} :
          /\ UNCHANGED <<repo, layers>> /\ stage = "context" /\ stage' = "findings"
          /\ context' = [context EXCEPT !.source = source]
    BY <1>3 DEF TakeDeclared, TakeDetected, ungated, given
  <2>2. /\ context = Context(context.inspection, context.source)
        /\ context.inspection = Configured(repo, settings)
    BY <2>1 DEF Prepared, Early, Origins
  <2>3. context' = Context(context.inspection, source) /\ source \in Origins
    BY <2>1, <2>2 DEF Context, Origins
  <2>4. QED
    BY <2>1, <2>2, <2>3, PreparedAnew
<1>4. CASE AskTracker
  <2>1. UNCHANGED <<repo, layers>> /\ stage = "context" /\ stage' = "findings"
    BY <1>4 DEF AskTracker, ungated, given
  <2>2. CASE said.stacks = {}
    <3>1. UNCHANGED context
      BY <1>4, <2>2 DEF AskTracker
    <3>2. QED
      BY <2>1, <3>1, PreparedStays DEF Early
  <2>3. CASE said.stacks # {}
    <3>1. PICK s \in said.stacks : context' = Context(Declare(repo, s, settings), "tracker")
      BY <1>4, <2>3 DEF AskTracker
    <3>2. QED
      BY <2>1, <3>1, PreparedAnew DEF Origins
  <2>4. QED
    BY <2>2, <2>3
<1>5. CASE TrackerFails \/ JudgeFindings \/ ProbeCodex \/ RequireToken \/ CheckMcp \/ ResolveBackend
           \/ EnsureImage \/ ProbeContainer \/ EndDryRun \/ GoOn \/ CheckCheckout
  <2>1. UNCHANGED <<repo, layers, context>> /\ stage \notin Early /\ stage' \notin {"gates", "context"}
    BY <1>5 DEF TrackerFails, JudgeFindings, ProbeCodex, RequireToken, CheckMcp, ResolveBackend,
                EnsureImage, ProbeContainer, EndDryRun, GoOn, CheckCheckout, Preflight, ungated,
                given, Early
  <2>2. QED
    BY <2>1, PreparedStays
<1>6. CASE Work
  <2>1. /\ UNCHANGED <<repo, layers, context>> /\ stage = "worktree" /\ stage' = "gates"
        /\ steps' = StepsOf(context.inspection)
    BY <1>6 DEF Work, Open, given
  <2>2. settings' = settings /\ context.source \in Origins
    BY <2>1 DEF settings, Prepared, Early
  <2>3. QED
    BY <2>1, <2>2 DEF Prepared
<1>7. CASE Gating
  BY <1>7, StepsStay, PreparedStays DEF Gating, given
<1>8. CASE RunAgain
  <2>1. UNCHANGED <<repo, layers, context>> /\ stage = "gates" /\ stage' = "gates again"
    BY <1>8 DEF RunAgain, given
  <2>2. QED
    BY <2>1, PreparedStays DEF Early
<1>9. CASE UNCHANGED vars
  BY <1>9, PreparedStays DEF vars, given, gateVars
<1>10. QED
  BY <1>1, <1>2, <1>3, <1>4, <1>5, <1>6, <1>7, <1>8, <1>9 DEF Next

\* `agentactr quality run` goes through the gates of the run, in a worktree like
\* the checkout, whenever the tracker did not name the stack.
THEOREM RerunGoesThroughTheSame == Spec => RerunRunsTheSame
<1>1. Prepared /\ [Next]_vars =>
        [stage = "gates" /\ stage' = "gates again" /\ tree = repo /\ context.source # "tracker"
           => steps' = steps]_vars
  <2> SUFFICES ASSUME Prepared, Next, stage = "gates", stage' = "gates again", tree = repo,
                      context.source # "tracker"
               PROVE  steps' = steps
    OBVIOUS
  <2>1. CASE RunAgain
    <3>1. steps' = StepsOf(Configured(repo, settings))
      BY <2>1 DEF RunAgain, Open
    <3>2. steps = StepsOf(Configured(repo, settings))
      BY DEF Prepared, Early
    <3>3. QED
      BY <3>1, <3>2
  <2>2. CASE ~ RunAgain
    BY <2>2 DEF Next, ReadArguments, LoadSettings, DecidePolicy, Inspect, TakeDeclared, TakeDetected,
                AskTracker, TrackerFails, JudgeFindings, ProbeCodex, RequireToken, CheckMcp,
                ResolveBackend, EnsureImage, ProbeContainer, EndDryRun, GoOn, CheckCheckout, Work,
                Gating, Preflight
  <2>3. QED
    BY <2>1, <2>2
<1>2. QED
  BY <1>1, PreparedAtFirst, PreparedStep, PTL DEF Spec, RerunRunsTheSame

-----------------------------------------------------------------------------
\* The gates of an inspection

\* What is known of the repository, of the stack that the tracker named, and of
\* the gates that come from both.
IsReadable(r) == \A f \in ProtoFiles(r) : r.proto[f] \in Seq(Lines)

Trusted ==
  /\ IsFiniteSet(repo.files) /\ IsFiniteSet(tree.files) /\ IsReadable(repo)
  /\ said.stacks \subseteq Languages
  /\ context.source \in Origins => IsInspection(context.inspection)
  /\ context.source = "tracker" => ~ ConfigDeclares

LEMMA TrustedAtFirst == Init => Trusted
<1> SUFFICES ASSUME Init PROVE Trusted
  OBVIOUS
<1>1. IsFiniteSet(repo.files) /\ IsFiniteSet(tree.files) /\ IsReadable(repo) /\ said.stacks \subseteq Languages
  BY ConstantsAssumption DEF Init, IsReadable
<1>2. context.source \notin Origins /\ context.source # "tracker"
  BY DEF Init, NoContext, Origins
<1>3. QED
  BY <1>1, <1>2 DEF Trusted

LEMMA TrustedStays ==
  ASSUME Trusted, UNCHANGED <<repo, layers, said, context>>, IsFiniteSet(tree'.files)
  PROVE  Trusted'
  BY DEF Trusted, ConfigDeclares, settings

LEMMA TrustedAnew ==
  ASSUME Trusted, UNCHANGED <<repo, layers, said, tree>>, NEW i, NEW source, IsInspection(i),
         context' = Context(i, source), source = "tracker" => ~ ConfigDeclares
  PROVE  Trusted'
<1>1. context'.inspection = i /\ context'.source = source /\ (ConfigDeclares' <=> ConfigDeclares)
  BY DEF Context, ConfigDeclares, settings
<1>2. QED
  BY <1>1 DEF Trusted

LEMMA TrustedStep == Prepared /\ Trusted /\ [Next]_vars => Trusted'
<1> SUFFICES ASSUME Prepared, Trusted, [Next]_vars PROVE Trusted'
  OBVIOUS
<1>1. CASE ReadArguments \/ LoadSettings \/ DecidePolicy \/ TrackerFails \/ JudgeFindings \/ ProbeCodex
           \/ RequireToken \/ CheckMcp \/ ResolveBackend \/ EnsureImage \/ ProbeContainer \/ EndDryRun
           \/ GoOn \/ CheckCheckout \/ Gating \/ RunAgain \/ UNCHANGED vars
  <2>1. UNCHANGED <<repo, layers, said, context, tree>>
    BY <1>1 DEF ReadArguments, LoadSettings, DecidePolicy, TrackerFails, JudgeFindings, ProbeCodex,
                RequireToken, CheckMcp, ResolveBackend, EnsureImage, ProbeContainer, EndDryRun, GoOn,
                CheckCheckout, Gating, RunAgain, vars, ungated, given, Preflight
  <2>2. QED
    BY <2>1, TrustedStays DEF Trusted
<1>2. CASE Inspect
  <2>1. UNCHANGED <<repo, layers, said, tree>> /\ context' = Context(Configured(repo, settings), "unresolved")
    BY <1>2 DEF Inspect, ungated, given
  <2>2. IsInspection(Configured(repo, settings))
    BY ConfiguredIs DEF Trusted
  <2>3. QED
    BY <2>1, <2>2, TrustedAnew
<1>3. CASE TakeDeclared \/ TakeDetected
  <2>1. PICK source \in {"config", "detection"} :
          /\ UNCHANGED <<repo, layers, said, tree>> /\ stage = "context"
          /\ context' = [context EXCEPT !.source = source]
    BY <1>3 DEF TakeDeclared, TakeDetected, ungated, given
  <2>2. context = Context(context.inspection, context.source) /\ context.source \in Origins
    BY <2>1 DEF Prepared, Early, Origins
  <2>3. context' = Context(context.inspection, source)
    BY <2>1, <2>2 DEF Context
  <2>4. IsInspection(context.inspection)
    BY <2>2 DEF Trusted
  <2>5. QED
    BY <2>1, <2>3, <2>4, TrustedAnew
<1>4. CASE AskTracker
  <2>1. UNCHANGED <<repo, layers, said, tree>> /\ ~ ConfigDeclares
    BY <1>4 DEF AskTracker, NeedsTracker, ungated, given
  <2>2. CASE said.stacks = {}
    <3>1. UNCHANGED context
      BY <1>4, <2>2 DEF AskTracker
    <3>2. QED
      BY <2>1, <3>1, TrustedStays DEF Trusted
  <2>3. CASE said.stacks # {}
    <3>1. PICK s \in said.stacks : context' = Context(Declare(repo, s, settings), "tracker")
      BY <1>4, <2>3 DEF AskTracker
    <3>2. s \in Stacks
      BY <3>1 DEF Trusted, Stacks
    <3>3. IsInspection(Declare(repo, s, settings))
      BY <3>2, InspectionsAre DEF Declare
    <3>4. QED
      BY <2>1, <3>1, <3>3, TrustedAnew
  <2>4. QED
    BY <2>2, <2>3
<1>5. CASE Work
  <2>1. UNCHANGED <<repo, layers, said, context>> /\ tree' \in Worktrees \cup {repo}
    BY <1>5 DEF Work, given
  <2>2. IsFiniteSet(tree'.files)
    BY <2>1, ConstantsAssumption DEF Trusted
  <2>3. QED
    BY <2>1, <2>2, TrustedStays
<1>6. QED
  BY <1>1, <1>2, <1>3, <1>4, <1>5 DEF Next

\* The inspection that the gates come from.
LEMMA InspectedHere ==
  ASSUME Prepared, Trusted, Gated
  PROVE  /\ IsInspection(PlanHere)
         /\ ConfigDeclares => PlanHere.stack = DeclaredAs[settings.declared]
<1>1. CASE stage = "gates"
  <2>1. PlanHere = context.inspection /\ context.source \in Origins
    BY <1>1 DEF PlanHere, Prepared, Early
  <2>2. ConfigDeclares => PlanHere = Configured(repo, settings)
    BY <2>1 DEF Prepared, Trusted
  <2>3. QED
    BY <2>1, <2>2, ConfiguredIs DEF Trusted, ConfigDeclares
<1>2. CASE stage = "gates again"
  <2>1. PlanHere = Configured(tree, settings)
    BY <1>2 DEF PlanHere
  <2>2. QED
    BY <2>1, ConfiguredIs DEF Trusted, ConfigDeclares
<1>3. QED
  BY <1>1, <1>2 DEF Gated

\* What the report goes through: the gates, and the plan where it is not
\* migrated.
LEMMA StepsAre ==
  ASSUME NEW i, IsInspection(i)
  PROVE  /\ StepsOf(i) \in Seq(ToSet(StepsOf(i)))
         /\ \A g \in i.gates : \E k \in DOMAIN StepsOf(i) : StepsOf(i)[k] = g
         /\ ~ Migrated(i) => \A n \in DOMAIN i.plan : \E k \in DOMAIN StepsOf(i) : StepsOf(i)[k] = Legacy(i.plan[n], n)
         /\ \A k \in DOMAIN StepsOf(i) : \/ StepsOf(i)[k] \in i.gates
                                         \/ \E n \in DOMAIN i.plan : StepsOf(i)[k] = Legacy(i.plan[n], n)
<1> DEFINE legacy == [k \in DOMAIN i.plan |-> Legacy(i.plan[k], k)]
           first == IF Migrated(i) THEN <<>> ELSE legacy
           sorted == Sorted(i.gates)
           L == {Legacy(i.plan[n], n) : n \in DOMAIN i.plan}
           all == first \o sorted
<1>1. sorted \in Seq(i.gates) /\ \A g \in i.gates : \E k \in DOMAIN sorted : sorted[k] = g
  BY SortedListsAll DEF IsInspection
<1>2. DOMAIN i.plan = 1 .. Len(i.plan) /\ Len(i.plan) \in Nat
  <2>1. i.plan \in Seq(ToSet(i.plan))
    BY DEF IsInspection, IsPlan
  <2>2. QED
    BY <2>1
<1>3. legacy \in Seq(L)
  <2>1. legacy = [k \in 1 .. Len(i.plan) |-> legacy[k]] /\ \A k \in 1 .. Len(i.plan) : legacy[k] \in L
    BY <1>2
  <2> HIDE DEF legacy, L
  <2>2. QED
    BY <1>2, <2>1
<1>4. first \in Seq(L)
  <2> HIDE DEF legacy, L
  <2>1. QED
    BY <1>3
<1>5. DOMAIN legacy = DOMAIN i.plan /\ \A n \in DOMAIN i.plan : legacy[n] = Legacy(i.plan[n], n)
  OBVIOUS
<1>6. ~ Migrated(i) => first = legacy
  OBVIOUS
<1>7. StepsOf(i) = all
  BY DEF StepsOf
<1>8. \A s \in L : \E n \in DOMAIN i.plan : s = Legacy(i.plan[n], n)
  OBVIOUS
<1> HIDE DEF first, legacy, sorted, L
<1>9. /\ Len(first) \in Nat /\ Len(sorted) \in Nat
      /\ DOMAIN first = 1 .. Len(first) /\ DOMAIN sorted = 1 .. Len(sorted)
      /\ DOMAIN all = 1 .. Len(first) + Len(sorted)
      /\ \A k \in DOMAIN first : k \in DOMAIN all /\ all[k] = first[k]
      /\ \A k \in DOMAIN sorted : Len(first) + k \in DOMAIN all /\ all[Len(first) + k] = sorted[k]
  BY <1>1, <1>4
<1>10. all \in Seq(L \cup i.gates)
  <2>1. first \in Seq(L \cup i.gates) /\ sorted \in Seq(L \cup i.gates)
    BY <1>1, <1>4
  <2>2. QED
    BY <2>1, Concatenated
<1>11. all \in Seq(ToSet(all)) /\ \A k \in DOMAIN all : all[k] \in L \cup i.gates
  <2> DEFINE B == L \cup i.gates
  <2>1. all \in Seq(B)
    BY <1>10
  <2> HIDE DEF all, B
  <2>2. all \in Seq(ToSet(all)) /\ \A k \in DOMAIN all : all[k] \in B
    BY <2>1, OfItsMembers
  <2>3. QED
    BY <2>2 DEF B
<1>12. \A g \in i.gates : \E k \in DOMAIN all : all[k] = g
  BY <1>1, <1>9
<1>13. ~ Migrated(i) => \A n \in DOMAIN i.plan : \E k \in DOMAIN all : all[k] = Legacy(i.plan[n], n)
  BY <1>5, <1>6, <1>9
<1> HIDE DEF all
<1>14. QED
  BY <1>7, <1>8, <1>11, <1>12, <1>13

LEMMA LegacySteps ==
  ASSUME NEW c, NEW place
  PROVE  /\ Legacy(c, place).at = place /\ Legacy(c, place).runs
         /\ Legacy(c, place).domain \notin LanguageDomains
  BY LanguageDomainsAre DEF Legacy

\* Every command that is owed has a step.
LEMMA OwedHasStep ==
  ASSUME NEW i, IsInspection(i), NEW n \in Owed(i)
  PROVE  \E k \in DOMAIN StepsOf(i) : StepsOf(i)[k].at = n /\ StepsOf(i)[k].runs
<1>1. n \in DOMAIN i.plan
  BY DEF Owed
<1>2. CASE ~ Migrated(i)
  BY <1>1, <1>2, StepsAre, LegacySteps
<1>3. CASE Migrated(i)
  <2>1. PICK g \in i.gates : g.domain \in LanguageDomains /\ g.runs
    BY <1>3 DEF Migrated
  <2>2. g \in LanguageGates(i.stack, i.plan)
    BY <2>1 DEF IsInspection
  <2>3. i.stack # "unknown"
    BY <2>2 DEF LanguageGates, Known
  <2>4. n \in Known(i.stack, i.plan)
    BY <1>1, <1>3, <2>3 DEF Owed, Known
  <2>5. PICK h \in LanguageGates(i.stack, i.plan) : h.at = n /\ h.runs
    BY <2>4, LanguageGatesAre DEF IsInspection
  <2>6. h \in i.gates
    BY <2>5 DEF IsInspection
  <2>7. QED
    BY <2>5, <2>6, StepsAre
<1>4. QED
  BY <1>2, <1>3

\* A report has a result for each gate gone through, one of a failure only when
\* it has failed, and passes when it has gone through all.
Waits(g, optIns) == g.opt /\ ~ \E o \in optIns : o.domain \in {"*", g.domain} /\ o.name \in {"*", g.name}
Reported ==
  Gated =>
    /\ steps = StepsOf(PlanHere)
    /\ results \in Seq({"finding", "skipped", "ok", "bad"}) /\ Len(results) <= Len(steps)
    /\ \A k \in DOMAIN results : /\ results[k] = "finding" => ~ steps[k].runs
                                 /\ results[k] = "skipped" => Waits(steps[k], opted)
                                 /\ results[k] = "bad" => returned = "failed"
    /\ returned = "passed" => Len(results) = Len(steps)
    /\ command # "none" => returned = "none" /\ Len(results) < Len(steps)

LEMMA ReportedAtFirst == Init => Reported
  BY DEF Init, Reported, Gated

\* A report that is opened, and one that has nothing to do with the step.
LEMMA ReportedAnew ==
  ASSUME NEW i, IsInspection(i), NEW optIns, Open(StepsOf(i), optIns), PlanHere' = i
  PROVE  Reported'
<1>1. StepsOf(i) \in Seq(ToSet(StepsOf(i)))
  BY StepsAre
<1>2. Len(StepsOf(i)) \in Nat
  BY <1>1
<1>3. QED
  BY <1>2 DEF Reported, Open

LEMMA ReportedAlike ==
  ASSUME Reported, UNCHANGED <<gateVars, stage, context, tree, layers>>
  PROVE  Reported'
  BY DEF Reported, gateVars, Gated, PlanHere, settings

\* The next result.
LEMMA ReportedNext ==
  ASSUME Prepared, Trusted, Gated, Reported, UNCHANGED <<stage, context, tree, layers, steps, opted>>,
         Len(results) < Len(steps), NEW outcome \in {"finding", "skipped", "ok", "bad"},
         results' = Append(results, outcome), command' = "none",
         returned' # "passed",
         outcome = "finding" => ~ Current.runs,
         outcome = "skipped" => Waits(Current, opted),
         outcome = "bad" => returned' = "failed",
         returned = "none"
  PROVE  Reported'
<1> DEFINE R == {"finding", "skipped", "ok", "bad"}
<1>1. /\ Gated' /\ PlanHere' = PlanHere /\ steps' = StepsOf(PlanHere')
      /\ \A k \in DOMAIN steps' : steps'[k] = steps[k]
  BY DEF Reported, Gated, PlanHere, settings
<1>2. Len(steps) \in Nat /\ DOMAIN steps = 1 .. Len(steps)
  <2>1. steps = StepsOf(PlanHere) /\ IsInspection(PlanHere)
    BY InspectedHere DEF Reported
  <2>2. steps \in Seq(ToSet(steps))
    BY <2>1, StepsAre
  <2>3. QED
    BY <2>2
<1>3. results \in Seq(R)
  BY DEF Reported
<1>4. /\ results' \in Seq(R) /\ Len(results') = Len(results) + 1 /\ Len(results) \in Nat
      /\ DOMAIN results' = DOMAIN results \cup {Len(results) + 1}
      /\ results'[Len(results) + 1] = outcome
      /\ \A k \in DOMAIN results : results'[k] = results[k] /\ k # Len(results) + 1 /\ k \in DOMAIN steps
  BY <1>2, <1>3
<1>5. Len(results) + 1 \in DOMAIN steps
  BY <1>2, <1>4
<1>6. \A k \in DOMAIN results : /\ results[k] = "finding" => ~ steps[k].runs
                                /\ results[k] = "skipped" => Waits(steps[k], opted)
                                /\ results[k] # "bad"
  BY DEF Reported
<1>7. \A k \in DOMAIN results' : /\ results'[k] = "finding" => ~ steps[k].runs
                                 /\ results'[k] = "skipped" => Waits(steps[k], opted)
                                 /\ results'[k] = "bad" => returned' = "failed"
  BY <1>4, <1>6 DEF Current
<1>8. Len(results') <= Len(steps')
  BY <1>2, <1>4
<1>9. QED
  BY <1>1, <1>4, <1>7, <1>8 DEF Reported

\* A step that leaves the results as they are.
LEMMA ReportedOn ==
  ASSUME Gated, Reported, UNCHANGED <<stage, context, tree, layers, steps, opted, results>>,
         returned' = returned \/ returned = "none",
         returned' = "passed" => Len(results) = Len(steps),
         command' # "none" => returned' = "none" /\ Len(results) < Len(steps)
  PROVE  Reported'
<1>1. Gated' /\ PlanHere' = PlanHere
  BY DEF Gated, PlanHere, settings
<1>2. \A k \in DOMAIN results : results[k] = "bad" => returned = "failed"
  BY DEF Reported
<1>3. \A k \in DOMAIN results : results[k] = "bad" => returned' = "failed"
  BY <1>2
<1>4. QED
  BY <1>1, <1>3 DEF Reported

LEMMA ReportedGate ==
  ASSUME Prepared, Trusted, Gated, Reported, GateStep, UNCHANGED <<given, machine, stage, context, tree>>
  PROVE  Reported'
<1>1. UNCHANGED <<stage, context, tree, layers, steps, opted>>
  BY DEF given, GateStep, EmptyPlan, Find, Skip, Check, StartCommand, CannotStart, Exit, Timeout,
         Released, Join, CannotWrite, Pass, Keep
<1>2. \A g : Skipped(g) <=> Waits(g, opted)
  BY DEF Skipped, Waits, EnabledByConfig
<1>3. command # "none" => returned = "none" /\ Len(results) < Len(steps)
  BY DEF Reported
<1>4. CASE EmptyPlan \/ CannotWrite
  <2>1. UNCHANGED results /\ returned' = "failed" /\ returned = "none" /\ command' = "none"
    BY <1>4 DEF EmptyPlan, CannotWrite, Idle, Fails, Return
  <2>2. QED
    BY <1>1, <2>1, ReportedOn
<1>5. CASE Find
  <2>1. /\ results' = Append(results, "finding") /\ command' = "none" /\ returned' = "none" /\ returned = "none"
        /\ Len(results) < Len(steps) /\ ~ Current.runs
    BY <1>5 DEF Find, AtGate, Idle, Goes
  <2>2. QED
    BY <1>1, <2>1, ReportedNext
<1>6. CASE Skip
  <2>1. /\ results' = Append(results, "skipped") /\ command' = "none" /\ returned' = "none" /\ returned = "none"
        /\ Len(results) < Len(steps) /\ Waits(Current, opted)
    BY <1>2, <1>6 DEF Skip, AtGate, Idle, Goes
  <2>2. QED
    BY <1>1, <2>1, ReportedNext
<1>7. CASE Check
  <2>1. /\ command' = "none" /\ returned = "none" /\ Len(results) < Len(steps)
        /\ \/ results' = Append(results, "bad") /\ returned' = "failed"
           \/ results' = Append(results, "ok") /\ returned' = "none"
    BY <1>7 DEF Check, Runnable, AtGate, Idle, Goes, Fails, Return
  <2>2. QED
    BY <1>1, <2>1, ReportedNext
<1>8. CASE CannotStart
  <2>1. /\ command' = "none" /\ returned = "none" /\ Len(results) < Len(steps)
        /\ results' = Append(results, "bad") /\ returned' = "failed"
    BY <1>8 DEF CannotStart, Starts, Runnable, AtGate, Idle, Fails, Return
  <2>2. QED
    BY <1>1, <2>1, ReportedNext
<1>9. CASE Join
  <2>1. /\ command' = "none" /\ returned = "none" /\ Len(results) < Len(steps) /\ command \in {"ok", "bad"}
        /\ results' = Append(results, command)
        /\ returned' = IF command = "ok" THEN "none" ELSE "failed"
    BY <1>3, <1>9 DEF Join, Goes, Fails, Return
  <2>2. QED
    BY <1>1, <2>1, ReportedNext
<1>10. CASE StartCommand
  <2>1. UNCHANGED results /\ returned' = "none" /\ returned = "none" /\ Len(results) < Len(steps)
    BY <1>10 DEF StartCommand, Starts, Runnable, AtGate, Idle, Goes
  <2>2. QED
    BY <1>1, <2>1, ReportedOn
<1>11. CASE Exit \/ Timeout
  <2>1. UNCHANGED results /\ returned' = returned /\ command = "running"
    BY <1>11 DEF Exit, Timeout, Goes
  <2>2. QED
    BY <1>1, <1>3, <2>1, ReportedOn
<1>12. CASE Released
  <2>1. UNCHANGED <<results, command>> /\ returned' = returned
    BY <1>12 DEF Released, Goes
  <2>2. returned = "passed" => Len(results) = Len(steps)
    BY DEF Reported
  <2>3. QED
    BY <1>1, <1>3, <2>1, <2>2, ReportedOn
<1>13. CASE Pass
  <2>1. UNCHANGED results /\ returned = "none" /\ command' = "none" /\ Len(results) = Len(steps)
    BY <1>13 DEF Pass, Idle
  <2>2. QED
    BY <1>1, <2>1, ReportedOn
<1>14. QED
  BY <1>4, <1>5, <1>6, <1>7, <1>8, <1>9, <1>10, <1>11, <1>12, <1>13 DEF GateStep

LEMMA ReportedStep == Prepared /\ Trusted /\ Reported /\ [Next]_vars => Reported'
<1> SUFFICES ASSUME Prepared, Trusted, Reported, [Next]_vars PROVE Reported'
  OBVIOUS
<1>1. CASE Gating
  BY <1>1, ReportedGate DEF Gating
<1>2. CASE Work
  <2>1. stage' = "gates" /\ UNCHANGED context /\ Open(StepsOf(context.inspection), settings.opts)
    BY <1>2 DEF Work
  <2>2. PlanHere' = context.inspection
    BY <2>1 DEF PlanHere
  <2>3. IsInspection(context.inspection)
    BY <1>2 DEF Work, Prepared, Trusted, Early
  <2>4. QED
    BY <2>1, <2>2, <2>3, ReportedAnew
<1>3. CASE RunAgain
  <2>1. /\ stage' = "gates again" /\ UNCHANGED <<tree, layers>>
        /\ Open(StepsOf(Configured(tree, settings)), settings.opts)
    BY <1>3 DEF RunAgain, given
  <2>2. PlanHere' = Configured(tree, settings)
    BY <2>1 DEF PlanHere, settings
  <2>3. IsInspection(Configured(tree, settings))
    BY ConfiguredIs DEF Trusted
  <2>4. QED
    BY <2>1, <2>2, <2>3, ReportedAnew
<1>4. CASE UNCHANGED vars
  BY <1>4, ReportedAlike DEF vars, given
<1>5. CASE ReadArguments \/ LoadSettings \/ DecidePolicy \/ Inspect \/ TakeDeclared \/ TakeDetected
           \/ AskTracker \/ TrackerFails \/ JudgeFindings \/ ProbeCodex \/ RequireToken \/ CheckMcp
           \/ ResolveBackend \/ EnsureImage \/ ProbeContainer \/ EndDryRun \/ GoOn \/ CheckCheckout
  <2>1. stage' \notin {"gates", "gates again"}
    BY <1>5 DEF ReadArguments, LoadSettings, DecidePolicy, Inspect, TakeDeclared, TakeDetected,
                AskTracker, TrackerFails, JudgeFindings, ProbeCodex, RequireToken, CheckMcp,
                ResolveBackend, EnsureImage, ProbeContainer, EndDryRun, GoOn, CheckCheckout, Preflight
  <2>2. QED
    BY <2>1 DEF Reported, Gated
<1>6. QED
  BY <1>1, <1>2, <1>3, <1>4, <1>5 DEF Next

LEMMA GatesInvariant == Spec => [](Prepared /\ Trusted /\ Reported)
  BY PreparedAtFirst, PreparedStep, TrustedAtFirst, TrustedStep, ReportedAtFirst, ReportedStep, PTL DEF Spec

\* A report that passes has seen every command that is owed end well, or wait
\* for an opt-in: whatever the repository, the settings and the worktree.
THEOREM PassedGated == Spec => []PassedMeansGated
<1>1. Prepared /\ Trusted /\ Reported => PassedMeansGated
  <2> SUFFICES ASSUME Prepared, Trusted, Reported, Gated, returned = "passed"
               PROVE  AllDone(PlanHere)
    BY DEF PassedMeansGated
  <2> DEFINE i == PlanHere
  <2>1. IsInspection(i) /\ steps = StepsOf(i)
    BY InspectedHere DEF Reported
  <2>2. steps \in Seq(ToSet(steps))
    BY <2>1, StepsAre
  <2>3. DOMAIN results = DOMAIN steps
    <3>1. Len(results) = Len(steps) /\ results \in Seq({"finding", "skipped", "ok", "bad"})
      BY DEF Reported
    <3>2. QED
      BY <2>2, <3>1
  <2>4. ASSUME NEW k \in DOMAIN steps, steps[k].runs PROVE Done(k)
    <3>1. results[k] \in {"finding", "skipped", "ok", "bad"}
      BY <2>3 DEF Reported
    <3>2. results[k] # "finding" /\ results[k] # "bad"
      BY <2>3, <2>4 DEF Reported
    <3>3. results[k] = "skipped" => steps[k].opt /\ ~ EnabledByConfig(steps[k])
      BY <2>3 DEF Reported, Waits, EnabledByConfig
    <3>4. QED
      BY <3>1, <3>2, <3>3 DEF Done
  <2> HIDE DEF i
  <2>5. \A n \in Owed(i) : \E k \in DOMAIN steps : steps[k].at = n /\ Done(k)
    BY <2>1, <2>4, OwedHasStep
  <2>6. \A g \in i.gates : g.runs => \E k \in DOMAIN steps : steps[k] = g /\ Done(k)
    BY <2>1, <2>4, StepsAre
  <2>7. QED
    BY <2>5, <2>6 DEF AllDone, i
<1>2. QED
  BY <1>1, GatesInvariant, PTL

\* The gates of no other language run than of the one that is declared.
THEOREM DeclaredWins == Spec => []DeclaredStackWins
<1>1. Prepared /\ Trusted /\ Reported => DeclaredStackWins
  <2> SUFFICES ASSUME Prepared, Trusted, Reported, Gated, settings.declared \in DOMAIN DeclaredAs \ {"mixed"},
                      NEW k \in DOMAIN steps, steps[k].runs, steps[k].domain \in LanguageDomains
               PROVE  steps[k].domain = LanguageDomain[DeclaredAs[settings.declared]]
    BY DEF DeclaredStackWins
  <2> DEFINE i == PlanHere
             stack == DeclaredAs[settings.declared]
  <2>1. ConfigDeclares /\ stack \in Languages
    BY LanguagesAre DEF ConfigDeclares, DeclaredAs
  <2>2. IsInspection(i) /\ steps = StepsOf(i) /\ i.stack = stack
    BY <2>1, InspectedHere DEF Reported
  <2> HIDE DEF i, stack
  <2>3. steps[k] \in i.gates
    BY <2>2, StepsAre, LegacySteps
  <2>4. steps[k] \in LanguageGates(i.stack, i.plan)
    BY <2>2, <2>3 DEF IsInspection
  <2>5. steps[k].domain = LanguageDomain[i.stack]
    BY <2>1, <2>2, <2>4, LanguageGatesAre DEF IsInspection
  <2>6. QED
    BY <2>2, <2>5 DEF stack
<1>2. QED
  BY <1>1, GatesInvariant, PTL

-----------------------------------------------------------------------------
\* The lines of a .proto file

IsProto(p) ==
  p \in [services : Seq(Nat), current : [open : BOOLEAN, rpcs : Nat], enum : BOOLEAN, seen : BOOLEAN, zeros : Nat]

LEMMA OneMoreRpc ==
  ASSUME NEW b \in [open : BOOLEAN, rpcs : Nat]
  PROVE  LET c == [b EXCEPT !.rpcs = @ + 1] IN
         c \in [open : BOOLEAN, rpcs : Nat] /\ c.open = b.open /\ c.rpcs = b.rpcs + 1
  OBVIOUS

LEMMA ClosingAppends ==
  ASSUME NEW r, IsProto(r)
  PROVE  LET closed == IF r.current.open THEN Append(r.services, r.current.rpcs) ELSE r.services IN
         closed \in Seq(Nat) /\ CloseService(r) = [r EXCEPT !.services = closed, !.current = NoService]
<1> DEFINE closed == IF r.current.open THEN Append(r.services, r.current.rpcs) ELSE r.services
<1>1. closed \in Seq(Nat)
  BY DEF IsProto
<1>2. CloseService(r) = [r EXCEPT !.services = closed, !.current = NoService]
  BY DEF CloseService
<1>3. QED
  BY <1>1, <1>2

\* What a line does to the services, whatever the line; a plain line does one thing.
LEMMA LineParsed ==
  ASSUME NEW p, IsProto(p), NEW line \in Lines
  PROVE  LET q == ParseLine(p, line)
             closed == IF p.current.open THEN Append(p.services, p.current.rpcs) ELSE p.services IN
         /\ IsProto(q)
         /\ PlainLine(line) =>
              /\ line.declares = "service" => q.services = closed /\ q.current = [open |-> TRUE, rpcs |-> 0]
              /\ line.declares = "rpc" /\ p.current.open =>
                   q.services = p.services /\ q.current.open /\ q.current.rpcs = p.current.rpcs + 1
              /\ line.declares = "rpc" /\ ~p.current.open => q.services = p.services /\ ~q.current.open
              /\ line.begins = "close" => q.services = closed /\ q.current = NoService
              /\ line.declares \notin {"service", "rpc"} /\ line.begins # "close" =>
                   q.services = p.services /\ q.current = p.current
<1> DEFINE r == ParseEnum(p, line)
           q == ParseLine(p, line)
           closed == IF p.current.open THEN Append(p.services, p.current.rpcs) ELSE p.services
<1>1. IsProto(r) /\ r.services = p.services /\ r.current = p.current
  <2>1. ASSUME NEW e \in BOOLEAN, NEW s \in BOOLEAN
        PROVE  LET t == [p EXCEPT !.enum = e, !.seen = s] IN
               IsProto(t) /\ t.services = p.services /\ t.current = p.current
    BY DEF IsProto
  <2>2. ASSUME NEW z \in Nat
        PROVE  LET t == [p EXCEPT !.seen = TRUE, !.zeros = z] IN
               IsProto(t) /\ t.services = p.services /\ t.current = p.current
    BY DEF IsProto
  <2>3. CASE line.begins = "enum"
    <3>1. r = [p EXCEPT !.enum = TRUE, !.seen = FALSE]
      BY <2>3 DEF ParseEnum
    <3>2. QED
      BY <3>1, <2>1
  <2>4. CASE line.begins = "close" /\ p.enum
    <3>1. r = [p EXCEPT !.enum = FALSE, !.seen = FALSE]
      BY <2>4 DEF ParseEnum
    <3>2. QED
      BY <3>1, <2>1
  <2>5. CASE line.begins \notin {"enum", "close"} /\ "zero" \in line.says /\ p.enum /\ ~p.seen
    <3> DEFINE z == IF "unspecified" \in line.says THEN p.zeros ELSE p.zeros + 1
    <3>1. r = [p EXCEPT !.seen = TRUE, !.zeros = z]
      BY <2>5 DEF ParseEnum
    <3>2. z \in Nat
      BY DEF IsProto
    <3> HIDE DEF z
    <3> DEFINE t == [p EXCEPT !.seen = TRUE, !.zeros = z]
    <3>3. IsProto(t) /\ t.services = p.services /\ t.current = p.current
      BY <3>2 DEF IsProto
    <3> HIDE DEF t
    <3>4. r = t
      BY <3>1 DEF t
    <3>5. QED
      BY <3>3, <3>4
  <2>6. CASE r = p
    BY <2>6
  <2>7. QED
    BY <2>3, <2>4, <2>5, <2>6 DEF ParseEnum
<1>2. q = ParseService(r, line)
  BY DEF ParseLine
<1> HIDE DEF r, q
<1> DEFINE a == IF "service" \in line.says THEN OpenService(r) ELSE r
           b == IF "rpc" \in line.says THEN AddRpc(a) ELSE a
<1>3. q = IF line.begins = "close" THEN CloseService(b) ELSE b
  BY <1>2 DEF ParseService
<1>4. /\ closed \in Seq(Nat) /\ IsProto(OpenService(r)) /\ OpenService(r).services = closed
      /\ OpenService(r).current = [open |-> TRUE, rpcs |-> 0]
  <2>1. CloseService(r) = [r EXCEPT !.services = closed, !.current = NoService] /\ closed \in Seq(Nat)
    BY <1>1, ClosingAppends
  <2> HIDE DEF closed
  <2>2. OpenService(r) = [[r EXCEPT !.services = closed, !.current = NoService]
                            EXCEPT !.current = [open |-> TRUE, rpcs |-> 0]]
    BY <2>1 DEF OpenService
  <2>3. [open |-> TRUE, rpcs |-> 0] \in [open : BOOLEAN, rpcs : Nat]
    OBVIOUS
  <2> DEFINE fresh == [open |-> TRUE, rpcs |-> 0]
  <2>4. OpenService(r) = [r EXCEPT !.services = closed, !.current = fresh]
    BY <2>2, <1>1 DEF IsProto
  <2> HIDE DEF fresh
  <2>5. /\ IsProto([r EXCEPT !.services = closed, !.current = fresh])
        /\ OpenService(r).services = closed /\ OpenService(r).current = fresh
    BY <2>1, <2>3, <2>4, <1>1 DEF IsProto, fresh
  <2>6. QED
    BY <2>1, <2>4, <2>5 DEF fresh
<1> HIDE DEF closed
<1>5. IsProto(a) /\ ("service" \notin line.says => a.services = p.services /\ a.current = p.current)
  BY <1>1, <1>4
<1> HIDE DEF a
<1>6. /\ IsProto(b) /\ ("rpc" \notin line.says => b = a)
      /\ "rpc" \in line.says => b.services = a.services /\ (b.current.open <=> a.current.open)
      /\ "rpc" \in line.says /\ a.current.open => b.current.rpcs = a.current.rpcs + 1
  <2>1. CASE "rpc" \in line.says /\ a.current.open
    <3> DEFINE c == [a.current EXCEPT !.rpcs = @ + 1]
    <3>1. c \in [open : BOOLEAN, rpcs : Nat] /\ c.open = a.current.open /\ c.rpcs = a.current.rpcs + 1
      BY <1>5, OneMoreRpc DEF IsProto
    <3>2. b = [a EXCEPT !.current = c]
      BY <2>1, <1>5 DEF AddRpc, IsProto
    <3> HIDE DEF c, b
    <3>3. IsProto(b) /\ b.services = a.services /\ b.current = c
      BY <3>1, <3>2, <1>5 DEF IsProto
    <3>4. QED
      BY <3>1, <3>3, <2>1
  <2>2. CASE ~("rpc" \in line.says /\ a.current.open)
    BY <2>2, <1>5 DEF AddRpc
  <2>3. QED
    BY <2>1, <2>2
<1> HIDE DEF b
<1> DEFINE last == IF b.current.open THEN Append(b.services, b.current.rpcs) ELSE b.services
<1>7. /\ CloseService(b) = [b EXCEPT !.services = last, !.current = NoService]
      /\ IsProto(CloseService(b)) /\ CloseService(b).services = last /\ CloseService(b).current = NoService
  <2>1. CloseService(b) = [b EXCEPT !.services = last, !.current = NoService] /\ last \in Seq(Nat)
    BY <1>6, ClosingAppends
  <2> HIDE DEF last
  <2>2. NoService \in [open : BOOLEAN, rpcs : Nat]
    BY DEF NoService
  <2>3. QED
    BY <2>1, <2>2, <1>6 DEF IsProto
<1>8. IsProto(q)
  BY <1>3, <1>6, <1>7
<1>9. ASSUME PlainLine(line), line.declares = "service"
      PROVE  q.services = closed /\ q.current = [open |-> TRUE, rpcs |-> 0] /\ line.begins # "close"
  <2>1. "service" \in line.says /\ "rpc" \notin line.says /\ line.begins # "close"
    BY <1>9 DEF PlainLine
  <2>2. QED
    BY <2>1, <1>3, <1>4, <1>6 DEF a
<1>10. ASSUME PlainLine(line), line.declares = "rpc"
       PROVE  /\ q.services = p.services /\ (q.current.open <=> p.current.open) /\ line.begins # "close"
              /\ p.current.open => q.current.rpcs = p.current.rpcs + 1
  <2>1. "service" \notin line.says /\ "rpc" \in line.says /\ line.begins # "close"
    BY <1>10 DEF PlainLine
  <2>2. QED
    BY <2>1, <1>3, <1>5, <1>6
<1>11. ASSUME PlainLine(line), line.declares \notin {"service", "rpc"}
       PROVE  /\ b.services = p.services /\ b.current = p.current
              /\ line.begins # "close" => q = b
              /\ line.begins = "close" => q.services = last /\ q.current = NoService
  <2>1. "service" \notin line.says /\ "rpc" \notin line.says
    BY <1>11 DEF PlainLine
  <2>2. QED
    BY <2>1, <1>3, <1>5, <1>6, <1>7
<1>12. PlainLine(line) /\ line.begins = "close" => q.services = closed /\ q.current = NoService
  BY <1>9, <1>10, <1>11 DEF closed
<1>13. QED
  BY <1>8, <1>9, <1>10, <1>11, <1>12 DEF q, closed

\* Lines are read one by one.
LEMMA LinesRead ==
  ASSUME NEW lines \in Seq(Lines)
  PROVE  \E h : /\ \A k \in 0 .. Len(lines) : IsProto(h[k])
                /\ h[0] = ProtoStart
                /\ \A k \in 1 .. Len(lines) : h[k] = ParseLine(h[k - 1], lines[k])
                /\ Parse(lines).services = CloseService(h[Len(lines)]).services
<1> DEFINE n == Len(lines)
           Is(h, m) == h = [k \in 0 .. m |-> IF k = 0 THEN ProtoStart ELSE ParseLine(h[k - 1], lines[k])]
           T == {m \in 0 .. n : \E h : Is(h, m)}
<1>1. n \in Nat /\ \A k \in 1 .. n : lines[k] \in Lines
  OBVIOUS
<1>2. 0 \in T
  <2> DEFINE h0 == [k \in 0 .. 0 |-> ProtoStart]
  <2>2. \A k \in 0 .. 0 : k = 0 /\ h0[k] = ProtoStart
    OBVIOUS
  <2>3. h0 = [k \in 0 .. 0 |-> IF k = 0 THEN ProtoStart ELSE ParseLine(h0[k - 1], lines[k])]
    BY <2>2
  <2> HIDE DEF h0
  <2>4. Is(h0, 0)
    BY <2>3
  <2> HIDE DEF Is
  <2>5. QED
    BY <1>1, <2>4
<1>3. ASSUME NEW m \in 0 .. n - 1, m \in T PROVE m + 1 \in T
  <2>1. PICK h : Is(h, m)
    BY <1>3
  <2> DEFINE g == [k \in 0 .. m + 1 |-> IF k <= m THEN h[k] ELSE ParseLine(h[m], lines[k])]
  <2>2. /\ m \in Nat /\ m + 1 \in 1 .. n
        /\ \A k \in 0 .. m : h[k] = IF k = 0 THEN ProtoStart ELSE ParseLine(h[k - 1], lines[k])
    BY <1>1, <2>1
  <2>3. ASSUME NEW k \in 0 .. m + 1
        PROVE  g[k] = IF k = 0 THEN ProtoStart ELSE ParseLine(g[k - 1], lines[k])
    <3>1. CASE k <= m
      <4>1. k \in 0 .. m /\ (k # 0 => k - 1 \in 0 .. m)
        BY <2>2, <3>1
      <4>2. g[k] = h[k] /\ (k # 0 => g[k - 1] = h[k - 1])
        BY <3>1, <4>1, <2>2
      <4> HIDE DEF g
      <4>3. QED
        BY <2>2, <4>1, <4>2
    <3>2. CASE k = m + 1
      <4>1. g[k] = ParseLine(h[m], lines[k]) /\ g[k - 1] = h[m] /\ k # 0
        BY <2>2, <3>2
      <4> HIDE DEF g
      <4>2. QED
        BY <4>1
    <3>3. QED
      BY <2>2, <3>1, <3>2
  <2>4. Is(g, m + 1)
    <3>1. g = [k \in 0 .. m + 1 |-> g[k]]
      OBVIOUS
    <3> HIDE DEF g
    <3>2. QED
      BY <2>3, <3>1
  <2> HIDE DEF Is, g
  <2>5. QED
    BY <2>2, <2>4
<1>4. n \in T
  <2>1. \A m \in 0 .. n - 1 : m \in T => m + 1 \in T
    BY <1>3
  <2> HIDE DEF T, n
  <2>2. 0 .. n \subseteq T
    BY <1>1, <1>2, <2>1, Upward
  <2>3. QED
    BY <1>1, <2>2
<1> DEFINE P(h) == h = [k \in 0 .. n |-> IF k = 0 THEN ProtoStart ELSE ParseLine(h[k - 1], lines[k])]
           f == CHOOSE h : P(h)
<1>5. Parse(lines).services = CloseService(f[n]).services
  BY Zenon DEF Parse
<1>6. P(f)
  <2>1. \E h : P(h)
    BY <1>4
  <2> HIDE DEF P
  <2>2. QED
    BY <2>1
<1> HIDE DEF f
<1>7. f[0] = ProtoStart /\ \A k \in 1 .. n : f[k] = ParseLine(f[k - 1], lines[k])
  <2>1. 0 \in 0 .. n /\ \A k \in 1 .. n : k \in 0 .. n /\ k # 0
    BY <1>1
  <2> HIDE DEF n
  <2>2. f = [k \in 0 .. n |-> IF k = 0 THEN ProtoStart ELSE ParseLine(f[k - 1], lines[k])]
    BY <1>6
  <2>3. \A k \in 0 .. n : f[k] = IF k = 0 THEN ProtoStart ELSE ParseLine(f[k - 1], lines[k])
    BY <2>2
  <2>4. QED
    BY <2>1, <2>3
<1> HIDE DEF P
<1>8. \A k \in 0 .. n : IsProto(f[k])
  <2> DEFINE U == {k \in 0 .. n : IsProto(f[k])}
  <2>1. 0 \in U
    <3>1. IsProto(ProtoStart)
      BY DEF IsProto, ProtoStart, NoService
    <3>2. QED
      BY <3>1, <1>1, <1>7
  <2>2. ASSUME NEW k \in 0 .. n - 1, k \in U PROVE k + 1 \in U
    <3>1. k + 1 \in 1 .. n /\ (k + 1) - 1 = k /\ IsProto(f[k]) /\ lines[k + 1] \in Lines
      BY <1>1, <2>2
    <3>2. f[k + 1] = ParseLine(f[k], lines[k + 1])
      BY <3>1, <1>7
    <3>3. IsProto(f[k + 1])
      BY <3>1, <3>2, LineParsed
    <3>4. QED
      BY <3>1, <3>3
  <2>3. 0 .. n \subseteq U
    <3>1. \A k \in 0 .. n - 1 : k \in U => k + 1 \in U
      BY <2>2
    <3> HIDE DEF U
    <3>2. QED
      BY <1>1, <2>1, <3>1, Upward
  <2>4. QED
    BY <2>3
<1>9. QED
  BY <1>5, <1>7, <1>8

\* The services that are begun up to a line.
Begun(lines, k) == ServiceLines(lines) \cap 1 .. k

LEMMA BegunCount ==
  ASSUME NEW lines \in Seq(Lines), NEW k \in 0 .. Len(lines)
  PROVE  /\ IsFiniteSet(Begun(lines, k)) /\ Cardinality(Begun(lines, k)) \in Nat
         /\ k < Len(lines) =>
              Cardinality(Begun(lines, k + 1)) =
                Cardinality(Begun(lines, k)) + IF lines[k + 1].declares = "service" THEN 1 ELSE 0
<1>1. Len(lines) \in Nat /\ k \in Nat /\ DOMAIN lines = 1 .. Len(lines)
  OBVIOUS
<1>2. IsFiniteSet(1 .. k)
  BY <1>1, FS_Interval
<1>3. IsFiniteSet(Begun(lines, k)) /\ Cardinality(Begun(lines, k)) \in Nat
  BY <1>2, FS_Subset, FS_CardinalityType DEF Begun
<1>4. ASSUME k < Len(lines)
      PROVE  Cardinality(Begun(lines, k + 1)) =
               Cardinality(Begun(lines, k)) + IF lines[k + 1].declares = "service" THEN 1 ELSE 0
  <2>1. 1 .. k + 1 = (1 .. k) \cup {k + 1} /\ k + 1 \in DOMAIN lines /\ k + 1 \notin 1 .. k
    BY <1>1, <1>4
  <2>2. CASE lines[k + 1].declares = "service"
    <3>1. Begun(lines, k + 1) = Begun(lines, k) \cup {k + 1} /\ k + 1 \notin Begun(lines, k)
      BY <2>1, <2>2 DEF Begun, ServiceLines
    <3>2. Cardinality(Begun(lines, k + 1)) = Cardinality(Begun(lines, k)) + 1
      BY <3>1, <1>3, FS_AddElement
    <3>3. QED
      BY <3>2, <2>2
  <2>3. CASE lines[k + 1].declares # "service"
    <3>1. Begun(lines, k + 1) = Begun(lines, k)
      BY <2>1, <2>3 DEF Begun, ServiceLines
    <3>2. QED
      BY <3>1, <2>3, <1>3
  <2>4. QED
    BY <2>2, <2>3
<1>5. QED
  BY <1>3, <1>4

\* Of two services, more are begun up to the later one.
LEMMA LaterHaveMore ==
  ASSUME NEW lines \in Seq(Lines), NEW i \in ServiceLines(lines), NEW j \in ServiceLines(lines), i < j
  PROVE  Cardinality(Begun(lines, i)) < Cardinality(Begun(lines, j))
<1>1. Len(lines) \in Nat /\ i \in 1 .. Len(lines) /\ j \in 1 .. Len(lines)
  BY DEF ServiceLines
<1>2. /\ IsFiniteSet(Begun(lines, i)) /\ Cardinality(Begun(lines, i)) \in Nat
      /\ IsFiniteSet(Begun(lines, j)) /\ Cardinality(Begun(lines, j)) \in Nat
  <2>1. i \in 0 .. Len(lines) /\ j \in 0 .. Len(lines)
    BY <1>1
  <2>2. QED
    BY <2>1, BegunCount
<1>3. Begun(lines, i) \subseteq Begun(lines, j)
  <2>1. 1 .. i \subseteq 1 .. j
    BY <1>1
  <2>2. QED
    BY <2>1 DEF Begun
<1>4. j \in Begun(lines, j) /\ j \notin Begun(lines, i)
  <2>1. j \in 1 .. j /\ j \notin 1 .. i
    BY <1>1
  <2>2. QED
    BY <2>1 DEF Begun
<1>5. Cardinality(Begun(lines, i)) <= Cardinality(Begun(lines, j))
  BY <1>2, <1>3, FS_Subset
<1>6. Cardinality(Begun(lines, j)) # Cardinality(Begun(lines, i))
  BY <1>2, <1>3, <1>4, FS_Subset
<1>7. QED
  BY <1>2, <1>5, <1>6

\* A service ends where the next begins or, in a legible file, a brace closes.
Ends(line) == line.declares = "service" \/ line.begins = "close"

\* The rpcs of a service up to a line.
LEMMA RpcCount ==
  ASSUME NEW lines \in Seq(Lines), NEW i \in ServiceLines(lines), NEW k \in i .. Len(lines),
         \A j \in i + 1 .. k : lines[j].declares # "service"
  PROVE  /\ IsFiniteSet(Within(lines, i) \cap 1 .. k)
         /\ Cardinality(Within(lines, i) \cap 1 .. k) \in Nat
         /\ k = i => Cardinality(Within(lines, i) \cap 1 .. k) = 0
         /\ k = Len(lines) => Within(lines, i) \cap 1 .. k = Within(lines, i)
         /\ k < Len(lines) /\ Ends(lines[k + 1]) /\ Legible(lines) =>
              Within(lines, i) \cap 1 .. k = Within(lines, i)
         /\ k < Len(lines) /\ lines[k + 1].declares # "service" =>
              Cardinality(Within(lines, i) \cap 1 .. k + 1) =
                Cardinality(Within(lines, i) \cap 1 .. k) + IF lines[k + 1].declares = "rpc" THEN 1 ELSE 0
<1> DEFINE W == Within(lines, i)
<1>1. Len(lines) \in Nat /\ i \in 1 .. Len(lines) /\ k \in Nat
  BY DEF ServiceLines
<1>2. \A j : j \in W <=> /\ j \in i + 1 .. Len(lines) /\ lines[j].declares = "rpc"
                         /\ \A l \in i + 1 .. j : lines[l].declares # "service"
  BY DEF Within
<1> HIDE DEF W
<1>3. IsFiniteSet(W \cap 1 .. k) /\ Cardinality(W \cap 1 .. k) \in Nat
  <2>1. IsFiniteSet(1 .. k)
    BY <1>1, FS_Interval
  <2>2. QED
    BY <2>1, FS_Subset, FS_CardinalityType
<1>4. ASSUME k = i PROVE Cardinality(W \cap 1 .. k) = 0
  <2>1. ASSUME NEW j \in W \cap 1 .. k PROVE FALSE
    <3>1. j \in i + 1 .. Len(lines) /\ j \in 1 .. i
      BY <1>2, <1>4
    <3>2. QED
      BY <3>1, <1>1
  <2>2. W \cap 1 .. k = {}
    BY <2>1
  <2>3. QED
    BY <2>2, FS_EmptySet
<1>5. ASSUME k = Len(lines) PROVE W \cap 1 .. k = W
  BY <1>1, <1>2, <1>5
<1>6. ASSUME k < Len(lines), Ends(lines[k + 1]), Legible(lines) PROVE W \cap 1 .. k = W
  <2>1. ASSUME NEW j \in W PROVE j \in 1 .. k
    <3>1. j \in i + 1 .. Len(lines) /\ \A l \in i + 1 .. j : lines[l].declares # "service"
      BY <1>2
    <3>2. \A l \in i .. j : lines[l].begins # "close"
      BY <1>6 DEF Legible, W
    <3>3. k + 1 \notin i + 1 .. j
      <4>1. k + 1 \in i + 1 .. j => k + 1 \in i .. j
        BY <1>1
      <4>2. QED
        BY <4>1, <3>1, <3>2, <1>6 DEF Ends
    <3>4. QED
      BY <3>1, <3>3, <1>1
  <2>2. QED
    BY <2>1
<1>7. ASSUME k < Len(lines), lines[k + 1].declares # "service"
      PROVE  Cardinality(W \cap 1 .. k + 1) =
               Cardinality(W \cap 1 .. k) + IF lines[k + 1].declares = "rpc" THEN 1 ELSE 0
  <2>1. 1 .. k + 1 = (1 .. k) \cup {k + 1} /\ k + 1 \notin 1 .. k /\ k + 1 \in i + 1 .. Len(lines)
    BY <1>1, <1>7
  <2>2. CASE lines[k + 1].declares = "rpc"
    <3>1. ASSUME NEW l \in i + 1 .. k + 1 PROVE lines[l].declares # "service"
      <4>1. l \in i + 1 .. k \/ l = k + 1
        BY <1>1
      <4>2. QED
        BY <4>1, <1>7
    <3>2. k + 1 \in W
      BY <3>1, <2>1, <2>2, <1>2
    <3>3. W \cap 1 .. k + 1 = (W \cap 1 .. k) \cup {k + 1} /\ k + 1 \notin W \cap 1 .. k
      BY <3>2, <2>1
    <3>4. Cardinality(W \cap 1 .. k + 1) = Cardinality(W \cap 1 .. k) + 1
      BY <3>3, <1>3, FS_AddElement
    <3>5. QED
      BY <3>4, <2>2
  <2>3. CASE lines[k + 1].declares # "rpc"
    <3>1. k + 1 \notin W
      BY <2>3, <1>2
    <3>2. W \cap 1 .. k + 1 = W \cap 1 .. k
      BY <3>1, <2>1
    <3> DEFINE a == Cardinality(W \cap 1 .. k)
               b == Cardinality(W \cap 1 .. k + 1)
    <3>3. b = a /\ a \in Nat
      BY <3>2, <1>3
    <3> HIDE DEF a, b
    <3>4. b = a + 0 /\ (IF lines[k + 1].declares = "rpc" THEN 1 ELSE 0) = 0
      BY <3>3, <2>3
    <3>5. b = a + IF lines[k + 1].declares = "rpc" THEN 1 ELSE 0
      BY <3>4
    <3>6. QED
      BY <3>5 DEF a, b
  <2>4. QED
    BY <2>2, <2>3
<1>8. QED
  BY <1>3, <1>4, <1>5, <1>6, <1>7 DEF W

\* What has been found when k lines are read: each service that is closed, with
\* all its rpcs, and the rpcs so far of the one that is open, the last one.
Closed(lines, services, k) ==
  \A m \in 1 .. Len(services) : \E i \in Begun(lines, k) :
    Cardinality(Begun(lines, i)) = m /\ services[m] = Cardinality(Within(lines, i))

ReadTo(lines, p, k) ==
  /\ Closed(lines, p.services, k)
  /\ ~p.current.open => Len(p.services) = Cardinality(Begun(lines, k))
  /\ p.current.open =>
       /\ Len(p.services) + 1 = Cardinality(Begun(lines, k))
       /\ \E i \in Begun(lines, k) :
            /\ Cardinality(Begun(lines, i)) = Cardinality(Begun(lines, k))
            /\ \A j \in i + 1 .. k : lines[j].declares # "service"
            /\ p.current.rpcs = Cardinality(Within(lines, i) \cap 1 .. k)

\* A service that ends, by a brace, by the next one or with the file.
LEMMA ServiceCloses ==
  ASSUME NEW lines \in Seq(Lines), NEW k \in 0 .. Len(lines), NEW p, IsProto(p), ReadTo(lines, p, k),
         Legible(lines), k < Len(lines) => Ends(lines[k + 1])
  PROVE  LET closed == IF p.current.open THEN Append(p.services, p.current.rpcs) ELSE p.services IN
         /\ closed \in Seq(Nat) /\ Len(closed) = Cardinality(Begun(lines, k))
         /\ Closed(lines, closed, k)
<1>1. p.services \in Seq(Nat) /\ p.current.rpcs \in Nat
  BY DEF IsProto
<1>2. CASE ~p.current.open
  BY <1>1, <1>2 DEF ReadTo
<1>3. CASE p.current.open
  <2> DEFINE s == p.services
             c == p.current.rpcs
             closed == Append(s, c)
  <2>1. /\ s \in Seq(Nat) /\ c \in Nat /\ Closed(lines, s, k)
        /\ Len(s) + 1 = Cardinality(Begun(lines, k))
    BY <1>1, <1>3 DEF ReadTo
  <2>2. PICK i \in Begun(lines, k) :
          /\ Cardinality(Begun(lines, i)) = Cardinality(Begun(lines, k))
          /\ \A j \in i + 1 .. k : lines[j].declares # "service"
          /\ c = Cardinality(Within(lines, i) \cap 1 .. k)
    BY <1>3 DEF ReadTo
  <2>3. i \in ServiceLines(lines) /\ k \in i .. Len(lines)
    BY <2>2 DEF Begun
  <2>4. Within(lines, i) \cap 1 .. k = Within(lines, i)
    <3>1. CASE k = Len(lines)
      BY <3>1, <2>2, <2>3, RpcCount
    <3>2. CASE k # Len(lines)
      <4>1. k < Len(lines)
        BY <3>2
      <4>2. QED
        BY <4>1, <2>2, <2>3, RpcCount
    <3>3. QED
      BY <3>1, <3>2
  <2> HIDE DEF s, c
  <2>5. /\ closed \in Seq(Nat) /\ Len(closed) = Len(s) + 1 /\ Len(s) \in Nat
        /\ closed[Len(s) + 1] = c /\ \A m \in 1 .. Len(s) : closed[m] = s[m]
    BY <2>1
  <2> HIDE DEF closed
  <2>6. ASSUME NEW m \in 1 .. Len(closed)
        PROVE  \E l \in Begun(lines, k) :
                 Cardinality(Begun(lines, l)) = m /\ closed[m] = Cardinality(Within(lines, l))
    <3>1. CASE m \in 1 .. Len(s)
      BY <3>1, <2>1, <2>5 DEF Closed
    <3>2. CASE m = Len(s) + 1
      <4>1. Cardinality(Begun(lines, i)) = m /\ closed[m] = Cardinality(Within(lines, i))
        BY <3>2, <2>1, <2>2, <2>4, <2>5
      <4>2. QED
        BY <4>1
    <3>3. QED
      BY <3>1, <3>2, <2>5
  <2>7. closed \in Seq(Nat) /\ Len(closed) = Cardinality(Begun(lines, k)) /\ Closed(lines, closed, k)
    BY <2>1, <2>5, <2>6 DEF Closed
  <2>8. QED
    BY <2>7, <1>3 DEF closed, s, c
<1>4. QED
  BY <1>2, <1>3

LEMMA LineRead ==
  ASSUME NEW lines \in Seq(Lines), NEW k \in 0 .. Len(lines) - 1, NEW p, IsProto(p), ReadTo(lines, p, k),
         Legible(lines)
  PROVE  ReadTo(lines, ParseLine(p, lines[k + 1]), k + 1)
<1> DEFINE line == lines[k + 1]
           q == ParseLine(p, line)
           closed == IF p.current.open THEN Append(p.services, p.current.rpcs) ELSE p.services
           declares == line.declares
           begins == line.begins
           B(l) == Begun(lines, l)
           C(l) == Cardinality(B(l))
<1>1. /\ Len(lines) \in Nat /\ k \in 0 .. Len(lines) /\ k + 1 \in 0 .. Len(lines) /\ k < Len(lines) /\ k \in Nat
      /\ line \in Lines /\ k + 1 \in DOMAIN lines
  OBVIOUS
<1>plain. PlainLine(line)
  BY <1>1 DEF Legible
<1>2. /\ IsProto(q)
      /\ declares = "service" => q.services = closed /\ q.current = [open |-> TRUE, rpcs |-> 0]
      /\ declares = "rpc" /\ p.current.open =>
           q.services = p.services /\ q.current.open /\ q.current.rpcs = p.current.rpcs + 1
      /\ declares = "rpc" /\ ~p.current.open => q.services = p.services /\ ~q.current.open
      /\ begins = "close" => q.services = closed /\ q.current = NoService
      /\ declares \notin {"service", "rpc"} /\ begins # "close" =>
           q.services = p.services /\ q.current = p.current
  BY <1>1, <1>plain, LineParsed
<1>3. /\ C(k) \in Nat /\ C(k + 1) = C(k) + IF declares = "service" THEN 1 ELSE 0
      /\ B(k) \subseteq B(k + 1)
  <2>1. B(k) \subseteq B(k + 1)
    BY <1>1 DEF Begun
  <2>2. QED
    BY <2>1, <1>1, BegunCount
<1>ends. Ends(line) <=> declares = "service" \/ begins = "close"
  BY DEF Ends
<1>brace. begins = "close" => declares \notin {"service", "rpc"}
  BY <1>plain DEF PlainLine, Lines
<1> SUFFICES ReadTo(lines, q, k + 1)
  OBVIOUS
<1> HIDE DEF q
<1>4. ASSUME Ends(line)
      PROVE  /\ closed \in Seq(Nat) /\ Len(closed) = C(k) /\ Closed(lines, closed, k + 1)
  <2>1. closed \in Seq(Nat) /\ Len(closed) = C(k) /\ Closed(lines, closed, k)
    BY <1>1, <1>4, ServiceCloses
  <2> HIDE DEF closed
  <2>2. QED
    BY <2>1, <1>3 DEF Closed
<1>line. lines[k + 1].declares = declares
  OBVIOUS
<1> HIDE DEF closed, declares, begins
<1>5. CASE declares = "service"
  <2>1. q.services = closed /\ q.current.open /\ q.current.rpcs = 0 /\ C(k + 1) = C(k) + 1
    BY <1>2, <1>3, <1>5
  <2>2. k + 1 \in B(k + 1) /\ k + 1 \in ServiceLines(lines) /\ k + 1 \in k + 1 .. Len(lines)
    BY <1>1, <1>line, <1>5 DEF Begun, ServiceLines
  <2>3. \A j \in (k + 1) + 1 .. k + 1 : lines[j].declares # "service"
    BY <1>1
  <2>4. Cardinality(Within(lines, k + 1) \cap 1 .. k + 1) = 0
    BY <2>2, <2>3, <1>1, RpcCount
  <2>5. QED
    BY <2>1, <2>2, <2>3, <2>4, <1>4, <1>ends, <1>5 DEF ReadTo
<1>6. CASE begins = "close"
  <2>1. q.services = closed /\ ~q.current.open /\ C(k + 1) = C(k)
    BY <1>2, <1>3, <1>brace, <1>6 DEF NoService
  <2>2. QED
    BY <2>1, <1>4, <1>ends, <1>6 DEF ReadTo
<1>7. CASE declares # "service" /\ begins # "close"
  <2>1. q.services = p.services /\ C(k + 1) = C(k) /\ (q.current.open <=> p.current.open)
    BY <1>2, <1>3, <1>7
  <2>2. Closed(lines, q.services, k + 1)
    BY <2>1, <1>3 DEF ReadTo, Closed
  <2>3. ~p.current.open => Len(q.services) = C(k + 1)
    BY <2>1 DEF ReadTo
  <2>4. ASSUME p.current.open
        PROVE  /\ Len(q.services) + 1 = C(k + 1)
               /\ \E i \in B(k + 1) :
                    /\ C(i) = C(k + 1)
                    /\ \A j \in i + 1 .. k + 1 : lines[j].declares # "service"
                    /\ q.current.rpcs = Cardinality(Within(lines, i) \cap 1 .. k + 1)
    <3>1. Len(q.services) + 1 = C(k + 1)
      BY <2>1, <2>4 DEF ReadTo
    <3>2. PICK i \in B(k) :
            /\ C(i) = C(k)
            /\ \A j \in i + 1 .. k : lines[j].declares # "service"
            /\ p.current.rpcs = Cardinality(Within(lines, i) \cap 1 .. k)
      BY <2>4 DEF ReadTo
    <3>3. i \in ServiceLines(lines) /\ k \in i .. Len(lines) /\ i \in Nat
      BY <3>2, <1>1 DEF Begun
    <3>4. \A j \in i + 1 .. k + 1 : lines[j].declares # "service"
      <4>1. \A j \in i + 1 .. k + 1 : j \in i + 1 .. k \/ j = k + 1
        BY <1>1, <3>3
      <4>2. QED
        BY <4>1, <3>2, <1>line, <1>7
    <3>5. /\ Cardinality(Within(lines, i) \cap 1 .. k) \in Nat
          /\ Cardinality(Within(lines, i) \cap 1 .. k + 1) =
               Cardinality(Within(lines, i) \cap 1 .. k) + IF declares = "rpc" THEN 1 ELSE 0
      BY <3>2, <3>3, <1>1, <1>line, <1>7, RpcCount
    <3>6. q.current.rpcs = Cardinality(Within(lines, i) \cap 1 .. k + 1)
      <4>1. CASE declares = "rpc"
        BY <4>1, <3>2, <3>5, <2>4, <1>2
      <4>2. CASE declares # "rpc"
        BY <4>2, <3>2, <3>5, <1>2, <1>7
      <4>3. QED
        BY <4>1, <4>2
    <3>7. i \in B(k + 1) /\ C(i) = C(k + 1)
      BY <3>2, <1>3, <2>1
    <3>8. QED
      BY <3>1, <3>4, <3>6, <3>7
  <2> HIDE DEF B, C
  <2>5. QED
    BY <2>1, <2>2, <2>3, <2>4 DEF ReadTo, B, C
<1>8. QED
  BY <1>5, <1>6, <1>7

\* parse_proto_detail finds what a legible file declares.
LEMMA ServicesParsed ==
  ASSUME NEW lines \in Seq(Lines), Legible(lines)
  PROVE  Parse(lines).services = ServicesOf(lines)
<1> DEFINE n == Len(lines)
           S == ServiceLines(lines)
           C(i) == Cardinality(Begun(lines, i))
<1>1. n \in Nat /\ DOMAIN lines = 1 .. n
  OBVIOUS
<1>2. PICK h : /\ \A k \in 0 .. n : IsProto(h[k])
               /\ h[0] = ProtoStart
               /\ \A k \in 1 .. n : h[k] = ParseLine(h[k - 1], lines[k])
               /\ Parse(lines).services = CloseService(h[n]).services
  BY LinesRead
<1>3. ReadTo(lines, h[0], 0)
  <2>1. Begun(lines, 0) = {}
    BY DEF Begun
  <2>2. Cardinality(Begun(lines, 0)) = 0
    BY <2>1, FS_EmptySet
  <2>3. h[0].services = <<>> /\ ~h[0].current.open
    BY <1>2 DEF ProtoStart, NoService
  <2>4. QED
    BY <2>2, <2>3 DEF ReadTo, Closed
<1>4. ReadTo(lines, h[n], n)
  <2> DEFINE U == {k \in 0 .. n : ReadTo(lines, h[k], k)}
  <2>1. 0 \in U
    BY <1>1, <1>3
  <2>2. ASSUME NEW k \in 0 .. n - 1, k \in U PROVE k + 1 \in U
    <3>1. /\ k \in 0 .. n /\ k + 1 \in 1 .. n /\ (k + 1) - 1 = k /\ k + 1 \in 0 .. n
          /\ k + 1 \in DOMAIN lines /\ ReadTo(lines, h[k], k)
      BY <1>1, <2>2
    <3>2. IsProto(h[k]) /\ h[k + 1] = ParseLine(h[k], lines[k + 1])
      BY <3>1, <1>2
    <3>3. ReadTo(lines, ParseLine(h[k], lines[k + 1]), k + 1)
      BY <3>1, <3>2, LineRead
    <3>4. QED
      BY <3>1, <3>2, <3>3
  <2>3. 0 .. n \subseteq U
    <3>1. \A k \in 0 .. n - 1 : k \in U => k + 1 \in U
      BY <2>2
    <3> HIDE DEF U, n
    <3>2. QED
      BY <1>1, <2>1, <3>1, Upward
  <2>4. QED
    BY <2>3, <1>1
<1> DEFINE p == h[n]
           closed == IF p.current.open THEN Append(p.services, p.current.rpcs) ELSE p.services
<1>5. n \in 0 .. Len(lines) /\ ~(n < Len(lines)) /\ IsProto(p)
  BY <1>1, <1>2
<1>6. closed \in Seq(Nat) /\ Len(closed) = C(n) /\ Closed(lines, closed, n)
  BY <1>4, <1>5, ServiceCloses
<1>7. Parse(lines).services = closed
  <2>1. p.services = p.services /\ "services" \in DOMAIN p
    BY <1>5 DEF IsProto
  <2>2. CloseService(p).services = closed
    BY <2>1, <1>5 DEF CloseService, IsProto
  <2>3. QED
    BY <2>2, <1>2
<1> HIDE DEF closed, p
<1>8. Begun(lines, n) = S /\ \A i \in S : Begun(lines, i) = S \cap 1 .. i
  BY <1>1 DEF Begun, ServiceLines
<1>9. ASSUME NEW m \in 1 .. C(n)
      PROVE  closed[m] = Cardinality(Within(lines, CHOOSE i \in S : Cardinality(S \cap 1 .. i) = m))
  <2>1. PICK i \in S : C(i) = m /\ closed[m] = Cardinality(Within(lines, i))
    BY <1>6, <1>8 DEF Closed
  <2>2. ASSUME NEW j \in S, C(j) = m PROVE j = i
    <3>1. i \in Nat /\ j \in Nat /\ C(i) = C(j) /\ C(i) \in Nat
      <4>1. i \in 0 .. Len(lines) /\ j \in 0 .. Len(lines)
        BY <1>1 DEF ServiceLines
      <4>2. QED
        BY <4>1, <2>1, <2>2, BegunCount
    <3>2. ~(i < j)
      BY <3>1, LaterHaveMore
    <3>3. ~(j < i)
      BY <3>1, LaterHaveMore
    <3>4. QED
      BY <3>1, <3>2, <3>3
  <2>3. \A j \in S : Cardinality(S \cap 1 .. j) = m <=> j = i
    BY <1>8, <2>1, <2>2
  <2> HIDE DEF S
  <2>4. (CHOOSE j \in S : Cardinality(S \cap 1 .. j) = m) = i
    BY <2>3
  <2>5. QED
    BY <2>1, <2>4
<1>10. ServicesOf(lines) = [m \in 1 .. C(n) |-> closed[m]]
  <2>1. ServicesOf(lines) = [m \in 1 .. C(n) |->
          Cardinality(Within(lines, CHOOSE i \in S : Cardinality(S \cap 1 .. i) = m))]
    BY <1>8, Zenon DEF ServicesOf
  <2> DEFINE F(m) == Cardinality(Within(lines, CHOOSE i \in S : Cardinality(S \cap 1 .. i) = m))
  <2>2. \A m \in 1 .. C(n) : closed[m] = F(m)
    BY <1>9
  <2> HIDE DEF F, C
  <2>3. [m \in 1 .. C(n) |-> F(m)] = [m \in 1 .. C(n) |-> closed[m]]
    BY <2>2
  <2>4. QED
    BY <2>1, <2>3 DEF F
<1>11. closed = [m \in 1 .. C(n) |-> closed[m]]
  BY <1>6
<1>12. QED
  BY <1>7, <1>10, <1>11

\* In a legible .proto file, however long, the parser finds each service and
\* counts its rpcs.  A file is not legible that has the word `service ` or `rpc ` in
\* a remark or a field, two declarations on a line, or a closing brace at the
\* beginning of a line between a service and an rpc of it.
THEOREM ParserAgrees == Spec => []ParseAgrees
<1>1. Trusted => ParseAgrees
  <2> SUFFICES ASSUME Trusted, NEW f \in ProtoFiles(repo), Legible(repo.proto[f])
               PROVE  Parse(repo.proto[f]).services = ServicesOf(repo.proto[f])
    BY DEF ParseAgrees
  <2>1. repo.proto[f] \in Seq(Lines)
    BY DEF Trusted, IsReadable
  <2>2. QED
    BY <2>1, ServicesParsed
<1>2. QED
  BY <1>1, GatesInvariant, PTL

-----------------------------------------------------------------------------
\* The graph of the domains

SpokenFor(r, d) == \E p \in AutoProfiles(r) : p.id = d

LEMMA SignalsSpeak ==
  ASSUME NEW r, NEW d
  PROVE  SpokenFor(r, d) <=> \E f \in Visible(r) : \E s \in Signals(f) : s.domain = d
<1>1. SpokenFor(r, d) <=> d \in {e.domain : e \in Evidence(r)}
  <2> DEFINE D == {e.domain : e \in Evidence(r)}
             P(c) == Profile(c, Confidence(Evidence(r), c))
  <2>1. AutoProfiles(r) = {P(c) : c \in D}
    BY Zenon DEF AutoProfiles
  <2>2. \A c : P(c).id = c
    BY DEF Profile
  <2> HIDE DEF P, D
  <2>3. SpokenFor(r, d) <=> d \in D
    BY <2>1, <2>2 DEF SpokenFor
  <2>4. QED
    BY <2>3 DEF D
<1> DEFINE Of(f) == {[file |-> f, domain |-> s.domain, weight |-> s.weight] : s \in Signals(f)}
<1>2. d \in {e.domain : e \in Evidence(r)} <=> \E f \in Visible(r) : \E e \in Of(f) : e.domain = d
  <2>1. Evidence(r) = UNION {Of(f) : f \in Visible(r)}
    BY DEF Evidence
  <2> HIDE DEF Of
  <2>2. QED
    BY <2>1
<1>3. ASSUME NEW f
      PROVE  (\E e \in Of(f) : e.domain = d) <=> \E s \in Signals(f) : s.domain = d
  <2>1. \A s \in Signals(f) :
          LET e == [file |-> f, domain |-> s.domain, weight |-> s.weight]
          IN e \in Of(f) /\ e.domain = s.domain
    OBVIOUS
  <2>2. \A e \in Of(f) : \E s \in Signals(f) : e.domain = s.domain
    OBVIOUS
  <2> HIDE DEF Of
  <2>3. QED
    BY <2>1, <2>2
<1>4. QED
  BY <1>1, <1>2, <1>3

\* Where there is a .proto file, both of its domains are detected.
LEMMA ProtoSpeaks ==
  ASSUME NEW r, ProtoFiles(r) # {}, NEW d \in {"api_contracts.protobuf", "rpc.grpc"}
  PROVE  SpokenFor(r, d)
<1>1. PICK f \in Visible(r) : Has(f, ".proto")
  BY DEF ProtoFiles
<1>2. /\ Signal(Has(f, ".proto"), "api_contracts.protobuf", 8) \subseteq Signals(f)
      /\ Signal(Has(f, ".proto"), "rpc.grpc", 4) \subseteq Signals(f)
  BY DEF Signals
<1>3. ASSUME NEW w PROVE [domain |-> d, weight |-> w] \in Signal(Has(f, ".proto"), d, w)
  BY <1>1 DEF Signal
<1>4. PICK w : [domain |-> d, weight |-> w] \in Signals(f)
  BY <1>2, <1>3
<1>5. QED
  BY <1>4, SignalsSpeak

\* A finding is of a domain that is detected, whatever domains are selected.
LEMMA FindingsAreSpokenFor ==
  ASSUME NEW r, NEW n \in DomainFindings(r)
  PROVE  SpokenFor(r, n.domain)
<1>1. n.domain \in {"api_contracts.protobuf", "rpc.grpc"}
  <2>1. CASE n \in ProtobufFindings(r)
    <3>1. \E id, about : n = Finding("api_contracts.protobuf", id, about)
      BY <2>1 DEF ProtobufFindings, If
    <3>2. QED
      BY <3>1 DEF Finding
  <2>2. CASE n \in RpcFindings(r)
    <3>1. PICK id : n = Finding("rpc.grpc", id, {})
      BY <2>2 DEF RpcFindings, If
    <3>2. QED
      BY <3>1 DEF Finding
  <2>3. QED
    BY <2>1, <2>2 DEF DomainFindings, If
<1>2. ProtoFiles(r) # {}
  BY DEF DomainFindings, If, RpcService, RpcLines
<1>3. QED
  BY <1>1, <1>2, ProtoSpeaks

\* Each gate is of a domain that is composed.
LEMMA GatesAreComposed ==
  ASSUME NEW r, NEW selection, NEW g \in DomainGates(r, selection)
  PROVE  \E p \in ComposeProfiles(r, selection) : p.id = g.domain
<1>1. PICK p \in ComposeProfiles(r, selection) : g \in GatesOf(r, p.id)
  BY DEF DomainGates
<1>2. \E name, runs, opt : g = Gate(p.id, name, runs, opt)
  BY <1>1 DEF GatesOf
<1>3. QED
  BY <1>1, <1>2 DEF Gate

LEMMA AllAreComposed ==
  ASSUME NEW r, NEW selection \in {{}, {"auto"}}
  PROVE  ComposeProfiles(r, selection) = AutoProfiles(r)
<1>1. UNION {Expand(item) : item \in selection \ Modes} = {}
  BY DEF Modes
<1>2. ~ Off(selection)
  BY DEF Off
<1>3. QED
  BY <1>1, <1>2 DEF ComposeProfiles

\* compose_domain_profiles and domain_matches_selection agree.
LEMMA ComposedMatches ==
  ASSUME NEW r, NEW selection, NEW p \in ComposeProfiles(r, selection)
  PROVE  MatchesSelection(p.id, selection)
<1> DEFINE selectors == UNION {Expand(item) : item \in selection \ Modes}
<1>1. ~ Off(selection)
  BY DEF ComposeProfiles
<1>2. \/ selection = {}
      \/ selection \cap {"auto", "detected_only"} # {}
      \/ p.id \in selectors
  BY DEF ComposeProfiles, Declared, Profile
<1>3. selectors \subseteq UNION {Expand(item) : item \in selection \ {"declared_only"}}
  BY DEF Modes
<1>4. QED
  BY <1>1, <1>2, <1>3 DEF MatchesSelection

LEMMA OnePart ==
  ASSUME NEW from, NEW id, NEW kind, NEW edge
  PROVE  LET p == Part(from, id, kind, edge)
         IN p.nodes = {Node(id, kind)} /\ p.edges = {Edge(from, id, edge)}
  BY DEF Part

\* A graph is whole when each of its parts has no edges, or one from a node of
\* another to the node that it brings.
HasNode(parts, id) == \E p \in parts : \E n \in p.nodes : n.id = id
Hangs(p, parts) ==
  \/ p.edges = {}
  \/ \E from, id, kind, edge : p = Part(from, id, kind, edge) /\ HasNode(parts, from)

LEMMA PartHasNode ==
  ASSUME NEW parts, NEW from, NEW id, NEW kind, NEW edge, Part(from, id, kind, edge) \in parts
  PROVE  HasNode(parts, id)
<1> DEFINE p == Part(from, id, kind, edge)
<1>1. Node(id, kind) \in p.nodes /\ Node(id, kind).id = id
  BY OnePart DEF Node
<1> HIDE DEF p
<1>2. p \in parts
  BY DEF p
<1>3. QED
  BY <1>1, <1>2 DEF HasNode

LEMMA JoinedIsWhole ==
  ASSUME NEW parts, \A p \in parts : Hangs(p, parts)
  PROVE  Whole(Joined(parts))
<1> DEFINE graph == Joined(parts)
<1>1. ASSUME NEW id, HasNode(parts, id) PROVE id \in {n.id : n \in graph.nodes}
  BY <1>1 DEF HasNode, Joined
<1>2. ASSUME NEW e \in graph.edges PROVE HasNode(parts, e.from) /\ HasNode(parts, e.to)
  <2>1. PICK p \in parts : e \in p.edges
    BY <1>2 DEF Joined
  <2>2. PICK from, id, kind, edge : p = Part(from, id, kind, edge) /\ HasNode(parts, from)
    BY <2>1 DEF Hangs
  <2>3. e.from = from /\ e.to = id
    BY <2>1, <2>2, OnePart DEF Edge
  <2>4. QED
    BY <2>1, <2>2, <2>3, PartHasNode
<1> HIDE DEF graph
<1>3. QED
  BY <1>1, <1>2 DEF Whole, graph

\* What is drawn of the .proto files hangs on the two domains, or on itself.
LEMMA ProtoHangs ==
  ASSUME NEW r, NEW parts, ProtoParts(r) \subseteq parts, NEW p \in ProtoParts(r),
         HasNode(parts, <<"domain", "api_contracts.protobuf">>),
         HasNode(parts, <<"domain", "rpc.grpc">>)
  PROVE  Hangs(p, parts)
<1> DEFINE protobuf == <<"domain", "api_contracts.protobuf">>
           package(f) == <<"proto_package", FileId(f)>>
           service(f, i) == <<"grpc_service", FileId(f), i>>
           services(f) == IF Parse(r.proto[f]).package THEN Parse(r.proto[f]).services ELSE <<>>
           schemaPart(f) == Part(protobuf, <<"schema", FileId(f)>>, "protobuf_schema", "depends_on")
           packagePart(f) == Part(<<"schema", FileId(f)>>, package(f), "proto_package", "imports")
           servicePart(f, i) == Part(package(f), service(f, i), "grpc_service", "serves")
           rpcPart(f, i, n) == Part(service(f, i), <<"rpc", FileId(f), i, n>>, "rpc", "serves")
           drawn(f) ==
             {schemaPart(f)}
             \cup If(Parse(r.proto[f]).package, {packagePart(f)})
             \cup (UNION {{servicePart(f, i),
                           Part(<<"domain", "rpc.grpc">>, service(f, i), "grpc_service", "serves")}
                          \cup {rpcPart(f, i, n) : n \in 1..services(f)[i]} : i \in DOMAIN services(f)})
           others ==
             If(ProtoFiles(r) # {},
                If(AnyNamed(r, {"buf.lock"}),
                   {Part(protobuf, <<"protobuf_lock", "buf.lock">>, "protobuf_dependency_lock", "depends_on")})
                \cup {Part(protobuf, <<"protobuf_plugin_config", FileId(f)>>, "protobuf_plugin_config", "depends_on") :
                        f \in PluginConfigs(r)}
                \cup {Part(protobuf, <<"generated_artifact", FileId(f)>>, "generated_artifact", "generates") :
                        f \in GeneratedArtifacts(r)})
<1>1. ProtoParts(r) = (UNION {drawn(f) : f \in ProtoFiles(r)}) \cup others
  BY Zenon DEF ProtoParts
<1>2. CASE p \in others
  <2>1. \E id, kind, edge : p = Part(protobuf, id, kind, edge)
    BY <1>2 DEF If
  <2>2. QED
    BY <2>1 DEF Hangs
<1>3. ASSUME NEW f \in ProtoFiles(r), p \in drawn(f)
      PROVE  Hangs(p, parts)
  <2>1. drawn(f) \subseteq parts
    <3> HIDE DEF drawn, others
    <3>1. QED
      BY <1>1
  <2>2. HasNode(parts, <<"schema", FileId(f)>>)
    BY <2>1, PartHasNode
  <2>3. ASSUME Parse(r.proto[f]).package PROVE HasNode(parts, package(f))
    <3>1. packagePart(f) \in parts
      BY <2>1, <2>3 DEF If
    <3>2. QED
      BY <3>1, PartHasNode
  <2>4. ASSUME NEW i \in DOMAIN services(f) PROVE Parse(r.proto[f]).package
    BY <2>4
  <2>5. ASSUME NEW i \in DOMAIN services(f) PROVE HasNode(parts, service(f, i))
    <3>1. servicePart(f, i) \in parts
      BY <2>1
    <3>2. QED
      BY <3>1, PartHasNode
  <2>6. CASE p = schemaPart(f)
    BY <2>6 DEF Hangs
  <2>7. CASE p \in If(Parse(r.proto[f]).package, {packagePart(f)})
    BY <2>2, <2>7 DEF If, Hangs
  <2>8. ASSUME NEW i \in DOMAIN services(f),
               \/ p = servicePart(f, i)
               \/ p = Part(<<"domain", "rpc.grpc">>, service(f, i), "grpc_service", "serves")
               \/ \E n \in 1..services(f)[i] : p = rpcPart(f, i, n)
        PROVE  Hangs(p, parts)
    BY <2>3, <2>4, <2>5, <2>8 DEF Hangs
  <2>9. \/ p = schemaPart(f)
        \/ p \in If(Parse(r.proto[f]).package, {packagePart(f)})
        \/ \E i \in DOMAIN services(f) :
             \/ p = servicePart(f, i)
             \/ p = Part(<<"domain", "rpc.grpc">>, service(f, i), "grpc_service", "serves")
             \/ \E n \in 1..services(f)[i] : p = rpcPart(f, i, n)
    <3> HIDE DEF package, service, services, schemaPart, packagePart
    <3>1. QED
      BY <1>3
  <2>10. QED
    BY <2>6, <2>7, <2>8, <2>9
<1>4. QED
  <2> HIDE DEF drawn, others
  <2>1. QED
    BY <1>1, <1>2, <1>3

LEMMA GraphOfDetected ==
  ASSUME NEW r, NEW selection \in {{}, {"auto"}}
  PROVE  Whole(DomainGraph(r, ComposeProfiles(r, selection), DomainGates(r, selection)))
<1> DEFINE profiles == ComposeProfiles(r, selection)
           gates == DomainGates(r, selection)
           domains == {p.id : p \in profiles}
           root == [nodes |-> {Node(Root, "repo")}, edges |-> {}]
           domainParts == {Part(Root, <<"domain", d>>, "domain", "has_domain") : d \in domains}
           protoParts == If(domains \cap {"api_contracts.protobuf", "rpc.grpc"} # {}, ProtoParts(r))
           fileParts == UNION {FileParts(f, domains) : f \in Visible(r)}
           findingParts ==
             {Part(<<"domain", n.domain>>, <<"domain_finding", n.id, n.about>>, "domain_finding", "has_gap") :
                n \in DomainFindings(r)}
           gateParts ==
             {Part(<<"domain", g.domain>>, <<"quality_gate", g.domain, g.name>>, "quality_gate",
                   "covered_by_gate") : g \in gates}
           parts == {root} \cup ModuleParts(r) \cup domainParts \cup protoParts \cup fileParts
                    \cup IssueSetParts(r) \cup findingParts \cup gateParts
<1>1. DomainGraph(r, profiles, gates) = Joined(parts)
  BY Zenon DEF DomainGraph
<1>2. HasNode(parts, Root)
  <2>1. root \in parts /\ Node(Root, "repo") \in root.nodes /\ Node(Root, "repo").id = Root
    BY DEF Node
  <2> HIDE DEF parts, root
  <2>2. QED
    BY <2>1 DEF HasNode
<1>3. ASSUME NEW d \in domains PROVE HasNode(parts, <<"domain", d>>)
  <2>1. Part(Root, <<"domain", d>>, "domain", "has_domain") \in parts
    OBVIOUS
  <2> HIDE DEF parts
  <2>2. QED
    BY <2>1, PartHasNode
<1>4. ASSUME NEW d PROVE d \in domains <=> SpokenFor(r, d)
  BY AllAreComposed DEF SpokenFor
<1>5. ASSUME NEW p \in parts, NEW from, NEW id, NEW kind, NEW edge,
             p = Part(from, id, kind, edge),
             from = Root \/ \E d \in domains : from = <<"domain", d>>
      PROVE  Hangs(p, parts)
  <2> HIDE DEF parts, domains
  <2>1. QED
    BY <1>2, <1>3, <1>5 DEF Hangs
<1>6. ASSUME NEW p \in ModuleParts(r) \cup domainParts PROVE Hangs(p, parts)
  <2>1. p \in parts
    OBVIOUS
  <2>2. \E id, kind, edge : p = Part(Root, id, kind, edge)
    BY DEF ModuleParts
  <2> HIDE DEF parts, domains
  <2>3. QED
    BY <1>5, <2>1, <2>2
<1>7. ASSUME NEW p \in protoParts PROVE Hangs(p, parts)
  <2>1. p \in ProtoParts(r) /\ ProtoParts(r) \subseteq parts
    BY <1>7 DEF If
  <2>2. ProtoFiles(r) # {}
    BY <2>1 DEF ProtoParts, If
  <2>3. {"api_contracts.protobuf", "rpc.grpc"} \subseteq domains
    BY <1>4, <2>2, ProtoSpeaks
  <2> HIDE DEF parts, domains, protoParts
  <2>4. QED
    BY <1>3, <2>1, <2>3, ProtoHangs
<1>8. ASSUME NEW p \in fileParts PROVE Hangs(p, parts)
  <2>1. PICK f \in Visible(r) : p \in FileParts(f, domains)
    OBVIOUS
  <2>2. \E from, id, kind, edge :
          /\ p = Part(from, id, kind, edge)
          /\ from = Root \/ \E d \in domains : from = <<"domain", d>>
    <3> HIDE DEF domains
    <3>1. QED
      BY <2>1 DEF FileParts, If
  <2>3. p \in parts
    OBVIOUS
  <2> HIDE DEF parts, domains, fileParts
  <2>4. QED
    BY <1>5, <2>2, <2>3
<1>9. ASSUME NEW p \in IssueSetParts(r) PROVE Hangs(p, parts)
  <2> DEFINE SetPart(s) == Part(Root, <<"issue_set", s.id>>, "issue_set", "maps_to_issue")
             Parents(s) == {Part(<<"issue_set", s.id>>, <<"tracker_issue", i>>, "tracker_issue",
                                 "maps_to_issue") : i \in s.parent}
             Proposals(s) == {Part(<<"issue_set", s.id>>, <<"issue_proposal", n>>, "issue_proposal",
                                   "maps_to_issue") : n \in s.proposals}
  <2>1. IssueSetParts(r) \subseteq parts
    OBVIOUS
  <2> HIDE DEF parts
  <2>2. PICK s \in r.sets : p \in {SetPart(s)} \cup Parents(s) \cup Proposals(s)
    BY <1>9 DEF IssueSetParts
  <2>3. SetPart(s) \in parts
    <3>1. IssueSetParts(r) = UNION {{SetPart(t)} \cup Parents(t) \cup Proposals(t) : t \in r.sets}
      BY Zenon DEF IssueSetParts
    <3> HIDE DEF SetPart, Parents, Proposals
    <3>2. QED
      BY <2>1, <3>1
  <2>4. HasNode(parts, <<"issue_set", s.id>>)
    BY <2>3, PartHasNode
  <2>5. QED
    BY <1>2, <2>2, <2>4 DEF Hangs
<1>10. ASSUME NEW p \in findingParts \cup gateParts PROVE Hangs(p, parts)
  <2>1. p \in parts
    OBVIOUS
  <2>2. CASE p \in findingParts
    <3>1. PICK n \in DomainFindings(r) :
            p = Part(<<"domain", n.domain>>, <<"domain_finding", n.id, n.about>>, "domain_finding", "has_gap")
      BY <2>2
    <3>2. n.domain \in domains
      BY <1>4, FindingsAreSpokenFor
    <3> HIDE DEF parts, domains
    <3>3. QED
      BY <1>5, <2>1, <3>1, <3>2
  <2>3. CASE p \in gateParts
    <3>1. PICK g \in gates :
            p = Part(<<"domain", g.domain>>, <<"quality_gate", g.domain, g.name>>, "quality_gate",
                     "covered_by_gate")
      BY <2>3
    <3>2. g.domain \in domains
      BY GatesAreComposed
    <3> HIDE DEF parts, domains
    <3>3. QED
      BY <1>5, <2>1, <3>1, <3>2
  <2>4. QED
    BY <1>10, <2>2, <2>3
<1>11. Hangs(root, parts)
  BY DEF Hangs
<1>12. \A p \in parts : Hangs(p, parts)
  <2>1. \A p \in parts : p = root \/ p \in ModuleParts(r) \cup domainParts \/ p \in protoParts \/ p \in fileParts
                         \/ p \in IssueSetParts(r) \/ p \in findingParts \cup gateParts
    OBVIOUS
  <2> HIDE DEF parts, root, domainParts, protoParts, fileParts, findingParts, gateParts
  <2>2. QED
    BY <1>6, <1>7, <1>8, <1>9, <1>10, <1>11, <2>1
<1>13. QED
  <2> HIDE DEF parts, profiles, gates
  <2>1. Whole(DomainGraph(r, profiles, gates))
    BY <1>1, <1>12, JoinedIsWhole
  <2>2. QED
    BY <2>1 DEF profiles, gates

\* The domains that are drawn are those whose templates are chosen, and no edge
\* of the graph hangs on a node that is drawn elsewhere or nowhere.
THEOREM DomainsAreDrawn == Spec => []GraphIsWhole
<1>1. GraphIsWhole
  <2>1. \A p \in ComposeProfiles(repo, settings.adomains) : MatchesSelection(p.id, settings.adomains)
    BY ComposedMatches
  <2>2. settings.adomains \in {{}, {"auto"}} /\ settings.qdomains = settings.adomains =>
          Whole(DomainGraph(repo, ComposeProfiles(repo, settings.adomains),
                            DomainGates(repo, settings.qdomains)))
    BY GraphOfDetected
  <2>3. QED
    BY <2>1, <2>2, Zenon DEF GraphIsWhole
<1>2. QED
  BY <1>1, PTL
=============================================================================
