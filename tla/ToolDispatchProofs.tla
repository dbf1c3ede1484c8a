------------------------- MODULE ToolDispatchProofs -------------------------
(***************************************************************************)
(* Theorems about ToolDispatch, for any programs and callers: what runs is *)
(* permitted by the policy and by what its own tool declared, and a        *)
(* wrapped call returns its own function's value.                          *)
(***************************************************************************)
EXTENDS ToolDispatch, TLAPS, NaturalsInduction, WellFoundedInduction

----------------------------------------------------------------------------
(* Argv patterns *)

\* One unfolding of the matching: where the words from token j + 1 on may start.
StartsHere(argv, pattern, later, j) ==
    IF j = Len(pattern) THEN {Len(argv)}
    ELSE {i \in 0 .. Len(argv) :
             IF pattern[j + 1] = Many THEN \E k \in i .. Len(argv) : k \in later
             ELSE i < Len(argv) /\ argv[i + 1] \in pattern[j + 1] /\ i + 1 \in later}

IsMatching(m, argv, pattern) ==
    m = [j \in 0 .. Len(pattern) |-> StartsHere(argv, pattern, m[j + 1], j)]

\* The cuts of the words from i on into pieces for the tokens after j.
CutsFrom(argv, pattern, i, j) ==
    {cut \in [j .. Len(pattern) -> 0 .. Len(argv)] :
        /\ cut[j] = i /\ cut[Len(pattern)] = Len(argv)
        /\ \A t \in j + 1 .. Len(pattern) :
              IF pattern[t] = Many THEN cut[t - 1] <= cut[t]
              ELSE cut[t] = cut[t - 1] + 1 /\ argv[cut[t]] \in pattern[t]}

ReadFrom(argv, pattern) ==
    [j \in 0 .. Len(pattern) |-> {i \in 0 .. Len(argv) : CutsFrom(argv, pattern, i, j) # {}}]

\* Reading is a solution of the equations of matching: a cut is a first piece
\* and a cut of the rest.
LEMMA ReadingIsMatching ==
    ASSUME NEW argv, NEW pattern, Len(argv) \in Nat, Len(pattern) \in Nat
    PROVE  IsMatching(ReadFrom(argv, pattern), argv, pattern)
<1> DEFINE n == Len(argv)
           l == Len(pattern)
           read == ReadFrom(argv, pattern)
<1>1. SUFFICES ASSUME NEW j \in 0 .. l, NEW i
               PROVE  i \in read[j] <=> i \in StartsHere(argv, pattern, read[j + 1], j)
  BY DEF IsMatching, ReadFrom
<1>2. CASE j = l
  <2>1. ASSUME i = n PROVE i \in read[j]
    <3>1. [t \in l .. l |-> n] \in CutsFrom(argv, pattern, i, j)
      BY <1>2, <2>1 DEF CutsFrom
    <3> QED  BY <3>1, <1>2, <2>1 DEF ReadFrom
  <2>2. ASSUME i \in read[j] PROVE i = n
    BY <1>2, <2>2 DEF ReadFrom, CutsFrom
  <2> QED  BY <1>2, <2>1, <2>2 DEF StartsHere
<1>3. CASE j < l
  <2>1. ASSUME i \in read[j] PROVE i \in StartsHere(argv, pattern, read[j + 1], j)
    <3>1. /\ i \in 0 .. n
          /\ \E cut \in CutsFrom(argv, pattern, i, j) : TRUE
      BY <2>1 DEF ReadFrom
    <3>2. PICK cut \in CutsFrom(argv, pattern, i, j) : TRUE
      BY <3>1
    <3> DEFINE rest == [t \in j + 1 .. l |-> cut[t]]
               k == cut[j + 1]
    <3>3. /\ cut \in [j .. l -> 0 .. n] /\ cut[j] = i /\ cut[l] = n
          /\ \A t \in j + 1 .. l :
                IF pattern[t] = Many THEN cut[t - 1] <= cut[t]
                ELSE cut[t] = cut[t - 1] + 1 /\ argv[cut[t]] \in pattern[t]
      BY <3>2 DEF CutsFrom
    <3>4. rest \in CutsFrom(argv, pattern, k, j + 1)
      <4>1. rest \in [j + 1 .. l -> 0 .. n] /\ rest[j + 1] = k /\ rest[l] = n
        BY <3>3, <1>3
      <4>2. ASSUME NEW t \in (j + 1) + 1 .. l
            PROVE  IF pattern[t] = Many THEN rest[t - 1] <= rest[t]
                   ELSE rest[t] = rest[t - 1] + 1 /\ argv[rest[t]] \in pattern[t]
        <5>1. rest[t - 1] = cut[t - 1] /\ rest[t] = cut[t] /\ t \in j + 1 .. l
          OBVIOUS
        <5> QED  BY <5>1, <3>3
      <4> QED  BY <4>1, <4>2 DEF CutsFrom
    <3>5. k \in read[j + 1] /\ k \in 0 .. n
      BY <3>3, <3>4, <1>3 DEF ReadFrom
    <3>6. IF pattern[j + 1] = Many THEN i <= k ELSE k = i + 1 /\ argv[k] \in pattern[j + 1]
      <4>1. j + 1 \in j + 1 .. l /\ (j + 1) - 1 = j
        BY <1>3
      <4> QED  BY <4>1, <3>3
    <3> HIDE DEF k, read
    <3> QED  BY <3>1, <3>5, <3>6, <1>3 DEF StartsHere
  <2>2. ASSUME i \in StartsHere(argv, pattern, read[j + 1], j) PROVE i \in read[j]
    <3>1. \E k \in read[j + 1] : k \in 0 .. n /\ IF pattern[j + 1] = Many THEN i <= k ELSE k = i + 1 /\ argv[k] \in pattern[j + 1]
      <4> HIDE DEF read
      <4> QED  BY <2>2, <1>3 DEF StartsHere
    <3>2. PICK k \in read[j + 1] : k \in 0 .. n /\ IF pattern[j + 1] = Many THEN i <= k ELSE k = i + 1 /\ argv[k] \in pattern[j + 1]
      BY <3>1
    <3>3. i \in 0 .. n
      BY <2>2, <1>3 DEF StartsHere
    <3>4. \E rest \in CutsFrom(argv, pattern, k, j + 1) : TRUE
      BY <3>2, <1>3 DEF ReadFrom
    <3>5. PICK rest \in CutsFrom(argv, pattern, k, j + 1) : TRUE
      BY <3>4
    <3>6. /\ rest \in [j + 1 .. l -> 0 .. n] /\ rest[j + 1] = k /\ rest[l] = n
          /\ \A t \in j + 2 .. l :
                IF pattern[t] = Many THEN rest[t - 1] <= rest[t]
                ELSE rest[t] = rest[t - 1] + 1 /\ argv[rest[t]] \in pattern[t]
      BY <3>5 DEF CutsFrom
    <3> DEFINE cut == [t \in j .. l |-> IF t = j THEN i ELSE rest[t]]
    <3>7. cut \in [j .. l -> 0 .. n] /\ cut[j] = i /\ cut[l] = n
      BY <3>3, <3>6, <1>3
    <3>8. ASSUME NEW t \in j + 1 .. l
          PROVE  IF pattern[t] = Many THEN cut[t - 1] <= cut[t]
                 ELSE cut[t] = cut[t - 1] + 1 /\ argv[cut[t]] \in pattern[t]
      <4>1. CASE t = j + 1
        <5>1. cut[t - 1] = i /\ cut[t] = k
          BY <4>1, <3>6, <1>3
        <5> QED  BY <4>1, <5>1, <3>2
      <4>2. CASE t \in j + 2 .. l
        <5>1. cut[t - 1] = rest[t - 1] /\ cut[t] = rest[t]
          BY <4>2
        <5> QED  BY <4>2, <5>1, <3>6
      <4> QED  BY <4>1, <4>2
    <3>9. cut \in CutsFrom(argv, pattern, i, j)
      BY <3>7, <3>8 DEF CutsFrom
    <3> QED  BY <3>3, <3>9 DEF ReadFrom
  <2> QED  BY <2>1, <2>2
<1> QED  BY <1>2, <1>3

\* The equations of matching have one solution: two would differ last somewhere.
LEMMA MatchingIsUnique ==
    ASSUME NEW argv, NEW pattern, Len(pattern) \in Nat,
           NEW m, NEW r, IsMatching(m, argv, pattern), IsMatching(r, argv, pattern)
    PROVE  m = r
<1> DEFINE l == Len(pattern)
           Differ == {d \in Nat : d <= l /\ m[l - d] # r[l - d]}
<1>1. /\ m = [j \in 0 .. l |-> StartsHere(argv, pattern, m[j + 1], j)]
      /\ r = [j \in 0 .. l |-> StartsHere(argv, pattern, r[j + 1], j)]
  BY DEF IsMatching
<1>2. SUFFICES ASSUME m # r PROVE FALSE
  OBVIOUS
<1>3. Differ # {}
  <2>1. PICK j \in 0 .. l : m[j] # r[j]
    BY <1>1, <1>2
  <2>2. l - j \in Differ
    BY <2>1
  <2> QED  BY <2>2
<1>4. PICK d \in Differ : \A e \in Differ : d <= e
  <2>1. Differ \subseteq Nat
    OBVIOUS
  <2> HIDE DEF Differ
  <2>2. \E d \in Differ : \A e \in Differ : ~(<<e, d>> \in OpToRel(<, Nat))
    BY <1>3, <2>1, NatLessThanWellFounded, WFMin
  <2>3. \A e, d \in Nat : ~(<<e, d>> \in OpToRel(<, Nat)) => d <= e
    BY DEF OpToRel
  <2> QED  BY <2>1, <2>2, <2>3
<1>5. l - d \in 0 .. l /\ m[l - d] # r[l - d]
  OBVIOUS
<1>6. CASE d = 0
  <2>1. m[l] = StartsHere(argv, pattern, m[l + 1], l) /\ r[l] = StartsHere(argv, pattern, r[l + 1], l)
    <3>1. l \in 0 .. l
      OBVIOUS
    <3> HIDE DEF l
    <3> QED  BY <1>1, <3>1
  <2>2. m[l] = r[l]
    BY <2>1 DEF StartsHere
  <2> QED  BY <1>5, <1>6, <2>2
<1>7. CASE d > 0
  <2>1. d - 1 \notin Differ
    BY <1>4, <1>7
  <2>2. m[l - (d - 1)] = r[l - (d - 1)]
    BY <1>7, <2>1
  <2>3. l - (d - 1) = (l - d) + 1
    OBVIOUS
  <2>4. m[(l - d) + 1] = r[(l - d) + 1]
    BY <2>2, <2>3
  <2>5. /\ m[l - d] = StartsHere(argv, pattern, m[(l - d) + 1], l - d)
        /\ r[l - d] = StartsHere(argv, pattern, r[(l - d) + 1], l - d)
    BY <1>1, <1>5
  <2> QED  BY <1>5, <2>4, <2>5
<1> QED  BY <1>6, <1>7

\* An argv pattern matches what a reader takes it to match: the words that can
\* be cut into consecutive pieces, one for each of its tokens. The search of
\* _argv_pattern_matches misses no way to place a **.
THEOREM PatternsAreRead ==
    ASSUME NEW argv, NEW pattern, IsTuple(argv), IsTuple(pattern)
    PROVE  ArgvPatternMatches(argv, pattern) <=> ReadsAs(argv, pattern)
<1> DEFINE read == ReadFrom(argv, pattern)
           matches == CHOOSE m : IsMatching(m, argv, pattern)
<1>0. Len(argv) \in Nat /\ Len(pattern) \in Nat
  BY DEF IsTuple
<1>1. ArgvPatternMatches(argv, pattern) <=> 0 \in matches[0]
  BY DEF ArgvPatternMatches, IsMatching, StartsHere
<1>2. IsMatching(read, argv, pattern)
  BY ReadingIsMatching
<1>3. IsMatching(matches, argv, pattern)
  BY <1>2
<1>4. matches = read
  BY <1>2, <1>3, MatchingIsUnique
<1>5. 0 \in read[0] <=> CutsFrom(argv, pattern, 0, 0) # {}
  BY DEF ReadFrom
<1>6. CutsFrom(argv, pattern, 0, 0) # {} <=> ReadsAs(argv, pattern)
  <2> DEFINE Fits(cut) ==
               \A t \in 1 .. Len(pattern) :
                  IF pattern[t] = Many THEN cut[t - 1] <= cut[t]
                  ELSE cut[t] = cut[t - 1] + 1 /\ argv[cut[t]] \in pattern[t]
  <2>1. CutsFrom(argv, pattern, 0, 0) =
          {cut \in [0 .. Len(pattern) -> 0 .. Len(argv)] :
             cut[0] = 0 /\ cut[Len(pattern)] = Len(argv) /\ Fits(cut)}
    <3>1. 0 + 1 .. Len(pattern) = 1 .. Len(pattern)
      BY <1>0
    <3> QED
      BY ONLY <3>1, Zenon DEF CutsFrom
  <2>2. ReadsAs(argv, pattern) <=>
          \E cut \in [0 .. Len(pattern) -> 0 .. Len(argv)] :
             cut[0] = 0 /\ cut[Len(pattern)] = Len(argv) /\ Fits(cut)
    BY Zenon DEF ReadsAs
  <2> HIDE DEF Fits
  <2> QED
    BY <2>1, <2>2, Zenon
<1> QED  BY <1>1, <1>4, <1>5, <1>6

----------------------------------------------------------------------------
(* The policy *)

LEMMA MatchingIsConcern ==
    ASSUME NEW p, IsProgram(p), NEW rule \in p.rules, NEW call,
           call \in p.direct \/ call.argv = <<>>
    PROVE  RuleMatches(rule, call) <=> Concerns(rule, call)
<1>1. /\ \A glob \in rule.paths : Absent \notin glob
      /\ \A glob \in rule.commands : Absent \notin glob
  BY DEF IsProgram, GlobsMatchText
<1>2. (rule.paths # {} => call.path # Absent /\ \E glob \in rule.paths : call.path \in glob)
      <=> (rule.paths = {} \/ call.path \in UNION rule.paths)
  BY <1>1
<1>3. (rule.commands # {} =>
          CommandText(call) # Absent /\ \E glob \in rule.commands : CommandText(call) \in glob)
      <=> (rule.commands = {} \/ CommandText(call) \in UNION rule.commands)
  BY <1>1
<1>4. (rule.argvs # {} =>
          call.argv # <<>> /\ \E pattern \in rule.argvs : ArgvPatternMatches(call.argv, pattern))
      <=> (rule.argvs = {} \/ (call.argv # <<>> /\ \E pattern \in rule.argvs : ReadsAs(call.argv, pattern)))
  BY PatternsAreRead DEF IsProgram
<1> QED  BY <1>2, <1>3, <1>4 DEF RuleMatches, Concerns

LEMMA HooksAreRead ==
    ASSUME NEW p, IsProgram(p), NEW call
    PROVE  Hooked(p.hooks, call) <=>
               \E hook \in p.hooks : hook.tool \in {AnyTool, call.tool}
                                     /\ (hook.path = Absent \/ call.path \in hook.path)
<1>1. \A hook \in p.hooks : hook.path # Absent => Absent \notin hook.path
  BY DEF IsProgram, GlobsMatchText
<1> QED  BY <1>1 DEF Hooked, HookMatches

\* What PermissionEngine.evaluate and the hooks let run, a reader of the
\* policy would let run: a deny wins over all, an ask over any allow, and
\* hooks only ever take away.
LEMMA DecidingIsReading ==
    ASSUME NEW p, IsProgram(p), NEW default \in Effects, NEW call,
           call \in p.direct \/ call.argv = <<>>,
           Decide(p.rules, default, call) # "deny", ~Hooked(p.hooks, call)
    PROVE  /\ ~Forbidden(p.rules, p.hooks, default, call)
           /\ Decide(p.rules, default, call) # "ask" => ~NeedsConsent(p.rules, default, call)
<1> DEFINE effects == MatchingEffects(p.rules, call)
<1>1. \A effect : effect \in effects <=> \E rule \in p.rules : rule.effect = effect /\ Concerns(rule, call)
  <2>1. \A effect : effect \in effects <=> \E rule \in p.rules : rule.effect = effect /\ RuleMatches(rule, call)
    BY DEF MatchingEffects
  <2> QED  BY <2>1, MatchingIsConcern
<1>2. Decide(p.rules, default, call) =
          IF "deny" \in effects \/ default = "deny" THEN "deny"
          ELSE IF "ask" \in effects THEN "ask"
          ELSE IF "allow" \in effects THEN "allow"
          ELSE default
  BY DEF Decide
<1> HIDE DEF effects
<1>3. "deny" \notin effects /\ default # "deny"
  BY <1>2
<1>4. ~Forbidden(p.rules, p.hooks, default, call)
  BY <1>1, <1>3, HooksAreRead DEF Forbidden
<1>5. ASSUME Decide(p.rules, default, call) # "ask" PROVE ~NeedsConsent(p.rules, default, call)
  <2>1. "ask" \notin effects /\ (default = "ask" => "allow" \in effects)
    BY <1>2, <1>3, <1>5
  <2> QED  BY <1>1, <2>1 DEF NeedsConsent
<1> QED  BY <1>4, <1>5

----------------------------------------------------------------------------
(* Registered tools *)

RegistryFits(reg) ==
    /\ \A w \in reg.handlers : ~w.async
    /\ \A w \in reg.asyncs : w.async
    /\ \A v, w \in reg.handlers : v.tool = w.tool => v = w
    /\ \A v, w \in reg.asyncs : v.tool = w.tool => v = w
    /\ \A s, t \in reg.specs : s.tool = t.tool => s = t

\* Every handler has its spec.
SpecsFit(reg) == \A w \in reg.handlers \union reg.asyncs : SpecOf(w) \in reg.specs

\* Only functions that share the session are registered in it.
SharedOnly(reg) == \A w \in reg.handlers \union reg.asyncs : w.shared

LEMMA NothingFits ==
    /\ RegistryFits(NothingRegistered) /\ SpecsFit(NothingRegistered)
    /\ SharedOnly(NothingRegistered)
BY DEF NothingRegistered, RegistryFits, SpecsFit, SharedOnly

LEMMA RegisteringFits ==
    ASSUME NEW p, NEW reg \in RegistriesIn(p), RegistryFits(reg), NEW w \in p.wrappers,
           IsProgram(p)
    PROVE  LET new == Registered(reg, w) IN
           /\ new \in RegistriesIn(p)
           /\ RegistryFits(new)
           /\ reg.handlers \subseteq new.handlers /\ reg.asyncs \subseteq new.asyncs
           /\ SpecsFit(reg) /\ (Taken(reg, w) \/ ~Conflicts(reg, w)) => SpecsFit(new)
           /\ ~Taken(reg, w) => (IF w.async THEN w \in new.asyncs ELSE w \in new.handlers)
<1> DEFINE new == Registered(reg, w)
<1>1. w \in Wrapper /\ SpecOf(w) \in [tool : STRING, effect : Effects, async : BOOLEAN]
      /\ SpecOf(w).tool = w.tool
  BY DEF IsProgram, Wrapper, SpecOf
<1>2. CASE Taken(reg, w)
  BY <1>2 DEF Registered
<1>3. CASE ~Taken(reg, w)
  <2>1. /\ new.handlers = reg.handlers \union (IF w.async THEN {} ELSE {w})
        /\ new.asyncs = reg.asyncs \union (IF w.async THEN {w} ELSE {})
        /\ new.specs = (IF \E spec \in reg.specs : spec.tool = w.tool THEN reg.specs
                        ELSE reg.specs \union {SpecOf(w)})
        /\ new = [handlers |-> new.handlers, asyncs |-> new.asyncs, specs |-> new.specs]
    BY <1>3 DEF Registered
  <2> HIDE DEF new
  <2>2. new \in RegistriesIn(p)
    BY <1>1, <2>1 DEF RegistriesIn
  <2>3. w.async => \A v \in reg.asyncs : v.tool = w.tool => v = w
    BY <1>3 DEF Taken
  <2>4. ~w.async => \A v \in reg.handlers : v.tool = w.tool => v = w
    BY <1>3 DEF Taken
  <2>5. RegistryFits(new)
    <3>1. (\A v \in new.handlers : ~v.async) /\ (\A v \in new.asyncs : v.async)
      BY <2>1 DEF RegistryFits
    <3>2. \A u, v \in new.handlers : u.tool = v.tool => u = v
      BY <2>1, <2>4 DEF RegistryFits
    <3>3. \A u, v \in new.asyncs : u.tool = v.tool => u = v
      BY <2>1, <2>3 DEF RegistryFits
    <3>4. \A s, t \in new.specs : s.tool = t.tool => s = t
      BY <1>1, <2>1 DEF RegistryFits
    <3> QED  BY <3>1, <3>2, <3>3, <3>4 DEF RegistryFits
  <2>6. SpecsFit(reg) /\ ~Conflicts(reg, w) => SpecsFit(new)
    <3> SUFFICES ASSUME SpecsFit(reg), ~Conflicts(reg, w) PROVE SpecsFit(new)
      OBVIOUS
    <3>1. SpecOf(w) \in new.specs
      BY <2>1 DEF Conflicts
    <3> QED  BY <2>1, <3>1 DEF SpecsFit
  <2>7. reg.handlers \subseteq new.handlers /\ reg.asyncs \subseteq new.asyncs
        /\ (IF w.async THEN w \in new.asyncs ELSE w \in new.handlers)
    BY <2>1
  <2> QED  BY <1>3, <2>2, <2>5, <2>6, <2>7 DEF new
<1> QED  BY <1>2, <1>3

\* The handler that runs is the only one, under the effect it declared.
LEMMA HandlersFit ==
    ASSUME NEW reg, RegistryFits(reg), NEW tool, NEW async, NEW w \in HandlerOf(reg, tool, async)
    PROVE  /\ w.tool = tool /\ HandlerOf(reg, tool, async) = {w}
           /\ w \in reg.handlers \union reg.asyncs
           /\ SpecsFit(reg) => Default(reg, tool) = w.effect
<1>1. /\ w.tool = tool /\ HandlerOf(reg, tool, async) = {w}
      /\ w \in reg.handlers \union reg.asyncs
  BY DEF HandlerOf, RegistryFits
<1>2. ASSUME SpecsFit(reg) PROVE Default(reg, tool) = w.effect
  <2>1. SpecOf(w) \in reg.specs /\ SpecOf(w).tool = tool /\ SpecOf(w).effect = w.effect
    BY <1>1, <1>2 DEF SpecsFit, SpecOf
  <2>2. \A spec \in reg.specs : spec.tool = tool => spec = SpecOf(w)
    BY <2>1 DEF RegistryFits
  <2>3. (CHOOSE spec \in reg.specs : spec.tool = tool) = SpecOf(w)
    BY <2>1, <2>2
  <2> QED  BY <2>1, <2>3 DEF Default
<1> QED  BY <1>1, <1>2

LEMMA DefaultType ==
    ASSUME NEW p, NEW reg \in RegistriesIn(p), NEW tool
    PROVE  Default(reg, tool) \in Effects
<1>1. CASE \E spec \in reg.specs : spec.tool = tool
  BY <1>1 DEF Default, RegistriesIn
<1>2. CASE tool \in DOMAIN BuiltinDefault /\ ~\E spec \in reg.specs : spec.tool = tool
  <2>1. BuiltinDefault[tool] \in Effects
    BY <1>2 DEF BuiltinDefault, Effects
  <2> QED  BY <1>2, <2>1 DEF Default
<1> QED  BY <1>1, <1>2 DEF Default, Effects
----------------------------------------------------------------------------
(* The inductive invariant *)

InTool == {"running", "stored"}

\* What a caller's call is: made by a wrapper, or directly; and what its
\* tool may rely on once it runs.
CallFits(m, p, reg, hlf, mxd) ==
    /\ m.wrapper = {} \/ \E w \in p.wrappers : m.wrapper = {w}
    /\ m.step # "idle" => m.call \in p.direct \/ m.call.argv = <<>>
    /\ m.wrapper # {} \/ m.fresh => \E w \in p.wrappers : m.call = CallOf(w)
    /\ m.step = "entering" /\ m.fresh => m.wrapper # {}
    /\ m.step = "entering" => \A w \in m.wrapper :
          /\ m.call = CallOf(w)
          /\ m.fresh => ~Taken(NothingRegistered, w)
          /\ ~m.fresh => /\ IF w.async THEN w \in reg.asyncs ELSE w \in reg.handlers
                         /\ w.async => p.async
    /\ m.step \in InTool =>
          /\ ~Forbidden(p.rules, p.hooks, m.default, m.call)
          /\ NeedsConsent(p.rules, m.default, m.call) => m.agreed
          /\ m.fresh /\ m.wrapper = {} => m.agreed
          /\ ~hlf => \A w \in m.runs : m.default = w.effect
          /\ m.wrapper # {} => m.runs = m.wrapper
    /\ m.step = "stored" => \E w \in p.wrappers : m.runs = {w} /\ ~w.async
    /\ \A w \in m.wrapper : m.fresh = ~w.shared
    /\ m.step \in InTool /\ ~m.fresh => \A w \in m.runs : w.shared
    /\ m.outcome \in {"value", "missing"} /\ ~mxd => m.outcome = "value" /\ m.value = m.serial

\* Calls of one session have different numbers.
NumbersFit ==
    /\ \A c \in Caller : caller[c].step \in InTool /\ ~caller[c].fresh => caller[c].number <= sequence
    /\ \A c, d \in Caller :
          /\ c # d
          /\ caller[c].step \in InTool /\ ~caller[c].fresh
          /\ caller[d].step \in InTool /\ ~caller[d].fresh
          => caller[c].number # caller[d].number

Entry(c, w) == [wrapper |-> w, number |-> caller[c].number, value |-> caller[c].serial]

Holds(c, w) == caller[c].step = "stored" /\ caller[c].wrapper = {w}

\* A value that is stored waits for the caller of its wrapper.
ResultsFit ==
    ~mixed =>
        /\ \A c \in Caller, w \in program.wrappers : Holds(c, w) => Slot(c, w) = {Entry(c, w)}
        /\ \A c, d \in Caller, w \in program.wrappers :
              c # d /\ Holds(c, w) /\ Holds(d, w) => caller[c].number # caller[d].number

DInv ==
    /\ DispatchTypes
    /\ program \in Programs
    /\ RegistryFits(registry) /\ SharedOnly(registry)
    /\ ~half => SpecsFit(registry)
    /\ \A c \in Caller : CallFits(caller[c], program, registry, half, mixed)
    /\ NumbersFit
    /\ ResultsFit

LEMMA NoCallFits ==
    ASSUME NEW p, NEW reg, NEW hlf, NEW mxd
    PROVE  CallFits(NoCall, p, reg, hlf, mxd) /\ NoCall \in CallsIn(p)
<1>1. NoCall \in CallsIn(p)
  BY DEF NoCall, CallsIn, CallerSteps, CallerOutcomes, Effects
<1>2. NoCall.step = "idle" /\ NoCall.wrapper = {} /\ NoCall.fresh = FALSE /\ NoCall.outcome = "none"
  BY DEF NoCall
<1> QED  BY <1>1, <1>2 DEF CallFits, InTool

LEMMA DispatchInitHolds == DispatchInit => DInv
<1> SUFFICES ASSUME DispatchInit PROVE DInv
  OBVIOUS
<1>1. /\ program \in Programs /\ IsProgram(program) /\ registry = NothingRegistered
      /\ caller = [c \in Caller |-> NoCall] /\ NoCall.step = "idle" /\ results = {}
      /\ sequence = 0 /\ calls = 0 /\ program.calls \in Nat
      /\ failed = FALSE /\ half = FALSE /\ mixed = FALSE
  BY DispatchAssumption DEF DispatchInit, IsProgram, NoCall
<1>2. NothingRegistered \in RegistriesIn(program)
  BY DEF NothingRegistered, RegistriesIn
<1>3. caller \in [Caller -> CallsIn(program)]
  BY <1>1, NoCallFits
<1>4. DispatchTypes
  <2>1. sequence \in Nat /\ calls \in 0 .. program.calls
    BY <1>1
  <2>2. failed \in BOOLEAN /\ half \in BOOLEAN /\ mixed \in BOOLEAN
    BY <1>1
  <2>3. results \subseteq [wrapper : program.wrappers, number : Nat, value : Nat]
    BY <1>1
  <2> QED  BY <1>1, <1>2, <1>3, <2>1, <2>2, <2>3 DEF DispatchTypes
<1>5. \A c \in Caller : CallFits(caller[c], program, registry, half, mixed)
  BY <1>1, NoCallFits
<1>6. NumbersFit /\ ResultsFit
  BY <1>1 DEF NumbersFit, ResultsFit, InTool, Holds
<1> QED  BY <1>1, <1>4, <1>5, <1>6, NothingFits DEF DInv

\* An actor that takes no part keeps what it has.
LEMMA OtherCallsKeep ==
    ASSUME NEW m, NEW p, NEW reg, NEW hlf, NEW mxd, CallFits(m, p, reg, hlf, mxd),
           NEW reg2, reg.handlers \subseteq reg2.handlers, reg.asyncs \subseteq reg2.asyncs,
           NEW hlf2, hlf => hlf2, NEW mxd2, mxd => mxd2
    PROVE  CallFits(m, p, reg2, hlf2, mxd2)
BY DEF CallFits

\* A call that begins or ends.
LEMMA OutsideSteps ==
    ASSUME DInv, NEW c \in Caller, NEW m \in CallsIn(program), caller' = [caller EXCEPT ![c] = m],
           m.step \notin InTool,
           UNCHANGED <<program, sequence, results, mixed>>,
           failed' \in BOOLEAN, half' \in BOOLEAN, calls' \in 0 .. program.calls,
           registry' \in RegistriesIn(program), RegistryFits(registry'), SharedOnly(registry'),
           registry.handlers \subseteq registry'.handlers,
           registry.asyncs \subseteq registry'.asyncs,
           half => half', ~half' => SpecsFit(registry'),
           CallFits(m, program, registry', half', mixed)
    PROVE  DInv'
<1>1. /\ caller \in [Caller -> CallsIn(program)] /\ caller' \in [Caller -> CallsIn(program)]
      /\ caller'[c] = m /\ \A d \in Caller \ {c} : caller'[d] = caller[d]
  BY DEF DInv, DispatchTypes
<1>2. DispatchTypes'
  BY <1>1 DEF DInv, DispatchTypes
<1>3. \A d \in Caller : CallFits(caller[d], program, registry, half, mixed)'
  <2>1. \A d \in Caller \ {c} : CallFits(caller[d], program, registry', half', mixed)
    BY OtherCallsKeep DEF DInv
  <2> QED  BY <1>1, <2>1
<1>4. NumbersFit'
  BY <1>1 DEF DInv, NumbersFit
<1>5. ResultsFit'
  <2>1. \A d \in Caller, w \in program.wrappers : Holds(d, w)' =>
            d # c /\ Holds(d, w) /\ Slot(d, w)' = Slot(d, w) /\ Entry(d, w)' = Entry(d, w)
            /\ caller'[d].number = caller[d].number
    BY <1>1 DEF Holds, Slot, Entry, InTool
  <2> QED  BY <1>1, <2>1 DEF DInv, ResultsFit
<1> QED  BY <1>2, <1>3, <1>4, <1>5 DEF DInv

\* The same, if nothing else happens.
LEMMA LeavingSteps ==
    ASSUME DInv, NEW c \in Caller, NEW m \in CallsIn(program), caller' = [caller EXCEPT ![c] = m],
           m.step \notin InTool,
           UNCHANGED <<program, registry, sequence, results, calls, half, mixed>>,
           failed' \in BOOLEAN,
           CallFits(m, program, registry, half, mixed)
    PROVE  DInv'
BY OutsideSteps DEF DInv, DispatchTypes

LEMMA FinishingFits ==
    ASSUME NEW p, NEW m \in CallsIn(p), NEW reg, NEW hlf, NEW mxd, CallFits(m, p, reg, hlf, mxd),
           m.step # "idle", NEW outcome \in CallerOutcomes \ {"value", "missing"}
    PROVE  /\ [m EXCEPT !.step = "returned", !.outcome = outcome] \in CallsIn(p)
           /\ CallFits([m EXCEPT !.step = "returned", !.outcome = outcome], p, reg, hlf, mxd)
<1> DEFINE u == [m EXCEPT !.step = "returned", !.outcome = outcome]
<1>1. u \in CallsIn(p)
  BY DEF CallsIn, CallerSteps
<1>2. /\ u.step = "returned" /\ u.outcome = outcome /\ u.wrapper = m.wrapper /\ u.call = m.call
      /\ u.fresh = m.fresh
  BY DEF CallsIn
<1> HIDE DEF u
<1>3. CallFits(u, p, reg, hlf, mxd)
  BY <1>2 DEF CallFits, InTool
<1> QED  BY <1>1, <1>3 DEF u

LEMMA FinishSteps ==
    ASSUME DInv, NEW c \in Caller, caller[c].step # "idle",
           NEW outcome \in CallerOutcomes \ {"value", "missing"}, Finish(c, outcome),
           UNCHANGED <<program, registry, sequence, results, calls, half, mixed>>,
           failed' \in BOOLEAN
    PROVE  DInv'
<1> DEFINE u == [caller[c] EXCEPT !.step = "returned", !.outcome = outcome]
<1>1. caller[c] \in CallsIn(program) /\ CallFits(caller[c], program, registry, half, mixed)
  BY DEF DInv, DispatchTypes
<1>2. u \in CallsIn(program) /\ CallFits(u, program, registry, half, mixed)
  BY <1>1, FinishingFits
<1>3. u.step = "returned" /\ caller' = [caller EXCEPT ![c] = u]
  BY <1>1 DEF Finish, CallsIn
<1> HIDE DEF u
<1> QED  BY <1>2, <1>3, LeavingSteps DEF InTool
----------------------------------------------------------------------------
(* Calls *)

LEMMA CallWrapperStep ==
    ASSUME DInv, NEW c \in Caller, NEW w \in program.wrappers, CallWrapper(c, w) PROVE DInv'
<1> DEFINE base == IF w.shared THEN registry ELSE NothingRegistered
<1>1. PICK json \in BOOLEAN : StartCall(c, {w}, CallOf(w), ~w.shared, ~json \/ ~Accepts(base, w))
  BY DEF CallWrapper
<1> DEFINE refused == ~json \/ ~Accepts(base, w)
           m == [NoCall EXCEPT !.step = IF refused THEN "returned" ELSE "entering",
                               !.outcome = IF refused THEN "refused" ELSE "none",
                               !.wrapper = {w}, !.call = CallOf(w), !.fresh = ~w.shared,
                               !.serial = calls + 1]
<1>2. /\ caller' = [caller EXCEPT ![c] = m] /\ calls < program.calls /\ calls' = calls + 1
      /\ registry' = (IF w.shared THEN Registered(registry, w) ELSE registry)
      /\ half' = (half \/ (w.shared /\ ~Taken(registry, w) /\ Conflicts(registry, w)))
      /\ UNCHANGED <<program, failed, sequence, results, mixed>>
  BY <1>1 DEF StartCall, CallWrapper
<1>3. /\ calls \in Nat /\ program.calls \in Nat /\ calls' \in 0 .. program.calls /\ calls + 1 \in Nat
      /\ IsProgram(program) /\ registry \in RegistriesIn(program) /\ RegistryFits(registry)
      /\ failed \in BOOLEAN /\ half \in BOOLEAN
  BY <1>2 DEF DInv, DispatchTypes, IsProgram
<1>4. w.shared \in BOOLEAN /\ w.async \in BOOLEAN /\ (w.async /\ w.shared => program.async)
  BY <1>3 DEF IsProgram, Wrapper
<1>5. /\ Registered(registry, w) \in RegistriesIn(program) /\ RegistryFits(Registered(registry, w))
      /\ registry.handlers \subseteq Registered(registry, w).handlers
      /\ registry.asyncs \subseteq Registered(registry, w).asyncs
      /\ SpecsFit(registry) /\ (Taken(registry, w) \/ ~Conflicts(registry, w)) =>
            SpecsFit(Registered(registry, w))
      /\ ~Taken(registry, w) => (IF w.async THEN w \in Registered(registry, w).asyncs
                                  ELSE w \in Registered(registry, w).handlers)
  BY <1>3, RegisteringFits
<1>6. /\ m.wrapper = {w} /\ m.call = CallOf(w) /\ m.fresh = ~w.shared
      /\ m.step = (IF refused THEN "returned" ELSE "entering")
      /\ m.outcome = (IF refused THEN "refused" ELSE "none")
  BY DEF NoCall
<1>7. m \in CallsIn(program)
  <2>1. /\ {w} \in SUBSET program.wrappers
        /\ CallOf(w) \in {Absent} \union program.direct \union {CallOf(v) : v \in program.wrappers}
        /\ (IF refused THEN "returned" ELSE "entering") \in CallerSteps
        /\ (IF refused THEN "refused" ELSE "none") \in CallerOutcomes
        /\ (~w.shared) \in BOOLEAN
    BY <1>4 DEF CallerSteps, CallerOutcomes
  <2> HIDE DEF refused
  <2> QED  BY <1>3, <2>1, NoCallFits DEF CallsIn
<1>8. CallOf(w).argv = <<>>
  BY DEF CallOf
<1>9. refused \/ ~Taken(base, w)
  BY DEF Accepts
<1> HIDE DEF m, refused
<1>10. CallFits(m, program, registry', half', mixed)
  BY <1>2, <1>4, <1>5, <1>6, <1>8, <1>9 DEF CallFits, InTool
<1>11. ~half' => SpecsFit(registry')
  BY <1>2, <1>5 DEF DInv
<1>12. half' \in BOOLEAN /\ (half => half')
  BY <1>2, <1>3, <1>4
<1>13. /\ registry' \in RegistriesIn(program) /\ RegistryFits(registry') /\ SharedOnly(registry')
       /\ registry.handlers \subseteq registry'.handlers
       /\ registry.asyncs \subseteq registry'.asyncs
  <2>1. w.shared => SharedOnly(Registered(registry, w))
    BY DEF DInv, SharedOnly, Registered
  <2> QED  BY <1>2, <1>3, <1>5, <2>1 DEF DInv
<1>14. m.step \notin InTool
  BY <1>6 DEF InTool
<1>15. failed' \in BOOLEAN
  BY <1>2, <1>3
<1> QED
  BY <1>2, <1>3, <1>7, <1>10, <1>11, <1>12, <1>13, <1>14, <1>15, OutsideSteps

LEMMA CallDirectStep ==
    ASSUME DInv, NEW c \in Caller, NEW call \in program.direct, CallDirect(c, call) PROVE DInv'
<1> DEFINE m == [NoCall EXCEPT !.step = "entering", !.outcome = "none", !.wrapper = {},
                               !.call = call, !.fresh = FALSE, !.serial = calls + 1]
<1>1. /\ caller' = [caller EXCEPT ![c] = m] /\ calls < program.calls /\ calls' = calls + 1
      /\ UNCHANGED <<program, registry, failed, sequence, results, half, mixed>>
  BY DEF CallDirect, StartCall
<1>2. /\ calls \in Nat /\ calls' \in 0 .. program.calls /\ calls + 1 \in Nat
      /\ registry \in RegistriesIn(program) /\ RegistryFits(registry)
      /\ failed \in BOOLEAN /\ half \in BOOLEAN
  BY <1>1 DEF DInv, DispatchTypes, IsProgram
<1>3. m \in CallsIn(program)
  BY <1>2, NoCallFits DEF CallsIn, CallerSteps, CallerOutcomes
<1>4. /\ m.wrapper = {} /\ m.call = call /\ m.fresh = FALSE /\ m.step = "entering" /\ m.outcome = "none"
  BY DEF NoCall
<1> HIDE DEF m
<1>5. CallFits(m, program, registry, half, mixed)
  BY <1>4 DEF CallFits, InTool
<1>6. m.step \notin InTool
  BY <1>4 DEF InTool
<1> QED  BY <1>1, <1>2, <1>3, <1>5, <1>6, OutsideSteps DEF DInv

LEMMA EnterRefusedStep ==
    ASSUME DInv, NEW c \in Caller, EnterRefused(c) PROVE DInv'
BY FinishSteps DEF EnterRefused, MayEnter, CallerOutcomes, DInv, DispatchTypes

LEMMA CancelEnteringStep ==
    ASSUME DInv, NEW c \in Caller, CancelEntering(c) PROVE DInv'
BY FinishSteps DEF CancelEntering, CallerOutcomes, DInv, DispatchTypes

LEMMA BuiltinEndsStep ==
    ASSUME DInv, NEW c \in Caller, NEW outcome \in {"ok", "failed", "raised"}, BuiltinEnds(c, outcome)
    PROVE  DInv'
<1>1. outcome \in CallerOutcomes \ {"value", "missing"}
  BY DEF CallerOutcomes
<1>2. failed' \in BOOLEAN
  BY DEF BuiltinEnds, DInv, DispatchTypes
<1>3. /\ caller[c].step # "idle" /\ Finish(c, outcome)
      /\ UNCHANGED <<program, registry, sequence, results, calls, half, mixed>>
  BY DEF BuiltinEnds
<1> QED  BY <1>1, <1>2, <1>3, FinishSteps

LEMMA FunctionFailsStep ==
    ASSUME DInv, NEW c \in Caller, NEW w, FunctionFails(c, w) PROVE DInv'
BY FinishSteps DEF FunctionFails, Runs, CallerOutcomes, DInv, DispatchTypes

LEMMA ResetStep ==
    ASSUME DInv, NEW c \in Caller, LeavePending(c) \/ GetResult(c) PROVE DInv'
<1>1. /\ caller' = [caller EXCEPT ![c] = NoCall] /\ failed' \in BOOLEAN
      /\ UNCHANGED <<program, registry, sequence, results, calls, half, mixed>>
  BY DEF LeavePending, GetResult, DInv, DispatchTypes
<1>2. NoCall.step \notin InTool
  BY DEF NoCall, InTool
<1> QED  BY <1>1, <1>2, NoCallFits, LeavingSteps
\* A call that goes on to its tool, with a number of its own.
LEMMA EnteringSteps ==
    ASSUME DInv, NEW c \in Caller, NEW m \in CallsIn(program), caller' = [caller EXCEPT ![c] = m],
           UNCHANGED <<program, registry, failed, results, calls, half, mixed>>,
           m.step # "stored",
           sequence' \in Nat, sequence <= sequence',
           m.step \in InTool /\ ~m.fresh => m.number = sequence' /\ sequence < sequence',
           CallFits(m, program, registry, half, mixed)
    PROVE  DInv'
<1>1. /\ caller \in [Caller -> CallsIn(program)] /\ caller' \in [Caller -> CallsIn(program)]
      /\ caller'[c] = m /\ \A d \in Caller \ {c} : caller'[d] = caller[d]
      /\ sequence \in Nat
  BY DEF DInv, DispatchTypes
<1>2. DispatchTypes'
  BY <1>1 DEF DInv, DispatchTypes
<1>3. \A d \in Caller : CallFits(caller[d], program, registry, half, mixed)'
  BY <1>1 DEF DInv
<1>4. NumbersFit'
  <2>1. \A d \in Caller : caller[d].number \in Nat
    BY <1>1 DEF CallsIn
  <2>2. \A d \in Caller \ {c} : caller'[d].step \in InTool /\ ~caller'[d].fresh =>
            caller'[d].number <= sequence /\ caller'[d].number \in Nat
    BY <1>1, <2>1 DEF DInv, NumbersFit
  <2>3. caller'[c].step \in InTool /\ ~caller'[c].fresh => caller'[c].number = sequence' /\ sequence < sequence'
    BY <1>1
  <2>4. \A d \in Caller : caller'[d].step \in InTool /\ ~caller'[d].fresh => caller'[d].number <= sequence'
    BY <1>1, <2>2, <2>3
  <2>5. ASSUME NEW d \in Caller, NEW e \in Caller, d # e,
               caller'[d].step \in InTool, ~caller'[d].fresh,
               caller'[e].step \in InTool, ~caller'[e].fresh
        PROVE  caller'[d].number # caller'[e].number
    <3>1. CASE d = c
      BY <1>1, <2>2, <2>3, <2>5, <3>1
    <3>2. CASE e = c
      BY <1>1, <2>2, <2>3, <2>5, <3>2
    <3>3. CASE d # c /\ e # c
      BY <1>1, <2>5, <3>3 DEF DInv, NumbersFit
    <3> QED  BY <3>1, <3>2, <3>3
  <2> QED  BY <2>4, <2>5 DEF NumbersFit
<1>5. ResultsFit'
  <2>1. \A d \in Caller, w \in program.wrappers : Holds(d, w)' =>
            d # c /\ Holds(d, w) /\ Slot(d, w)' = Slot(d, w) /\ Entry(d, w)' = Entry(d, w)
            /\ caller'[d].number = caller[d].number
    BY <1>1 DEF Holds, Slot, Entry
  <2> QED  BY <1>1, <2>1 DEF DInv, ResultsFit
<1> QED  BY <1>2, <1>3, <1>4, <1>5 DEF DInv

\* The handlers that a call of a wrapper gets are its own function.
LEMMA OwnFunctionRuns ==
    ASSUME DInv, NEW c \in Caller, caller[c].step = "entering", ~Refuses(c)
    PROVE  /\ RegistryOf(c) \in RegistriesIn(program) /\ RegistryFits(RegistryOf(c))
           /\ ~half => SpecsFit(RegistryOf(c))
           /\ caller[c].wrapper # {} =>
                 HandlerOf(RegistryOf(c), caller[c].call.tool, IsAsync(c)) = caller[c].wrapper
<1> DEFINE m == caller[c]
           reg == RegistryOf(c)
<1>1. /\ m \in CallsIn(program) /\ CallFits(m, program, registry, half, mixed) /\ IsProgram(program)
      /\ registry \in RegistriesIn(program) /\ RegistryFits(registry) /\ (~half => SpecsFit(registry))
  BY DEF DInv, DispatchTypes
<1>2. NothingRegistered \in RegistriesIn(program)
  BY DEF NothingRegistered, RegistriesIn
<1>3. CASE m.wrapper = {}
  <2>1. ~m.fresh
    BY <1>1, <1>3 DEF CallFits
  <2> QED  BY <1>1, <1>3, <2>1 DEF RegistryOf
<1>4. CASE m.wrapper # {}
  <2>1. PICK w \in program.wrappers : m.wrapper = {w}
    BY <1>1, <1>4 DEF CallFits
  <2> DEFINE shared == /\ IF w.async THEN w \in registry.asyncs ELSE w \in registry.handlers
                       /\ w.async => program.async
  <2>2. m.call.tool = w.tool /\ (m.fresh => ~Taken(NothingRegistered, w)) /\ (~m.fresh => shared)
    <3>1. w \in m.wrapper /\ m.step = "entering"
      BY <2>1
    <3>2. m.call = CallOf(w) /\ (m.fresh => ~Taken(NothingRegistered, w)) /\ (~m.fresh => shared)
      BY <1>1, <3>1 DEF CallFits
    <3>3. CallOf(w).tool = w.tool
      BY DEF CallOf
    <3> QED  BY <3>2, <3>3
  <2>3. w.async \in BOOLEAN /\ program.async \in BOOLEAN
    BY <1>1 DEF IsProgram, Wrapper
  <2>4. CASE m.fresh
    <3>1. (CHOOSE v \in m.wrapper : TRUE) = w
      BY <2>1
    <3>2. reg = Registered(NothingRegistered, w)
      BY <2>4, <3>1 DEF RegistryOf
    <3>3. ~Conflicts(NothingRegistered, w)
      BY DEF Conflicts, NothingRegistered
    <3>4. /\ reg \in RegistriesIn(program) /\ RegistryFits(reg) /\ SpecsFit(reg)
          /\ IF w.async THEN w \in reg.asyncs ELSE w \in reg.handlers
      BY <1>1, <1>2, <2>2, <2>4, <3>2, <3>3, NothingFits, RegisteringFits
    <3>5. IsAsync(c) = w.async
      BY <2>1, <2>3, <2>4 DEF IsAsync
    <3> HIDE DEF reg
    <3>6. ~w.async => reg.asyncs = {}
      BY <3>2 DEF Registered, NothingRegistered
    <3>7. HandlerOf(reg, w.tool, w.async) = {w}
      BY <2>3, <3>4, <3>6 DEF HandlerOf, RegistryFits
    <3> QED  BY <2>1, <2>2, <3>4, <3>5, <3>7 DEF reg
  <2>5. CASE ~m.fresh
    <3>1. reg = registry /\ IsAsync(c) = program.async
      BY <2>5 DEF RegistryOf, IsAsync
    <3>2. program.async => w.async
      BY <2>1, <2>5 DEF Refuses
    <3>3. program.async = w.async
      BY <2>2, <2>3, <2>5, <3>2
    <3>4. HandlerOf(registry, w.tool, w.async) = {w}
      BY <1>1, <2>2, <2>3, <2>5 DEF HandlerOf, RegistryFits
    <3> QED  BY <1>1, <2>1, <2>2, <3>1, <3>3, <3>4
  <2> QED  BY <2>4, <2>5
<1> QED  BY <1>3, <1>4

\* What the verdicts say of a call that runs.
LEMMA VerdictsFit ==
    ASSUME NEW p, IsProgram(p), NEW default \in Effects, NEW call,
           call \in p.direct \/ call.argv = <<>>,
           Decide(p.rules, default, call) # "deny", ~Hooked(p.hooks, call),
           NEW agreed \in BOOLEAN, Decide(p.rules, default, call) = "ask" => agreed
    PROVE  /\ ~Forbidden(p.rules, p.hooks, default, call)
           /\ NeedsConsent(p.rules, default, call) => agreed
BY DecidingIsReading

LEMMA EnterStep ==
    ASSUME DInv, NEW c \in Caller, Enter(c)
    PROVE  DInv'
<1> DEFINE default == Default(RegistryOf(c), caller[c].call.tool)
           runs == HandlerOf(RegistryOf(c), caller[c].call.tool, IsAsync(c))
           decision == Decide(program.rules, default, caller[c].call)
           number == IF caller[c].fresh THEN 1 ELSE sequence + 1
<1>1. /\ caller[c] \in CallsIn(program) /\ CallFits(caller[c], program, registry, half, mixed)
      /\ IsProgram(program) /\ sequence \in Nat
      /\ caller[c].step = "entering" /\ ~Refuses(c)
      /\ sequence' = (IF caller[c].fresh THEN sequence ELSE sequence + 1)
      /\ UNCHANGED <<program, registry, failed, results, calls, half, mixed>>
  BY DEF DInv, DispatchTypes, Enter, MayEnter
<1>2. PICK verdict \in Verdicts(default, caller[c].call) :
          Proceed(c, number, default, runs, verdict, verdict = "running" /\ decision = "ask")
  BY DEF Enter
<1> DEFINE agreed == verdict = "running" /\ decision = "ask"
           step == IF verdict \in {"running", "pending"} THEN verdict ELSE "returned"
           outcome == IF verdict \in {"running", "pending"} THEN "none" ELSE verdict
           m == [caller[c] EXCEPT !.number = number, !.default = default, !.runs = runs,
                                  !.agreed = agreed, !.step = step, !.outcome = outcome]
<1>3. caller' = [caller EXCEPT ![c] = m]
  BY <1>2 DEF Proceed
<1>4. /\ RegistryOf(c) \in RegistriesIn(program) /\ RegistryFits(RegistryOf(c))
      /\ ~half => SpecsFit(RegistryOf(c))
      /\ caller[c].wrapper # {} => runs = caller[c].wrapper
  BY <1>1, OwnFunctionRuns
<1>5. default \in Effects
  BY <1>4, DefaultType
<1>6. /\ runs \subseteq program.wrappers
      /\ ~half => \A w \in runs : default = w.effect
  <2>1. \A w \in runs : w \in RegistryOf(c).handlers \union RegistryOf(c).asyncs
                        /\ (~half => default = w.effect)
    BY <1>4, HandlersFit
  <2> QED  BY <1>4, <2>1 DEF RegistriesIn
<1>6a. ~caller[c].fresh => \A w \in runs : w.shared
  <2>1. ~caller[c].fresh => RegistryOf(c) = registry
    BY DEF RegistryOf
  <2>2. \A w \in runs : w \in RegistryOf(c).handlers \union RegistryOf(c).asyncs
    BY <1>4, HandlersFit
  <2> QED  BY <2>1, <2>2 DEF DInv, SharedOnly
<1>7. /\ verdict \in {"denied", "running", "pending"}
      /\ verdict = "running" => decision # "deny" /\ ~Hooked(program.hooks, caller[c].call)
  BY <1>2 DEF Verdicts
<1> HIDE DEF default, runs, decision
<1>8. number \in Nat /\ agreed \in BOOLEAN /\ step \in CallerSteps /\ outcome \in CallerOutcomes
      /\ step \in {"running", "pending", "returned"} /\ outcome \notin {"value", "missing"}
      /\ (step = "running" <=> verdict = "running")
  BY <1>1, <1>7 DEF CallerSteps, CallerOutcomes
<1>9. caller[c].call \in program.direct \/ caller[c].call.argv = <<>>
  BY <1>1 DEF CallFits
<1>10. step = "running" =>
          /\ ~Forbidden(program.rules, program.hooks, default, caller[c].call)
          /\ NeedsConsent(program.rules, default, caller[c].call) => agreed
  BY <1>1, <1>5, <1>7, <1>8, <1>9, VerdictsFit DEF decision
<1> HIDE DEF number, agreed, step, outcome
<1>11. m \in CallsIn(program)
  BY <1>1, <1>5, <1>6, <1>8 DEF CallsIn
<1>12. /\ m.number = number /\ m.default = default /\ m.runs = runs /\ m.agreed = agreed
       /\ m.step = step /\ m.outcome = outcome /\ m.call = caller[c].call
       /\ m.wrapper = caller[c].wrapper /\ m.fresh = caller[c].fresh
  BY <1>1 DEF CallsIn
<1> HIDE DEF m
<1>13. CallFits(m, program, registry, half, mixed)
  BY <1>1, <1>4, <1>6, <1>6a, <1>8, <1>10, <1>12 DEF CallFits, InTool
<1>14. m.step # "stored" /\ sequence' \in Nat /\ sequence <= sequence'
       /\ (m.step \in InTool /\ ~m.fresh => m.number = sequence' /\ sequence < sequence')
  BY <1>1, <1>8, <1>12 DEF number
<1> QED  BY <1>1, <1>3, <1>11, <1>13, <1>14, EnteringSteps

LEMMA ResumeStep ==
    ASSUME DInv, NEW c \in Caller, Resume(c)
    PROVE  DInv'
<1> DEFINE call == caller[c].call
           RegOf(tools) == IF tools = {} THEN NothingRegistered
                           ELSE Registered(NothingRegistered, CHOOSE w \in tools : TRUE)
<1>1. /\ caller[c] \in CallsIn(program) /\ CallFits(caller[c], program, registry, half, mixed)
      /\ IsProgram(program) /\ sequence \in Nat
      /\ caller[c].step = "pending" /\ caller[c].fresh
      /\ UNCHANGED <<program, registry, failed, sequence, results, calls, half, mixed>>
  BY DEF DInv, DispatchTypes, Resume
<1>2. PICK tools \in {{}} \union {{w} : w \in program.wrappers}, agreed \in BOOLEAN :
          LET default == Default(RegOf(tools), call.tool)
              runs == HandlerOf(RegOf(tools), call.tool, \E w \in tools : w.async)
              verdict == IF Hooked(program.hooks, call) THEN "denied"
                         ELSE ResumedVerdict(Decide(program.rules, default, call), agreed) IN
          caller' = [caller EXCEPT ![c] = [@ EXCEPT
              !.wrapper = {}, !.default = default, !.runs = runs, !.agreed = agreed,
              !.step = IF verdict = "running" THEN "running" ELSE "returned",
              !.outcome = IF verdict = "running" THEN "none" ELSE verdict]]
  BY DEF Resume
<1> DEFINE reg == RegOf(tools)
           default == Default(reg, call.tool)
           async == \E w \in tools : w.async
           runs == HandlerOf(reg, call.tool, async)
           decision == Decide(program.rules, default, call)
           verdict == IF Hooked(program.hooks, call) THEN "denied" ELSE ResumedVerdict(decision, agreed)
           step == IF verdict = "running" THEN "running" ELSE "returned"
           outcome == IF verdict = "running" THEN "none" ELSE verdict
           m == [caller[c] EXCEPT !.wrapper = {}, !.default = default, !.runs = runs,
                                  !.agreed = agreed, !.step = step, !.outcome = outcome]
<1>3. caller' = [caller EXCEPT ![c] = m]
  BY <1>2
<1>4. reg \in RegistriesIn(program) /\ RegistryFits(reg) /\ SpecsFit(reg)
  <2>1. NothingRegistered \in RegistriesIn(program)
    BY DEF NothingRegistered, RegistriesIn
  <2>2. CASE tools = {}
    BY <2>1, <2>2, NothingFits
  <2>3. CASE tools # {}
    <3>1. PICK w \in program.wrappers : tools = {w}
      BY <2>3
    <3>2. reg = Registered(NothingRegistered, w)
      BY <2>3, <3>1
    <3>3. ~Conflicts(NothingRegistered, w)
      BY DEF Conflicts, NothingRegistered
    <3> QED  BY <1>1, <2>1, <3>2, <3>3, NothingFits, RegisteringFits
  <2> QED  BY <2>2, <2>3
<1> HIDE DEF RegOf, reg, async
<1>5. default \in Effects
  BY <1>4, DefaultType
<1>6. runs \subseteq program.wrappers /\ \A w \in runs : default = w.effect
  <2>1. \A w \in runs : w \in reg.handlers \union reg.asyncs /\ default = w.effect
    BY <1>4, HandlersFit
  <2> QED  BY <1>4, <2>1 DEF RegistriesIn
<1> HIDE DEF default, runs
<1>7. /\ verdict \in {"denied", "raised", "running"}
      /\ verdict = "running" =>
            ~Hooked(program.hooks, call) /\ decision # "deny" /\ agreed
  <2>1. decision \in Effects
    BY <1>5 DEF Decide, Effects
  <2> HIDE DEF decision
  <2> QED  BY <2>1 DEF ResumedVerdict, Effects
<1> HIDE DEF decision, verdict
<1>8. step \in CallerSteps /\ outcome \in CallerOutcomes
      /\ step \in {"running", "returned"} /\ outcome \notin {"value", "missing"}
      /\ (step = "running" => verdict = "running")
  BY <1>7 DEF CallerSteps, CallerOutcomes
<1>9. call \in program.direct \/ call.argv = <<>>
  BY <1>1 DEF CallFits
<1>10. step = "running" =>
          ~Forbidden(program.rules, program.hooks, default, call) /\ agreed
  BY <1>1, <1>5, <1>7, <1>8, <1>9, VerdictsFit DEF decision
<1> HIDE DEF step, outcome
<1>11. m \in CallsIn(program)
  BY <1>1, <1>5, <1>6, <1>8 DEF CallsIn
<1>12. /\ m.default = default /\ m.runs = runs /\ m.agreed = agreed /\ m.step = step
       /\ m.outcome = outcome /\ m.call = call /\ m.wrapper = {} /\ m.fresh = caller[c].fresh
  BY <1>1 DEF CallsIn
<1> HIDE DEF m
<1>13. CallFits(m, program, registry, half, mixed)
  BY <1>1, <1>6, <1>8, <1>10, <1>12 DEF CallFits, InTool
<1>14. m.step # "stored" /\ m.fresh /\ sequence' \in Nat /\ sequence <= sequence'
  BY <1>1, <1>8, <1>12
<1> QED  BY <1>1, <1>3, <1>11, <1>13, <1>14, EnteringSteps
----------------------------------------------------------------------------
(* What a call's tool returns *)

LEMMA FunctionReturnsStep ==
    ASSUME DInv, NEW c \in Caller, NEW w \in program.wrappers, FunctionReturns(c, w) PROVE DInv'
<1> DEFINE m == [caller[c] EXCEPT !.step = "stored"]
<1>1. /\ caller[c] \in CallsIn(program) /\ CallFits(caller[c], program, registry, half, mixed)
      /\ caller \in [Caller -> CallsIn(program)]
      /\ caller[c].step = "running" /\ caller[c].runs = {w} /\ ~w.async
      /\ results' = Stored(c, w) /\ mixed \in BOOLEAN
      /\ UNCHANGED <<program, registry, failed, sequence, calls, half>>
  BY DEF DInv, DispatchTypes, FunctionReturns, Runs
<1>2. mixed' = (mixed \/ \E d \in Caller \ {c} :
          /\ Holds(d, w)
          /\ caller[d].number = caller[c].number
          /\ caller[c].fresh \/ caller[d].fresh)
  BY DEF FunctionReturns, Holds
<1>3. caller' = [caller EXCEPT ![c] = m]
  BY DEF FunctionReturns
<1>4. m \in CallsIn(program)
  BY <1>1 DEF CallsIn, CallerSteps
<1>5. /\ m.step = "stored" /\ m.wrapper = caller[c].wrapper /\ m.call = caller[c].call
      /\ m.fresh = caller[c].fresh /\ m.serial = caller[c].serial /\ m.number = caller[c].number
      /\ m.runs = {w} /\ m.default = caller[c].default /\ m.agreed = caller[c].agreed
      /\ m.outcome = caller[c].outcome /\ m.value = caller[c].value
  BY <1>1 DEF CallsIn
<1> HIDE DEF m
<1>6. /\ caller' \in [Caller -> CallsIn(program)]
      /\ caller'[c] = m /\ \A d \in Caller \ {c} : caller'[d] = caller[d]
  BY <1>1, <1>3, <1>4
<1>7. mixed' \in BOOLEAN /\ (mixed => mixed')
  BY <1>1, <1>2
<1>8. DispatchTypes'
  <2>1. caller[c].number \in Nat /\ caller[c].serial \in Nat
    BY <1>1 DEF CallsIn
  <2>2. results' \subseteq [wrapper : program.wrappers, number : Nat, value : Nat]
    BY <1>1, <2>1 DEF Stored, DInv, DispatchTypes
  <2> QED  BY <1>1, <1>6, <1>7, <2>2 DEF DInv, DispatchTypes
<1>9. \A d \in Caller : CallFits(caller[d], program, registry, half, mixed)'
  <2>1. CallFits(m, program, registry, half, mixed')
    BY <1>1, <1>5, <1>7 DEF CallFits, InTool
  <2>2. \A d \in Caller \ {c} : CallFits(caller[d], program, registry, half, mixed')
    BY <1>7, OtherCallsKeep DEF DInv
  <2> QED  BY <1>1, <1>6, <2>1, <2>2
<1>10. NumbersFit'
  <2>1. \A d \in Caller : /\ caller'[d].step \in InTool <=> caller[d].step \in InTool
                          /\ caller'[d].fresh = caller[d].fresh
                          /\ caller'[d].number = caller[d].number
    BY <1>1, <1>5, <1>6 DEF InTool
  <2> QED  BY <1>1, <2>1 DEF DInv, NumbersFit
<1>11. ResultsFit'
  <2> SUFFICES ASSUME ~mixed'
      PROVE  /\ \A d \in Caller, v \in program.wrappers : Holds(d, v)' => Slot(d, v)' = {Entry(d, v)'}
             /\ \A d, e \in Caller, v \in program.wrappers :
                   d # e /\ Holds(d, v)' /\ Holds(e, v)' => caller'[d].number # caller'[e].number
    BY <1>1 DEF ResultsFit
  <2>1. \A d \in Caller \ {c}, v \in program.wrappers :
            /\ Holds(d, v)' = Holds(d, v) /\ Entry(d, v)' = Entry(d, v)
            /\ Slot(d, v)' = {r \in results' : r.wrapper = v /\ r.number = caller[d].number}
    BY <1>6 DEF Holds, Entry, Slot
  <2>2. \A v \in program.wrappers : Holds(c, v)' => v = w
    BY <1>1, <1>5, <1>6 DEF Holds, CallFits, InTool
  <2>3. \A d \in Caller \ {c} : Holds(d, w) => caller[d].number # caller[c].number
    <3> SUFFICES ASSUME NEW d \in Caller \ {c}, Holds(d, w), caller[d].number = caller[c].number
                 PROVE  FALSE
      OBVIOUS
    <3>1. ~caller[c].fresh /\ ~caller[d].fresh
      BY <1>2
    <3>2. caller[c].step \in InTool /\ caller[d].step \in InTool
      BY <1>1 DEF Holds, InTool
    <3> QED  BY <3>1, <3>2 DEF DInv, NumbersFit
  <2>4. Slot(c, w)' = {Entry(c, w)'}
    <3>1. Entry(c, w)' = [wrapper |-> w, number |-> caller[c].number, value |-> caller[c].serial]
      BY <1>5, <1>6 DEF Entry
    <3>2. Slot(c, w)' = {r \in results' : r.wrapper = w /\ r.number = caller[c].number}
      BY <1>5, <1>6 DEF Slot
    <3> QED  BY <1>1, <3>1, <3>2 DEF Stored, Slot
  <2>5. \A d \in Caller \ {c}, v \in program.wrappers : Holds(d, v) => Slot(d, v)' = Slot(d, v)
    <3> SUFFICES ASSUME NEW d \in Caller \ {c}, NEW v \in program.wrappers, Holds(d, v)
                 PROVE  Slot(d, v)' = Slot(d, v)
      OBVIOUS
    <3>1. v # w \/ caller[d].number # caller[c].number
      BY <2>3
    <3>2. Slot(d, v)' = {r \in Stored(c, w) : r.wrapper = v /\ r.number = caller[d].number}
      BY <1>1, <2>1
    <3> QED  BY <3>1, <3>2 DEF Stored, Slot
  <2>6. ~mixed
    BY <1>7
  <2>7. ASSUME NEW d \in Caller, NEW v \in program.wrappers, Holds(d, v)' PROVE Slot(d, v)' = {Entry(d, v)'}
    <3>1. CASE d = c
      BY <2>2, <2>4, <2>7, <3>1
    <3>2. CASE d # c
      BY <2>1, <2>5, <2>6, <2>7, <3>2 DEF DInv, ResultsFit
    <3> QED  BY <3>1, <3>2
  <2>8. ASSUME NEW d \in Caller, NEW e \in Caller, NEW v \in program.wrappers,
               d # e, Holds(d, v)', Holds(e, v)'
        PROVE  caller'[d].number # caller'[e].number
    <3>1. CASE d = c
      BY <1>5, <1>6, <2>1, <2>2, <2>3, <2>8, <3>1
    <3>2. CASE e = c
      BY <1>5, <1>6, <2>1, <2>2, <2>3, <2>8, <3>2
    <3>3. CASE d # c /\ e # c
      BY <1>6, <2>1, <2>6, <2>8, <3>3 DEF DInv, ResultsFit
    <3> QED  BY <3>1, <3>2, <3>3
  <2> QED  BY <2>7, <2>8
<1>12. program' \in Programs /\ RegistryFits(registry') /\ SharedOnly(registry') /\ (~half' => SpecsFit(registry'))
  BY <1>1 DEF DInv
<1> QED  BY <1>8, <1>9, <1>10, <1>11, <1>12 DEF DInv

\* A call that returns, and changes no other call's slot.
LEMMA ReturningSteps ==
    ASSUME DInv, NEW c \in Caller, NEW m \in CallsIn(program), caller' = [caller EXCEPT ![c] = m],
           m.step = "returned", CallFits(m, program, registry, half, mixed),
           results' \subseteq [wrapper : program.wrappers, number : Nat, value : Nat],
           ~mixed => \A d \in Caller \ {c}, v \in program.wrappers : Holds(d, v) =>
               {r \in results' : r.wrapper = v /\ r.number = caller[d].number} = Slot(d, v),
           UNCHANGED <<program, registry, sequence, calls, half, mixed>>, failed' \in BOOLEAN
    PROVE  DInv'
<1>1. /\ caller \in [Caller -> CallsIn(program)] /\ caller' \in [Caller -> CallsIn(program)]
      /\ caller'[c] = m /\ \A d \in Caller \ {c} : caller'[d] = caller[d]
  BY DEF DInv, DispatchTypes
<1>2. DispatchTypes'
  BY <1>1 DEF DInv, DispatchTypes
<1>3. \A d \in Caller : CallFits(caller[d], program, registry, half, mixed)'
  BY <1>1 DEF DInv
<1>4. NumbersFit'
  BY <1>1 DEF DInv, NumbersFit, InTool
<1>5. ResultsFit'
  <2>1. \A d \in Caller, v \in program.wrappers : Holds(d, v)' =>
            d # c /\ Holds(d, v) /\ Entry(d, v)' = Entry(d, v) /\ caller'[d].number = caller[d].number
    BY <1>1 DEF Holds, Entry
  <2>2. ~mixed => \A d \in Caller, v \in program.wrappers : Holds(d, v)' => Slot(d, v)' = Slot(d, v)
    BY <1>1, <2>1 DEF Slot
  <2> QED  BY <2>1, <2>2 DEF DInv, ResultsFit
<1> QED  BY <1>2, <1>3, <1>4, <1>5 DEF DInv

LEMMA TakeValueStep ==
    ASSUME DInv, NEW c \in Caller, TakeValue(c) PROVE DInv'
<1>1. /\ caller[c] \in CallsIn(program) /\ CallFits(caller[c], program, registry, half, mixed)
      /\ caller[c].step = "stored"
      /\ UNCHANGED <<program, registry, failed, sequence, calls, half, mixed>>
  BY DEF DInv, DispatchTypes, TakeValue
<1>2. CASE caller[c].wrapper = {}
  <2>1. Finish(c, "ok") /\ UNCHANGED results
    BY <1>2 DEF TakeValue
  <2> QED  BY <1>1, <2>1, FinishSteps DEF CallerOutcomes, DInv, DispatchTypes
<1>3. CASE caller[c].wrapper # {}
  <2>1. PICK w \in caller[c].wrapper :
          /\ results' = results \ Slot(c, w)
          /\ IF Slot(c, w) = {} THEN Finish(c, "missing")
             ELSE \E r \in Slot(c, w) :
                    caller' = [caller EXCEPT ![c].step = "returned", ![c].outcome = "value",
                                             ![c].value = r.value]
    BY <1>3 DEF TakeValue
  <2>2. w \in program.wrappers /\ caller[c].wrapper = {w}
    BY <1>1, <2>1 DEF CallFits, CallsIn
  <2>3. Holds(c, w)
    BY <1>1, <2>2 DEF Holds
  <2>4. ~mixed => Slot(c, w) = {Entry(c, w)}
    BY <2>2, <2>3 DEF DInv, ResultsFit
  <2>5. PICK outcome \in {"value", "missing"}, value \in Nat :
          /\ caller' = [caller EXCEPT ![c] = [caller[c] EXCEPT
                !.step = "returned", !.outcome = outcome, !.value = value]]
          /\ ~mixed => outcome = "value" /\ value = caller[c].serial
    <3>1. CASE Slot(c, w) = {}
      <4>1. caller' = [caller EXCEPT ![c] = [caller[c] EXCEPT
                !.step = "returned", !.outcome = "missing", !.value = caller[c].value]]
        <5>1. caller[c] = [caller[c] EXCEPT !.value = caller[c].value]
          BY <1>1 DEF CallsIn
        <5>2. caller' = [caller EXCEPT ![c] = [caller[c] EXCEPT !.step = "returned", !.outcome = "missing"]]
          BY <2>1, <3>1 DEF Finish
        <5>3. [caller[c] EXCEPT !.step = "returned", !.outcome = "missing"] =
              [caller[c] EXCEPT !.step = "returned", !.outcome = "missing", !.value = caller[c].value]
          BY <1>1 DEF CallsIn
        <5> QED  BY <5>2, <5>3
      <4>2. mixed
        BY <2>4, <3>1
      <4>3. caller[c].value \in Nat
        BY <1>1 DEF CallsIn
      <4> QED  BY <4>1, <4>2, <4>3
    <3>2. CASE Slot(c, w) # {}
      <4>1. PICK r \in Slot(c, w) :
              caller' = [caller EXCEPT ![c].step = "returned", ![c].outcome = "value", ![c].value = r.value]
        BY <2>1, <3>2
      <4>2. r.value \in Nat
        BY DEF Slot, DInv, DispatchTypes
      <4>3. ~mixed => r.value = caller[c].serial
        BY <2>4 DEF Entry
      <4>4. caller' = [caller EXCEPT ![c] = [caller[c] EXCEPT
                !.step = "returned", !.outcome = "value", !.value = r.value]]
        BY <4>1
      <4> QED  BY <4>2, <4>3, <4>4
    <3> QED  BY <3>1, <3>2
  <2> DEFINE m == [caller[c] EXCEPT !.step = "returned", !.outcome = outcome, !.value = value]
  <2>6. m \in CallsIn(program)
    <3>1. outcome \in CallerOutcomes /\ "returned" \in CallerSteps
      BY DEF CallerOutcomes, CallerSteps
    <3> QED  BY <1>1, <3>1 DEF CallsIn
  <2>7. /\ m.step = "returned" /\ m.wrapper = caller[c].wrapper /\ m.call = caller[c].call
        /\ m.fresh = caller[c].fresh /\ m.serial = caller[c].serial /\ m.outcome = outcome
        /\ m.value = value
    BY <1>1 DEF CallsIn
  <2>8. caller' = [caller EXCEPT ![c] = m]
    BY <2>5
  <2> HIDE DEF m
  <2>9. CallFits(m, program, registry, half, mixed)
    BY <1>1, <2>5, <2>7 DEF CallFits, InTool
  <2>10. results' \subseteq [wrapper : program.wrappers, number : Nat, value : Nat]
    BY <2>1 DEF DInv, DispatchTypes
  <2>11. ~mixed => \A d \in Caller \ {c}, v \in program.wrappers : Holds(d, v) =>
               {r \in results' : r.wrapper = v /\ r.number = caller[d].number} = Slot(d, v)
    <3> SUFFICES ASSUME ~mixed, NEW d \in Caller \ {c}, NEW v \in program.wrappers, Holds(d, v)
                 PROVE  {r \in results' : r.wrapper = v /\ r.number = caller[d].number} = Slot(d, v)
      OBVIOUS
    <3>1. v # w \/ caller[d].number # caller[c].number
      BY <2>2, <2>3 DEF DInv, ResultsFit
    <3> QED  BY <2>1, <3>1 DEF Slot
  <2>12. failed' \in BOOLEAN
    BY <1>1 DEF DInv, DispatchTypes
  <2> QED  BY <1>1, <2>6, <2>7, <2>8, <2>9, <2>10, <2>11, <2>12, ReturningSteps
<1> QED  BY <1>2, <1>3

\* The number of a call whose function is left running belongs to no call that
\* holds a value of the same wrapper.
LEMMA FunctionAbortsStep ==
    ASSUME DInv, NEW c \in Caller, NEW w \in program.wrappers, FunctionAborts(c, w) PROVE DInv'
<1> DEFINE m == [caller[c] EXCEPT !.step = "returned", !.outcome = "raised"]
<1>1. /\ caller[c] \in CallsIn(program) /\ CallFits(caller[c], program, registry, half, mixed)
      /\ caller[c].step = "running" /\ caller[c].runs = {w} /\ IsProgram(program)
      /\ UNCHANGED <<program, registry, sequence, calls, half, mixed>>
      /\ failed' \in BOOLEAN
  BY DEF DInv, DispatchTypes, FunctionAborts, Runs
<1>2. results' = results \/ (results' = Stored(c, w) /\ IsAsync(c) /\ ~w.async)
  BY DEF FunctionAborts
<1>3. results' \subseteq [wrapper : program.wrappers, number : Nat, value : Nat]
  <2>1. caller[c].number \in Nat /\ caller[c].serial \in Nat
    BY <1>1 DEF CallsIn
  <2>2. results \subseteq [wrapper : program.wrappers, number : Nat, value : Nat]
    BY DEF DInv, DispatchTypes
  <2> QED  BY <1>2, <2>1, <2>2 DEF Stored
<1>4. \A d \in Caller \ {c}, v \in program.wrappers : Holds(d, v) =>
          {r \in results' : r.wrapper = v /\ r.number = caller[d].number} = Slot(d, v)
  <2> SUFFICES ASSUME NEW d \in Caller \ {c}, NEW v \in program.wrappers, Holds(d, v)
               PROVE  {r \in results' : r.wrapper = v /\ r.number = caller[d].number} = Slot(d, v)
    OBVIOUS
  <2>1. CASE results' = results
    BY <2>1 DEF Slot
  <2>2. CASE results' = Stored(c, w) /\ IsAsync(c) /\ ~w.async
    <3>1. ~caller[c].fresh
      BY <1>1, <2>2 DEF IsAsync, CallFits, InTool
    <3>2. w.shared
      BY <1>1, <3>1 DEF CallFits, InTool
    <3>3. /\ caller[d].step = "stored" /\ caller[d].wrapper = {v}
          /\ CallFits(caller[d], program, registry, half, mixed)
      BY DEF Holds, DInv
    <3>4. v = w => ~caller[d].fresh
      BY <3>2, <3>3 DEF CallFits
    <3>5. v # w \/ caller[d].number # caller[c].number
      BY <1>1, <3>1, <3>3, <3>4 DEF DInv, NumbersFit, InTool
    <3> QED  BY <2>2, <3>5 DEF Stored, Slot
  <2> QED  BY <1>2, <2>1, <2>2
<1>5. caller' = [caller EXCEPT ![c] = m]
  BY <1>1 DEF FunctionAborts, Finish, CallsIn
<1>6. m \in CallsIn(program) /\ CallFits(m, program, registry, half, mixed)
  BY <1>1, FinishingFits DEF CallerOutcomes
<1>7. m.step = "returned"
  BY <1>1 DEF CallsIn
<1> HIDE DEF m
<1> QED  BY <1>1, <1>3, <1>4, <1>5, <1>6, <1>7, ReturningSteps

LEMMA TaskReturnsStep ==
    ASSUME DInv, NEW c \in Caller, NEW w \in program.wrappers, TaskReturns(c, w) PROVE DInv'
<1>1. /\ caller[c] \in CallsIn(program) /\ CallFits(caller[c], program, registry, half, mixed)
      /\ caller[c].step = "running" /\ w.async /\ IsProgram(program)
      /\ UNCHANGED <<program, registry, failed, sequence, calls, half, mixed>>
  BY DEF DInv, DispatchTypes, TaskReturns, Runs
<1>2. results' = results \ Slot(c, w) \/ results' = Stored(c, w)
  BY DEF TaskReturns
<1>3. results' \subseteq [wrapper : program.wrappers, number : Nat, value : Nat]
  <2>1. caller[c].number \in Nat /\ caller[c].serial \in Nat
    BY <1>1 DEF CallsIn
  <2>2. results \subseteq [wrapper : program.wrappers, number : Nat, value : Nat]
    BY DEF DInv, DispatchTypes
  <2> QED  BY <1>2, <2>1, <2>2 DEF Stored
<1>4. \A d \in Caller \ {c}, v \in program.wrappers : Holds(d, v) =>
          {r \in results' : r.wrapper = v /\ r.number = caller[d].number} = Slot(d, v)
  <2> SUFFICES ASSUME NEW d \in Caller \ {c}, NEW v \in program.wrappers, Holds(d, v)
               PROVE  {r \in results' : r.wrapper = v /\ r.number = caller[d].number} = Slot(d, v)
    OBVIOUS
  <2>1. caller[d].wrapper = {v} /\ caller[d].step = "stored" /\ CallFits(caller[d], program, registry, half, mixed)
    BY DEF Holds, DInv
  <2>2. ~v.async
    BY <2>1 DEF CallFits, InTool
  <2>3. v # w
    BY <1>1, <2>2
  <2> QED  BY <1>2, <2>3 DEF Slot, Stored
<1> DEFINE own == caller[c].wrapper = {w}
           outcome == IF own THEN "value" ELSE "ok"
           value == IF own THEN caller[c].serial ELSE caller[c].value
           m == [caller[c] EXCEPT !.step = "returned", !.outcome = outcome, !.value = value]
<1>5. caller' = [caller EXCEPT ![c] = m]
  <2>1. CASE own
    BY <2>1 DEF TaskReturns
  <2>2. CASE ~own
    <3>1. caller' = [caller EXCEPT ![c] = [caller[c] EXCEPT !.step = "returned", !.outcome = "ok"]]
      BY <2>2 DEF TaskReturns, Finish
    <3>2. [caller[c] EXCEPT !.step = "returned", !.outcome = "ok"] =
          [caller[c] EXCEPT !.step = "returned", !.outcome = "ok", !.value = caller[c].value]
      BY <1>1 DEF CallsIn
    <3> QED  BY <2>2, <3>1, <3>2
  <2> QED  BY <2>1, <2>2
<1>6. /\ outcome \in CallerOutcomes /\ value \in Nat /\ "returned" \in CallerSteps
      /\ outcome \in {"value", "missing"} => outcome = "value" /\ value = caller[c].serial
  BY <1>1 DEF CallsIn, CallerOutcomes, CallerSteps
<1> HIDE DEF outcome, value
<1>7. m \in CallsIn(program)
  BY <1>1, <1>6 DEF CallsIn
<1>8. /\ m.step = "returned" /\ m.wrapper = caller[c].wrapper /\ m.call = caller[c].call
      /\ m.fresh = caller[c].fresh /\ m.serial = caller[c].serial /\ m.outcome = outcome
      /\ m.value = value
  BY <1>1 DEF CallsIn
<1> HIDE DEF m
<1>9. CallFits(m, program, registry, half, mixed)
  BY <1>1, <1>6, <1>8 DEF CallFits, InTool
<1>10. failed' \in BOOLEAN
  BY <1>1 DEF DInv, DispatchTypes
<1> QED  BY <1>1, <1>3, <1>4, <1>5, <1>7, <1>8, <1>9, <1>10, ReturningSteps

LEMMA ProgramDiesStep ==
    ASSUME DInv, ProgramDies PROVE DInv'
<1>1. /\ program' = program /\ calls' = calls /\ registry' = NothingRegistered
      /\ failed' = FALSE /\ half' = FALSE /\ mixed' = FALSE /\ sequence' = 0 /\ results' = {}
      /\ caller' = [c \in Caller |-> NoCall] /\ NoCall.step = "idle"
  BY DEF ProgramDies, NoCall
<1>2. DispatchTypes'
  <2>1. NothingRegistered \in RegistriesIn(program)
    BY DEF NothingRegistered, RegistriesIn
  <2>2. caller' \in [Caller -> CallsIn(program)]
    BY <1>1, NoCallFits
  <2>3. 0 \in Nat /\ TRUE \in BOOLEAN /\ FALSE \in BOOLEAN
    OBVIOUS
  <2> QED  BY <1>1, <2>1, <2>2, <2>3 DEF DInv, DispatchTypes
<1>3. \A c \in Caller : CallFits(caller[c], program, registry, half, mixed)'
  BY <1>1, NoCallFits
<1>4. NumbersFit' /\ ResultsFit'
  BY <1>1 DEF NumbersFit, ResultsFit, InTool, Holds
<1> QED  BY <1>1, <1>2, <1>3, <1>4, NothingFits DEF DInv

LEMMA DispatchStepHolds ==
    ASSUME DInv, NEW c \in Caller, DispatchStep(c) PROVE DInv'
<1>1. ASSUME NEW w \in program.wrappers,
             \/ CallWrapper(c, w) \/ FunctionFails(c, w) \/ FunctionAborts(c, w)
             \/ FunctionReturns(c, w) \/ TaskReturns(c, w)
      PROVE  DInv'
  BY <1>1, CallWrapperStep, FunctionFailsStep, FunctionAbortsStep, FunctionReturnsStep, TaskReturnsStep
<1>2. ASSUME NEW call \in program.direct, CallDirect(c, call) PROVE DInv'
  BY <1>2, CallDirectStep
<1>3. CASE EnterRefused(c) \/ CancelEntering(c) \/ Resume(c) \/ LeavePending(c) \/ TakeValue(c) \/ GetResult(c)
  BY <1>3, EnterRefusedStep, CancelEnteringStep, ResumeStep, ResetStep, TakeValueStep
<1> QED  BY <1>1, <1>2, <1>3 DEF DispatchStep

LEMMA DispatchNextHolds == DInv /\ [DispatchNext]_dispatchVars => DInv'
<1> SUFFICES ASSUME DInv, [DispatchNext]_dispatchVars PROVE DInv'
  OBVIOUS
<1>1. CASE ProgramDies
  BY <1>1, ProgramDiesStep
<1>2. ASSUME NEW c \in Caller, DispatchStep(c) PROVE DInv'
  BY <1>2, DispatchStepHolds
<1>3. ASSUME NEW c \in Caller, Enter(c) PROVE DInv'
  BY <1>3, EnterStep
<1>4. ASSUME NEW c \in Caller, NEW outcome \in {"ok", "failed", "raised"}, BuiltinEnds(c, outcome)
      PROVE  DInv'
  BY <1>4, BuiltinEndsStep
<1>5. CASE UNCHANGED dispatchVars
  BY <1>5 DEF dispatchVars, DInv, DispatchTypes, NumbersFit, ResultsFit, Holds, Entry, Slot, CallFits
<1> QED  BY <1>1, <1>2, <1>3, <1>4, <1>5 DEF DispatchNext

----------------------------------------------------------------------------
(* The theorems *)

LEMMA DispatchInvariantImplies ==
    ASSUME DInv
    PROVE  /\ DispatchTypes
           /\ RunsArePermitted
           /\ ValuesReachTheirCallers
<1>1. ValuesReachTheirCallers
  BY DEF DInv, CallFits, ValuesReachTheirCallers
<1>2. RunsArePermitted
  <2>1. ASSUME NEW c \in Caller, caller[c].step \in InTool
        PROVE  /\ ~Forbidden(program.rules, program.hooks, DeclaredEffect(c), caller[c].call)
               /\ NeedsConsent(program.rules, DeclaredEffect(c), caller[c].call) \/ Resumed(c) =>
                     caller[c].agreed
    <3>1. CallFits(caller[c], program, registry, half, mixed)
      BY DEF DInv
    <3>2. DeclaredEffect(c) = caller[c].default
      <4>1. CASE half \/ caller[c].runs = {}
        BY <4>1 DEF DeclaredEffect
      <4>2. CASE ~(half \/ caller[c].runs = {})
        <5>1. (CHOOSE w \in caller[c].runs : TRUE) \in caller[c].runs
          BY <4>2
        <5> QED  BY <2>1, <3>1, <4>2, <5>1 DEF DeclaredEffect, CallFits
      <4> QED  BY <4>1, <4>2
    <3> QED  BY <2>1, <3>1, <3>2 DEF CallFits, Resumed
  <2> QED  BY <2>1 DEF RunsArePermitted, InTool
<1> QED  BY <1>1, <1>2 DEF DInv

\* A dispatch keeps its types, whatever the program is. Nothing is run that
\* the policy or the tool's own declaration forbids, and nothing without the
\* agreement they ask for. Values reach the callers they belong to.
THEOREM DispatchIsSafe ==
    DispatchSpec => []DispatchTypes /\ []RunsArePermitted /\ []ValuesReachTheirCallers
<1>1. DispatchSpec => []DInv
  BY DispatchInitHolds, DispatchNextHolds, PTL DEF DispatchSpec
<1> QED  BY <1>1, DispatchInvariantImplies, PTL
=============================================================================
