---------------------------- MODULE FetchingProofs ----------------------------
(***************************************************************************)
(* What is fetched and kept, for any values of the constants: manifests    *)
(* with their includes (ManifestResolver), the two levels of a rule set    *)
(* cache (RuleSetCaches), whom a fetcher answers (RuleFetcher), and how    *)
(* often the commands that ask for it are carried out (CommandProcessor).  *)
(* A section per invariant, then one for the component's types, which need *)
(* invariants of their own.                                                *)
(***************************************************************************)
EXTENDS SupplyProofs, RuleFetcher, ManifestResolver, RuleSetCaches, CommandProcessor,
        FiniteSetTheorems

-----------------------------------------------------------------------------
(* What a queue has in it *)

Has(q, x) == \E k \in DOMAIN q : q[k] = x

LEMMA ConcatQueue ==
    ASSUME NEW p, NEW q, IsQueue(p), IsQueue(q)
    PROVE  /\ IsQueue(p \o q) /\ Len(p) \in Nat
           /\ DOMAIN p = 1 .. Len(p) /\ DOMAIN q = 1 .. Len(q)
           /\ \A i \in DOMAIN p : i \in DOMAIN (p \o q) /\ (p \o q)[i] = p[i]
           /\ \A i \in DOMAIN q : /\ Len(p) + i \in DOMAIN (p \o q)
                                  /\ (p \o q)[Len(p) + i] = q[i]
           /\ \A i \in DOMAIN (p \o q) :
                 i \in DOMAIN p \/ \E j \in DOMAIN q : i = Len(p) + j
<1>1. PICK S : p \in Seq(S) /\ q \in Seq(S)
  <2>1. PICK S, T : p \in Seq(S) /\ q \in Seq(T)
    BY DEF IsQueue
  <2>2. p \in Seq(S \cup T) /\ q \in Seq(S \cup T)
    BY <2>1, SeqMonotonic
  <2> QED  BY <2>2
<1> DEFINE r == p \o q
<1>2. /\ r \in Seq(S) /\ Len(p) \in Nat /\ Len(q) \in Nat
      /\ DOMAIN p = 1 .. Len(p) /\ DOMAIN q = 1 .. Len(q)
      /\ DOMAIN r = 1 .. Len(p) + Len(q)
      /\ \A i \in 1 .. Len(p) + Len(q) :
            r[i] = IF i <= Len(p) THEN p[i] ELSE q[i - Len(p)]
  BY <1>1, ConcatProperties, LenProperties
<1> HIDE DEF r
<1>3. \A i \in DOMAIN p : i \in DOMAIN r /\ r[i] = p[i]
  BY <1>2
<1>4. ASSUME NEW i \in DOMAIN q
      PROVE  Len(p) + i \in DOMAIN r /\ r[Len(p) + i] = q[i]
  <2>1. /\ i \in Nat /\ Len(p) + i \in 1 .. Len(p) + Len(q)
        /\ ~(Len(p) + i <= Len(p)) /\ Len(p) + i - Len(p) = i
    BY <1>2
  <2> QED  BY <1>2, <2>1
<1>5. ASSUME NEW i \in DOMAIN r
      PROVE  i \in DOMAIN p \/ \E j \in DOMAIN q : i = Len(p) + j
  <2>1. CASE i <= Len(p)
    BY <1>2, <2>1
  <2>2. CASE ~(i <= Len(p))
    <3>1. i - Len(p) \in DOMAIN q /\ i = Len(p) + (i - Len(p))
      BY <1>2, <2>2
    <3> QED  BY <3>1
  <2> QED  BY <2>1, <2>2
<1> QED  BY <1>2, <1>3, <1>4, <1>5 DEF r, IsQueue

LEMMA HasConcat ==
    ASSUME NEW p, NEW q, IsQueue(p), IsQueue(q)
    PROVE  /\ IsQueue(p \o q)
           /\ \A x : Has(p \o q, x) <=> Has(p, x) \/ Has(q, x)
<1>0. PICK r : r = p \o q
  OBVIOUS
<1>1. /\ IsQueue(r)
      /\ \A i \in DOMAIN p : i \in DOMAIN r /\ r[i] = p[i]
      /\ \A i \in DOMAIN q : Len(p) + i \in DOMAIN r /\ r[Len(p) + i] = q[i]
      /\ \A i \in DOMAIN r : i \in DOMAIN p \/ \E j \in DOMAIN q : i = Len(p) + j
  <2>1. IsQueue(r) /\ \A i \in DOMAIN p : i \in DOMAIN r /\ r[i] = p[i]
    BY <1>0, ConcatQueue
  <2>2. \A i \in DOMAIN q : Len(p) + i \in DOMAIN r /\ r[Len(p) + i] = q[i]
    BY <1>0, ConcatQueue
  <2>3. \A i \in DOMAIN r : i \in DOMAIN p \/ \E j \in DOMAIN q : i = Len(p) + j
    BY <1>0, ConcatQueue
  <2> QED  BY <2>1, <2>2, <2>3
<1>2. ASSUME NEW i \in DOMAIN r
      PROVE  Has(p, r[i]) \/ Has(q, r[i])
  <2>1. CASE i \in DOMAIN p
    BY <1>1, <2>1 DEF Has
  <2>2. CASE \E j \in DOMAIN q : i = Len(p) + j
    BY <1>1, <2>2 DEF Has
  <2> QED  BY <1>1, <2>1, <2>2
<1>3. \A x : Has(p, x) \/ Has(q, x) => Has(r, x)
  BY <1>1 DEF Has
<1>4. \A x : Has(r, x) => Has(p, x) \/ Has(q, x)
  BY <1>2 DEF Has
<1> QED  BY <1>0, <1>1, <1>3, <1>4

LEMMA HasTail ==
    ASSUME NEW q, IsQueue(q), q # <<>>
    PROVE  IsQueue(Tail(q)) /\ \A x : Has(q, x) <=> x = Head(q) \/ Has(Tail(q), x)
<1> DEFINE r == Tail(q)
<1>1. /\ IsQueue(r) /\ Len(q) \in Nat \ {0}
      /\ DOMAIN r = 1 .. Len(q) - 1 /\ DOMAIN q = 1 .. Len(q)
      /\ \A i \in 1 .. Len(q) - 1 : r[i] = q[i + 1]
      /\ Head(q) = q[1]
  BY TailOfQueue
<1> HIDE DEF r
<1>2. 1 \in DOMAIN q /\ \A i \in DOMAIN r : i + 1 \in DOMAIN q /\ r[i] = q[i + 1]
  BY <1>1
<1>3. \A i \in DOMAIN q : i = 1 \/ (i - 1 \in DOMAIN r /\ r[i - 1] = q[i])
  <2> SUFFICES ASSUME NEW i \in DOMAIN q, i # 1
               PROVE  i - 1 \in DOMAIN r /\ r[i - 1] = q[i]
    OBVIOUS
  <2>1. i - 1 \in 1 .. Len(q) - 1 /\ i - 1 + 1 = i
    BY <1>1
  <2> QED  BY <1>1, <2>1
<1>4. \A x : Has(q, x) <=> x = Head(q) \/ Has(r, x)
  BY <1>1, <1>2, <1>3 DEF Has
<1> QED  BY <1>1, <1>4 DEF r

LEMMA NothingInQueue == IsQueue(<<>>) /\ \A x : ~Has(<<>>, x)
BY EmptySeq DEF IsQueue, Has

LEMMA HasOne == ASSUME NEW y PROVE IsQueue(<<y>>) /\ \A x : Has(<<y>>, x) <=> x = y
<1>1. DOMAIN <<y>> = {1} /\ <<y>>[1] = y
  OBVIOUS
<1>2. <<y>> \in Seq({y})
  OBVIOUS
<1>3. \A x : Has(<<y>>, x) <=> x = y
  BY <1>1 DEF Has
<1> QED  BY <1>2, <1>3 DEF IsQueue

\* The steps made of the members of a sequence.
LEMMA MappedQueue ==
    ASSUME NEW S, NEW s \in Seq(S), NEW r, DOMAIN r = DOMAIN s, r = [k \in DOMAIN r |-> r[k]]
    PROVE  IsQueue(r)
<1>1. Len(s) \in Nat /\ DOMAIN s = 1 .. Len(s)
  BY LenProperties
<1> DEFINE T == {r[k] : k \in DOMAIN r}
<1>2. r \in [1 .. Len(s) -> T]
  BY <1>1
<1> HIDE DEF T
<1>3. r \in Seq(T)
  BY <1>1, <1>2, SeqDef
<1> QED  BY <1>3 DEF IsQueue

LEMMA BlocksLeft ==
    ASSUME NEW S, NEW q \in Seq(S)
    PROVE  /\ q # <<>> => Head(q) \in S /\ Tail(q) \in Seq(S)
           /\ \A block \in S : Append(q, block) \in Seq(S)
BY HeadTailProperties, AppendProperties

-----------------------------------------------------------------------------
(* ManifestResolver: a resolution *)

ResolutionFields ==
    {"purpose", "asked", "fallbacks", "agenda", "fetching", "primary", "chain", "resolved",
     "warnings", "answers", "error"}

Obtainable == Manifest \cup {NoManifest}

\* A step asks for an identifier; an item's includes are identifiers.
SoundStep(step) ==
    /\ step.does \in GetSteps => step.of \in Identifier
    /\ step.does = "evaluate" => step.of.includes \in Seq(Identifier)

ChainOnce(chain) == \A j, k \in DOMAIN chain : chain[j].name = chain[k].name => j = k

\* An include that has been answered with a manifest of the chain, or is warned about.
Tended(chain, given, warnings, include) ==
    \/ \E l \in DOMAIN chain : <<include, chain[l].name>> \in given
    \/ include \in warnings

\* Every other include of the chain is still on the agenda.
IncludesTended(chain, agenda, given, warnings) ==
    \A k \in DOMAIN chain : \A j \in DOMAIN chain[k].includes :
        \/ Tended(chain, given, warnings, chain[k].includes[j])
        \/ Has(agenda, Get(chain[k].includes[j]))

ResolutionInv(work) ==
    /\ DOMAIN work = ResolutionFields
    /\ work.fallbacks \in Seq(Identifier) /\ work.primary \in Obtainable
    /\ IsQueue(work.chain) /\ IsQueue(work.agenda)
    /\ \A step : Has(work.agenda, step) => SoundStep(step)
    /\ work.fetching => Gets(work)
    /\ ChainOnce(work.chain)
    /\ work.error = "none" =>
          IncludesTended(work.chain, work.agenda, work.answers, work.warnings)

ManifestInv ==
    /\ DOMAIN workers = Worker /\ \A w \in Worker : ResolutionInv(workers[w])
    /\ documents \in Sites /\ clientIdentifier \in ClientIdentifiers
    /\ DOMAIN bootstrap = {"attempt", "phase", "identifier"} /\ bootstrap.identifier \in Identifier
    /\ \A i \in Identifier : manifestCache[i] \in Obtainable
    /\ MissingCostsItself

LEMMA ObtainableManifest ==
    ASSUME NEW manifest \in Obtainable, manifest # NoManifest
    PROVE  /\ manifest.includes \in Seq(Identifier)
           /\ manifest.items \in Seq(Range(manifest.items))
           /\ \A k \in DOMAIN manifest.items : manifest.items[k].includes \in Seq(Identifier)
BY ManifestAssumption DEF Obtainable, IsManifest, IsConditionalItem

LEMMA BeginsSound ==
    ASSUME NEW purpose, NEW asker, NEW identifier \in Identifier,
           NEW fallbacks \in Seq(Identifier)
    PROVE  ResolutionInv(PerformResolve(purpose, asker, identifier, fallbacks))
<1> DEFINE work == PerformResolve(purpose, asker, identifier, fallbacks)
<1>1. /\ DOMAIN work = ResolutionFields
      /\ work.fallbacks = fallbacks /\ work.primary = NoManifest
      /\ work.agenda = <<GetPrimary(identifier)>> /\ work.chain = <<>>
      /\ work.fetching = FALSE
  BY DEF PerformResolve, ResolutionFields
<1>2. SoundStep(GetPrimary(identifier))
  BY DEF SoundStep, GetPrimary
<1>3. IsQueue(work.agenda) /\ \A step : Has(work.agenda, step) => SoundStep(step)
  BY <1>1, <1>2, HasOne
<1>4. ChainOnce(work.chain) /\ IsQueue(work.chain)
      /\ IncludesTended(work.chain, work.agenda, work.answers, work.warnings)
  BY <1>1, NothingInQueue DEF ChainOnce, IncludesTended
<1> HIDE DEF work
<1>5. ResolutionInv(work)
  BY <1>1, <1>3, <1>4 DEF ResolutionInv, Obtainable
<1> QED  BY <1>5 DEF work

LEMMA FallbacksSound ==
    ASSUME NEW identifier \in Identifier, NEW purpose
    PROVE  ResolutionInv(ResolveManifestWithFallback(purpose, identifier))
<1>1. FallbackIdentifiers(identifier) \in Seq(Identifier)
  <2> DEFINE a == IF SerialNumber = identifier THEN <<>> ELSE <<SerialNumber>>
             b == IF DefaultIdentifier \in {identifier, SerialNumber} THEN <<>>
                  ELSE <<DefaultIdentifier>>
  <2>1. a \in Seq(Identifier) /\ b \in Seq(Identifier)
    BY ManifestAssumption, EmptySeq
  <2> HIDE DEF a, b
  <2>2. a \o b \in Seq(Identifier)
    BY <2>1, ConcatProperties
  <2> QED  BY <2>2 DEF FallbackIdentifiers, a, b
<1> QED  BY <1>1, BeginsSound DEF ResolveManifestWithFallback

LEMMA IdleSound == ResolutionInv(Idle) /\ Idle.chain = <<>>
<1> DEFINE begun == PerformResolve("idle", DefaultIdentifier, DefaultIdentifier, <<>>)
<1>1. ResolutionInv(begun) /\ DOMAIN begun = ResolutionFields
  <2>1. DefaultIdentifier \in Identifier /\ <<>> \in Seq(Identifier)
    BY ManifestAssumption, EmptySeq
  <2> QED  BY <2>1, BeginsSound DEF ResolutionInv
<1>2. begun.chain = <<>> /\ begun.fetching = FALSE
  BY DEF PerformResolve
<1> HIDE DEF begun
<1>3. Idle = [begun EXCEPT !.agenda = <<>>]
  BY DEF Idle, begun
<1>4. /\ DOMAIN Idle = ResolutionFields /\ Idle.agenda = <<>> /\ Idle.chain = begun.chain
      /\ Idle.fallbacks = begun.fallbacks /\ Idle.primary = begun.primary
      /\ Idle.fetching = begun.fetching
  BY <1>1, <1>3 DEF ResolutionFields
<1> QED  BY <1>1, <1>2, <1>4, NothingInQueue DEF ResolutionInv, IncludesTended, ChainOnce

\* A chain is as good with a name that it did not have.
LEMMA LongerChain ==
    ASSUME NEW chain, IsQueue(chain), ChainOnce(chain), NEW manifest,
           \A k \in DOMAIN chain : chain[k].name # manifest.name
    PROVE  LET longer == Append(chain, manifest) IN
           /\ IsQueue(longer) /\ ChainOnce(longer)
           /\ \A m : Has(longer, m) <=> Has(chain, m) \/ m = manifest
<1> DEFINE longer == Append(chain, manifest)
           n == Len(chain) + 1
<1>1. /\ IsQueue(longer) /\ Len(chain) \in Nat
      /\ DOMAIN chain = 1 .. Len(chain) /\ DOMAIN longer = 1 .. n
      /\ \A i \in DOMAIN chain : longer[i] = chain[i]
      /\ longer[n] = manifest
  BY AppendedQueue
<1> HIDE DEF longer
<1>2. DOMAIN longer = DOMAIN chain \cup {n}
  BY <1>1
<1> HIDE DEF n
<1>3. ChainOnce(longer)
  BY <1>1, <1>2 DEF ChainOnce
<1>4. \A m : Has(longer, m) <=> Has(chain, m) \/ m = manifest
  BY <1>1, <1>2 DEF Has
<1> QED  BY <1>1, <1>3, <1>4 DEF longer

\* What a chain needs done, told by what is in it.
LEMMA TendedChain ==
    ASSUME NEW chain, NEW agenda, NEW given, NEW warnings
    PROVE  /\ IncludesTended(chain, agenda, given, warnings)
              <=> \A m : Has(chain, m) =>
                     \A j \in DOMAIN m.includes :
                        \/ Tended(chain, given, warnings, m.includes[j])
                        \/ Has(agenda, Get(m.includes[j]))
           /\ \A include : Tended(chain, given, warnings, include)
              <=> \/ \E m : Has(chain, m) /\ <<include, m.name>> \in given
                  \/ include \in warnings
BY DEF IncludesTended, Tended, Has

\* The steps a manifest adds to the agenda.
AgendaOf(manifest, rest) ==
    [k \in DOMAIN manifest.includes |-> Get(manifest.includes[k])]
    \o [k \in DOMAIN manifest.items |-> Evaluate(manifest.items[k])]
    \o <<Leave(manifest)>> \o rest

LEMMA AgendaSound ==
    ASSUME NEW manifest \in Obtainable, manifest # NoManifest,
           NEW rest, IsQueue(rest), \A step : Has(rest, step) => SoundStep(step)
    PROVE  LET agenda == AgendaOf(manifest, rest) IN
           /\ IsQueue(agenda)
           /\ \A step : Has(agenda, step) => SoundStep(step)
           /\ \A step : Has(rest, step) => Has(agenda, step)
           /\ \A j \in DOMAIN manifest.includes : Has(agenda, Get(manifest.includes[j]))
<1> DEFINE gets == [k \in DOMAIN manifest.includes |-> Get(manifest.includes[k])]
           items == [k \in DOMAIN manifest.items |-> Evaluate(manifest.items[k])]
           agenda == AgendaOf(manifest, rest)
<1>1. /\ manifest.includes \in Seq(Identifier)
      /\ manifest.items \in Seq(Range(manifest.items))
      /\ \A k \in DOMAIN manifest.items : manifest.items[k].includes \in Seq(Identifier)
  BY ObtainableManifest
<1>2. IsQueue(gets) /\ IsQueue(items)
  BY <1>1, MappedQueue
<1>3. \A step : Has(gets, step) => SoundStep(step)
  <2> SUFFICES ASSUME NEW k \in DOMAIN manifest.includes
               PROVE  SoundStep(Get(manifest.includes[k]))
    BY DEF Has
  <2>1. manifest.includes[k] \in Identifier
    BY <1>1, ElementOfSeq, LenProperties
  <2> QED  BY <2>1 DEF SoundStep, Get
<1>4. \A step : Has(items, step) => SoundStep(step)
  <2> SUFFICES ASSUME NEW k \in DOMAIN manifest.items
               PROVE  SoundStep(Evaluate(manifest.items[k]))
    BY DEF Has
  <2> QED  BY <1>1 DEF SoundStep, Evaluate, GetSteps
<1>5. \A step : Has(<<Leave(manifest)>>, step) => SoundStep(step)
  BY HasOne DEF SoundStep, Leave, GetSteps
<1>6. \A j \in DOMAIN manifest.includes : Has(gets, Get(manifest.includes[j]))
  BY DEF Has
<1>7. agenda = ((gets \o items) \o <<Leave(manifest)>>) \o rest
  BY DEF AgendaOf
<1> HIDE DEF gets, items, agenda
<1>8. /\ IsQueue(gets \o items)
      /\ \A x : Has(gets \o items, x) <=> Has(gets, x) \/ Has(items, x)
  BY <1>2, HasConcat
<1>9. /\ IsQueue((gets \o items) \o <<Leave(manifest)>>)
      /\ \A x : Has((gets \o items) \o <<Leave(manifest)>>, x)
                <=> Has(gets \o items, x) \/ Has(<<Leave(manifest)>>, x)
  BY <1>8, HasOne, HasConcat
<1>10. /\ IsQueue(agenda)
       /\ \A x : Has(agenda, x)
                 <=> Has((gets \o items) \o <<Leave(manifest)>>, x) \/ Has(rest, x)
  BY <1>7, <1>9, HasConcat
<1> QED  BY <1>3, <1>4, <1>5, <1>6, <1>8, <1>9, <1>10 DEF agenda

\* A resolution goes on as it should with what was asked for, or without it.
LEMMA ObtainedSound ==
    ASSUME NEW work, ResolutionInv(work), Gets(work), NEW manifest \in Obtainable
    PROVE  ResolutionInv(Obtained(work, manifest))
<1> DEFINE step == Head(work.agenda)
           rest == Tail(work.agenda)
           answered == IF manifest # NoManifest /\ step.does = "get"
                       THEN work.answers \cup {<<step.of, manifest.name>>} ELSE work.answers
           back == [work EXCEPT !.fetching = FALSE, !.answers = answered]
<1>1. /\ DOMAIN work = ResolutionFields
      /\ work.fallbacks \in Seq(Identifier) /\ work.primary \in Obtainable
      /\ IsQueue(work.chain) /\ IsQueue(work.agenda) /\ work.agenda # <<>>
      /\ \A s : Has(work.agenda, s) => SoundStep(s)
      /\ ChainOnce(work.chain)
      /\ work.error = "none" =>
            IncludesTended(work.chain, work.agenda, work.answers, work.warnings)
  BY DEF ResolutionInv, Gets
<1>2. IsQueue(rest) /\ \A s : Has(work.agenda, s) <=> s = step \/ Has(rest, s)
  BY <1>1, HasTail
<1>3. /\ DOMAIN back = ResolutionFields /\ back.fallbacks = work.fallbacks
      /\ back.primary = work.primary /\ back.chain = work.chain /\ back.agenda = work.agenda
      /\ back.error = work.error /\ back.warnings = work.warnings
      /\ back.fetching = FALSE /\ back.answers = answered
  BY <1>1 DEF ResolutionFields
<1>4. Obtained(work, manifest) =
        IF manifest # NoManifest
        THEN ResolveHierarchy(IF step.does = "getPrimary" THEN [back EXCEPT !.primary = manifest]
                              ELSE back, manifest, rest)
        ELSE CASE step.does = "getPrimary" ->
                    [back EXCEPT !.agenda = <<>>, !.error = "ManifestNotFound"]
               [] step.does = "get" ->
                    [back EXCEPT !.agenda = rest, !.warnings = @ \cup {step.of}]
               [] OTHER -> [back EXCEPT !.agenda = rest]
  BY DEF Obtained
<1> HIDE DEF back, rest
<1>5. CASE manifest = NoManifest
  <2>1. answered = work.answers
    BY <1>5
  <2> HIDE DEF step, answered
  <2>2. CASE step.does = "getPrimary"
    <3>1. Obtained(work, manifest) = [back EXCEPT !.agenda = <<>>, !.error = "ManifestNotFound"]
      BY <1>4, <1>5, <2>2
    <3> DEFINE done == [back EXCEPT !.agenda = <<>>, !.error = "ManifestNotFound"]
    <3>2. /\ DOMAIN done = ResolutionFields /\ done.fallbacks = work.fallbacks
          /\ done.primary = work.primary /\ done.chain = work.chain /\ done.agenda = <<>>
          /\ done.error = "ManifestNotFound" /\ done.fetching = FALSE
      BY <1>3 DEF ResolutionFields
    <3> HIDE DEF done
    <3>3. ResolutionInv(done)
      BY <1>1, <3>2, NothingInQueue DEF ResolutionInv
    <3> QED  BY <3>1, <3>3 DEF done
  <2>3. CASE step.does = "get"
    <3> DEFINE done == [back EXCEPT !.agenda = rest, !.warnings = @ \cup {step.of}]
    <3>1. Obtained(work, manifest) = done
      BY <1>4, <1>5, <2>3
    <3>2. /\ DOMAIN done = ResolutionFields /\ done.fallbacks = work.fallbacks
          /\ done.primary = work.primary /\ done.chain = work.chain /\ done.agenda = rest
          /\ done.error = work.error /\ done.fetching = FALSE
          /\ done.answers = work.answers /\ done.warnings = work.warnings \cup {step.of}
      BY <1>3, <2>1 DEF ResolutionFields
    <3> HIDE DEF done
    <3>3. \A include : Get(include) = step => include = step.of
      BY DEF Get
    <3>4. IncludesTended(work.chain, work.agenda, work.answers, work.warnings)
          => IncludesTended(done.chain, done.agenda, done.answers, done.warnings)
      BY <1>2, <3>2, <3>3 DEF IncludesTended, Tended
    <3>5. ResolutionInv(done)
      BY <1>1, <1>2, <3>2, <3>4 DEF ResolutionInv
    <3> QED  BY <3>1, <3>5
  <2>4. CASE step.does \notin {"get", "getPrimary"}
    <3> DEFINE done == [back EXCEPT !.agenda = rest]
    <3>1. Obtained(work, manifest) = done
      BY <1>4, <1>5, <2>4
    <3>2. /\ DOMAIN done = ResolutionFields /\ done.fallbacks = work.fallbacks
          /\ done.primary = work.primary /\ done.chain = work.chain /\ done.agenda = rest
          /\ done.error = work.error /\ done.fetching = FALSE
          /\ done.answers = work.answers /\ done.warnings = work.warnings
      BY <1>3, <2>1 DEF ResolutionFields
    <3> HIDE DEF done
    <3>3. \A include : Get(include) # step
      BY <2>4 DEF Get
    <3>4. IncludesTended(work.chain, work.agenda, work.answers, work.warnings)
          => IncludesTended(done.chain, done.agenda, done.answers, done.warnings)
      BY <1>2, <3>2, <3>3 DEF IncludesTended, Tended
    <3>5. ResolutionInv(done)
      BY <1>1, <1>2, <3>2, <3>4 DEF ResolutionInv
    <3> QED  BY <3>1, <3>5
  <2> QED  BY <2>2, <2>3, <2>4
<1>6. CASE manifest # NoManifest
  <2> DEFINE known == IF step.does = "getPrimary" THEN [back EXCEPT !.primary = manifest]
                      ELSE back
  <2>1. Obtained(work, manifest) = ResolveHierarchy(known, manifest, rest)
    BY <1>4, <1>6
  <2>2. /\ DOMAIN known = ResolutionFields /\ known.fallbacks = work.fallbacks
        /\ known.primary \in Obtainable /\ known.chain = work.chain
        /\ known.agenda = work.agenda /\ known.error = work.error
        /\ known.warnings = work.warnings /\ known.fetching = FALSE
        /\ known.answers = answered
    BY <1>1, <1>3 DEF ResolutionFields
  <2>3. work.answers \subseteq answered
    OBVIOUS
  <2>4. \A include : Get(include) = step => <<include, manifest.name>> \in answered
    BY <1>6 DEF Get
  <2> HIDE DEF known, answered, step
  <2>5. CASE manifest.name \in ProcessingIdentifiers(known)
    <3> DEFINE done == [known EXCEPT !.agenda = <<>>, !.error = "CircularDependency"]
    <3>1. Obtained(work, manifest) = done
      BY <2>1, <2>5 DEF ResolveHierarchy
    <3>2. /\ DOMAIN done = ResolutionFields /\ done.fallbacks = work.fallbacks
          /\ done.primary \in Obtainable /\ done.chain = work.chain /\ done.agenda = <<>>
          /\ done.error = "CircularDependency" /\ done.fetching = FALSE
      BY <2>2 DEF ResolutionFields
    <3> HIDE DEF done
    <3>3. ResolutionInv(done)
      BY <1>1, <3>2, NothingInQueue DEF ResolutionInv
    <3> QED  BY <3>1, <3>3
  <2>6. CASE /\ manifest.name \notin ProcessingIdentifiers(known)
             /\ manifest.name \in VisitedIdentifiers(known)
    <3> DEFINE done == [known EXCEPT !.agenda = rest]
    <3>1. Obtained(work, manifest) = done
      BY <2>1, <2>6 DEF ResolveHierarchy
    <3>2. /\ DOMAIN done = ResolutionFields /\ done.fallbacks = work.fallbacks
          /\ done.primary \in Obtainable /\ done.chain = work.chain /\ done.agenda = rest
          /\ done.error = work.error /\ done.fetching = FALSE
          /\ done.answers = answered /\ done.warnings = work.warnings
      BY <2>2 DEF ResolutionFields
    <3> HIDE DEF done
    <3>3. PICK l \in DOMAIN work.chain : work.chain[l].name = manifest.name
      BY <2>2, <2>6 DEF VisitedIdentifiers
    <3>4. IncludesTended(work.chain, work.agenda, work.answers, work.warnings)
          => IncludesTended(done.chain, done.agenda, done.answers, done.warnings)
      BY <1>2, <2>3, <2>4, <3>2, <3>3 DEF IncludesTended, Tended
    <3>5. ResolutionInv(done)
      BY <1>1, <1>2, <3>2, <3>4 DEF ResolutionInv
    <3> QED  BY <3>1, <3>5
  <2>7. CASE manifest.name \notin ProcessingIdentifiers(known) \cup VisitedIdentifiers(known)
    <3> DEFINE longer == Append(work.chain, manifest)
               agenda == AgendaOf(manifest, rest)
               done == [known EXCEPT !.chain = longer, !.agenda = agenda]
    <3>1. Obtained(work, manifest) = done
      BY <2>1, <2>2, <2>7 DEF ResolveHierarchy, AgendaOf
    <3>2. \A k \in DOMAIN work.chain : work.chain[k].name # manifest.name
      BY <2>2, <2>7 DEF VisitedIdentifiers
    <3>3. /\ IsQueue(longer) /\ ChainOnce(longer)
          /\ \A m : Has(longer, m) <=> Has(work.chain, m) \/ m = manifest
      BY <1>1, <3>2, LongerChain
    <3>4. /\ IsQueue(agenda)
          /\ \A s : Has(agenda, s) => SoundStep(s)
          /\ \A s : Has(rest, s) => Has(agenda, s)
          /\ \A j \in DOMAIN manifest.includes : Has(agenda, Get(manifest.includes[j]))
      BY <1>1, <1>2, <1>6, AgendaSound
    <3> HIDE DEF longer, agenda
    <3>5. /\ DOMAIN done = ResolutionFields /\ done.fallbacks = work.fallbacks
          /\ done.primary \in Obtainable /\ done.chain = longer /\ done.agenda = agenda
          /\ done.error = work.error /\ done.fetching = FALSE
          /\ done.answers = answered /\ done.warnings = work.warnings
      BY <2>2 DEF ResolutionFields
    <3> HIDE DEF done
    <3>6. ASSUME IncludesTended(work.chain, work.agenda, work.answers, work.warnings)
          PROVE  IncludesTended(longer, agenda, answered, work.warnings)
      <4>1. ASSUME NEW m, Has(work.chain, m), NEW j \in DOMAIN m.includes
            PROVE  \/ Tended(work.chain, work.answers, work.warnings, m.includes[j])
                   \/ Has(work.agenda, Get(m.includes[j]))
        BY <3>6, <4>1, TendedChain
      <4>2. ASSUME NEW include, Tended(work.chain, work.answers, work.warnings, include)
            PROVE  Tended(longer, answered, work.warnings, include)
        BY <2>3, <3>3, <4>2, TendedChain
      <4>3. ASSUME NEW include, Has(work.agenda, Get(include))
            PROVE  Tended(longer, answered, work.warnings, include) \/ Has(agenda, Get(include))
        <5>1. CASE Get(include) = step
          <6>1. <<include, manifest.name>> \in answered /\ Has(longer, manifest)
            BY <2>4, <3>3, <5>1
          <6> QED  BY <6>1, TendedChain
        <5>2. CASE Get(include) # step
          BY <1>2, <3>4, <4>3, <5>2
        <5> QED  BY <5>1, <5>2
      <4>4. ASSUME NEW m, Has(longer, m), NEW j \in DOMAIN m.includes
            PROVE  \/ Tended(longer, answered, work.warnings, m.includes[j])
                   \/ Has(agenda, Get(m.includes[j]))
        <5>1. CASE m = manifest
          BY <3>4, <5>1
        <5>2. CASE Has(work.chain, m)
          BY <4>1, <4>2, <4>3, <5>2
        <5> QED  BY <3>3, <4>4, <5>1, <5>2
      <4> QED  BY <4>4, TendedChain
    <3>7. ResolutionInv(done)
      BY <1>1, <3>3, <3>4, <3>5, <3>6 DEF ResolutionInv
    <3> QED  BY <3>1, <3>7
  <2> QED  BY <2>5, <2>6, <2>7
<1> QED  BY <1>5, <1>6

\* A resolution waits for a fetch, or becomes another manager's business.
LEMMA MarkedSound ==
    ASSUME NEW work, ResolutionInv(work)
    PROVE  /\ Gets(work) => ResolutionInv([work EXCEPT !.fetching = TRUE])
           /\ \A purpose : ResolutionInv([work EXCEPT !.purpose = purpose])
<1>1. DOMAIN work = ResolutionFields
  BY DEF ResolutionInv
<1>2. ASSUME NEW done, DOMAIN done = ResolutionFields,
             \A f \in ResolutionFields \ {"purpose", "fetching"} : done[f] = work[f],
             done.fetching => Gets(work)
      PROVE  ResolutionInv(done)
  <2>1. /\ done.fallbacks = work.fallbacks /\ done.primary = work.primary
        /\ done.chain = work.chain /\ done.agenda = work.agenda /\ done.error = work.error
        /\ done.answers = work.answers /\ done.warnings = work.warnings
    BY <1>2 DEF ResolutionFields
  <2> QED  BY <1>2, <2>1 DEF ResolutionInv, Gets
<1>3. ASSUME Gets(work)
      PROVE  ResolutionInv([work EXCEPT !.fetching = TRUE])
  <2> DEFINE done == [work EXCEPT !.fetching = TRUE]
  <2>1. /\ DOMAIN done = ResolutionFields
        /\ \A f \in ResolutionFields \ {"purpose", "fetching"} : done[f] = work[f]
    BY <1>1
  <2> HIDE DEF done
  <2>2. ResolutionInv(done)
    BY <1>2, <1>3, <2>1
  <2> QED  BY <2>2 DEF done
<1>4. ASSUME NEW purpose
      PROVE  ResolutionInv([work EXCEPT !.purpose = purpose])
  <2> DEFINE done == [work EXCEPT !.purpose = purpose]
  <2>1. /\ DOMAIN done = ResolutionFields
        /\ \A f \in ResolutionFields \ {"purpose", "fetching"} : done[f] = work[f]
        /\ done.fetching => Gets(work)
    BY <1>1 DEF ResolutionInv, ResolutionFields
  <2> HIDE DEF done
  <2>2. ResolutionInv(done)
    BY <1>2, <2>1
  <2> QED  BY <2>2 DEF done
<1> QED  BY <1>3, <1>4

\* A step that asks for nothing is done, and may put others in its place.
LEMMA DoneSound ==
    ASSUME NEW work, ResolutionInv(work), work.agenda # <<>>,
           Head(work.agenda).does \notin GetSteps,
           NEW added, IsQueue(added), \A step : Has(added, step) => SoundStep(step),
           NEW resolved
    PROVE  ResolutionInv([work EXCEPT !.agenda = added \o Tail(work.agenda),
                                      !.resolved = resolved])
<1> DEFINE rest == Tail(work.agenda)
           agenda == added \o rest
           done == [work EXCEPT !.agenda = agenda, !.resolved = resolved]
<1>1. /\ DOMAIN work = ResolutionFields
      /\ work.fallbacks \in Seq(Identifier) /\ work.primary \in Obtainable
      /\ IsQueue(work.chain) /\ IsQueue(work.agenda)
      /\ \A step : Has(work.agenda, step) => SoundStep(step)
      /\ ~work.fetching /\ ChainOnce(work.chain)
      /\ work.error = "none" =>
            IncludesTended(work.chain, work.agenda, work.answers, work.warnings)
  BY DEF ResolutionInv, Gets
<1>2. /\ IsQueue(rest)
      /\ \A step : Has(work.agenda, step) <=> step = Head(work.agenda) \/ Has(rest, step)
  BY <1>1, HasTail
<1>3. IsQueue(agenda) /\ \A step : Has(agenda, step) <=> Has(added, step) \/ Has(rest, step)
  BY <1>2, HasConcat
<1> HIDE DEF rest, agenda
<1>4. /\ DOMAIN done = ResolutionFields /\ done.fallbacks = work.fallbacks
      /\ done.primary = work.primary /\ done.chain = work.chain /\ done.agenda = agenda
      /\ done.error = work.error /\ done.fetching = work.fetching
      /\ done.answers = work.answers /\ done.warnings = work.warnings
  BY <1>1 DEF ResolutionFields
<1> HIDE DEF done
<1>5. \A include : Get(include) # Head(work.agenda)
  BY DEF Get, GetSteps
<1>6. IncludesTended(work.chain, work.agenda, work.answers, work.warnings)
      => IncludesTended(done.chain, done.agenda, done.answers, done.warnings)
  BY <1>2, <1>3, <1>4, <1>5 DEF IncludesTended, Tended
<1>7. ResolutionInv(done)
  BY <1>1, <1>2, <1>3, <1>4, <1>6 DEF ResolutionInv
<1> QED  BY <1>7 DEF done, agenda, rest

-----------------------------------------------------------------------------
(* ManifestResolver: the steps *)

LEMMA ManifestStep == ManifestInv /\ [ManifestNext]_manifestVars => ManifestInv'
<1> SUFFICES ASSUME ManifestInv, [ManifestNext]_manifestVars
             PROVE  ManifestInv'
  OBVIOUS
<1>1. /\ DOMAIN workers = Worker /\ \A w \in Worker : ResolutionInv(workers[w])
      /\ documents \in Sites /\ clientIdentifier \in Identifier
      /\ clientIdentifier \in ClientIdentifiers
      /\ DOMAIN bootstrap = {"attempt", "phase", "identifier"}
      /\ bootstrap.identifier \in Identifier
      /\ \A i \in Identifier : manifestCache[i] \in Obtainable
      /\ \A i \in Identifier : documents[i] \in Obtainable
      /\ MissingCostsItself
  BY ManifestAssumption DEF ManifestInv, Obtainable
<1> DEFINE SameBootstrap == /\ bootstrap'.identifier = bootstrap.identifier
                            /\ DOMAIN bootstrap' = {"attempt", "phase", "identifier"}
<1>2. ASSUME NEW w \in Worker, NEW work, ResolutionInv(work),
             workers' = [workers EXCEPT ![w] = work]
      PROVE  DOMAIN workers' = Worker /\ \A v \in Worker : ResolutionInv(workers'[v])
  BY <1>1, <1>2
<1>3. ASSUME UNCHANGED currentResolvedManifest
      PROVE  MissingCostsItself'
  BY <1>1, <1>3 DEF MissingCostsItself
<1>4. ASSUME NEW w \in Worker, Gets(workers[w])
      PROVE  Head(workers[w].agenda).of \in Identifier
  <2>1. /\ IsQueue(workers[w].agenda) /\ workers[w].agenda # <<>>
        /\ Head(workers[w].agenda).does \in GetSteps
        /\ \A step : Has(workers[w].agenda, step) => SoundStep(step)
    BY <1>1, <1>4 DEF ResolutionInv, Gets
  <2>2. SoundStep(Head(workers[w].agenda))
    BY <2>1, HasTail
  <2> QED  BY <2>1, <2>2 DEF SoundStep
<1>5. ASSUME NEW w \in Worker, Gets(workers[w]), NEW manifest \in Obtainable, Obtain(w, manifest)
      PROVE  DOMAIN workers' = Worker /\ \A v \in Worker : ResolutionInv(workers'[v])
  <2>1. workers' = [workers EXCEPT ![w] = Obtained(workers[w], manifest)]
    BY <1>5 DEF Obtain
  <2> QED  BY <1>1, <1>2, <1>5, <2>1, ObtainedSound
<1>6. ASSUME NEW w \in Worker, workers[w].fetching
      PROVE  Gets(workers[w])
  BY <1>1, <1>6 DEF ResolutionInv
<1>7. ASSUME NEW w \in Worker, LookUp(w)
      PROVE  ManifestInv'
  <2>1. /\ Gets(workers[w])
        /\ UNCHANGED <<documents, clientIdentifier, bootstrap, manifestCache,
                       currentResolvedManifest>>
    BY <1>7 DEF LookUp, caches, current, surroundings
  <2> DEFINE identifier == Head(workers[w].agenda).of
  <2>2. CASE Obtain(w, manifestCache[identifier])
    <3>1. identifier \in Identifier
      BY <1>4, <2>1
    <3> HIDE DEF identifier
    <3>2. DOMAIN workers' = Worker /\ \A v \in Worker : ResolutionInv(workers'[v])
      BY <1>1, <1>5, <2>1, <2>2, <3>1
    <3> QED  BY <1>1, <1>3, <2>1, <3>2 DEF ManifestInv
  <2>3. CASE workers' = [workers EXCEPT ![w].fetching = TRUE]
    <3> DEFINE work == [workers[w] EXCEPT !.fetching = TRUE]
    <3>1. workers' = [workers EXCEPT ![w] = work]
      BY <2>3
    <3>2. ResolutionInv(work)
      BY <1>1, <2>1, MarkedSound
    <3> HIDE DEF work
    <3>3. DOMAIN workers' = Worker /\ \A v \in Worker : ResolutionInv(workers'[v])
      BY <1>2, <3>1, <3>2
    <3> QED  BY <1>1, <1>3, <2>1, <3>3 DEF ManifestInv
  <2> QED  BY <1>7, <2>2, <2>3 DEF LookUp
<1>8. ASSUME NEW w \in Worker, FetchFinds(w)
      PROVE  ManifestInv'
  <2> DEFINE identifier == Head(workers[w].agenda).of
  <2>1. /\ workers[w].fetching /\ CacheManifest(documents[identifier], identifier)
        /\ Obtain(w, documents[identifier])
        /\ UNCHANGED <<documents, clientIdentifier, bootstrap, currentResolvedManifest>>
    BY <1>8 DEF FetchFinds, current, surroundings
  <2>2. Gets(workers[w]) /\ identifier \in Identifier
    BY <1>4, <1>6, <2>1
  <2> HIDE DEF identifier
  <2>3. documents[identifier] \in Obtainable
    BY <1>1, <2>2
  <2>4. DOMAIN workers' = Worker /\ \A v \in Worker : ResolutionInv(workers'[v])
    BY <1>5, <2>1, <2>2, <2>3
  <2>5. \A i \in Identifier : manifestCache'[i] \in Obtainable
    BY <1>1, <2>1, <2>3 DEF CacheManifest
  <2> QED  BY <1>1, <1>3, <2>1, <2>4, <2>5 DEF ManifestInv
<1>9. ASSUME NEW w \in Worker, FetchNotFound(w) \/ FetchFails(w)
      PROVE  ManifestInv'
  <2> DEFINE identifier == Head(workers[w].agenda).of
  <2>1. /\ workers[w].fetching /\ FallBackToCache(w, identifier)
        /\ UNCHANGED <<documents, clientIdentifier, bootstrap, currentResolvedManifest>>
    BY <1>9 DEF FetchNotFound, FetchFails, current, surroundings
  <2>2. Gets(workers[w]) /\ identifier \in Identifier
    BY <1>4, <1>6, <2>1
  <2> HIDE DEF identifier
  <2>3. Obtain(w, manifestCache[identifier]) /\ UNCHANGED manifestCache
    BY <2>1 DEF FallBackToCache
  <2>4. DOMAIN workers' = Worker /\ \A v \in Worker : ResolutionInv(workers'[v])
    BY <1>1, <1>5, <2>2, <2>3
  <2> QED  BY <1>1, <1>3, <2>1, <2>3, <2>4 DEF ManifestInv
<1>10. ASSUME NEW w \in Worker, EvaluateItem(w)
       PROVE  ManifestInv'
  <2> DEFINE agenda == workers[w].agenda
             item == Head(agenda).of
             includes == [k \in DOMAIN item.includes |-> GetConditional(item.includes[k])]
             none == <<>>
             resolved == WithAdded(workers[w].resolved, item)
  <2>1. /\ agenda # <<>> /\ Head(agenda).does = "evaluate"
        /\ UNCHANGED <<documents, clientIdentifier, bootstrap, manifestCache,
                       currentResolvedManifest>>
    BY <1>10 DEF EvaluateItem, caches, current, surroundings
  <2>2. /\ ResolutionInv(workers[w]) /\ IsQueue(agenda) /\ Head(agenda).does \notin GetSteps
        /\ DOMAIN workers[w] = ResolutionFields
    BY <1>1, <2>1 DEF ResolutionInv, GetSteps
  <2>3. CASE item.condition \in evaluationContext
    <3>1. SoundStep(Head(agenda))
      BY <2>1, <2>2, HasTail DEF ResolutionInv
    <3>2. item.includes \in Seq(Identifier)
      BY <2>1, <3>1 DEF SoundStep
    <3>3. IsQueue(includes)
      BY <3>2, MappedQueue
    <3>4. \A step : Has(includes, step) => SoundStep(step)
      <4> SUFFICES ASSUME NEW k \in DOMAIN item.includes
                   PROVE  SoundStep(GetConditional(item.includes[k]))
        BY DEF Has
      <4>1. item.includes[k] \in Identifier
        BY <3>2, ElementOfSeq, LenProperties
      <4> QED  BY <4>1 DEF SoundStep, GetConditional
    <3> DEFINE work == [workers[w] EXCEPT !.agenda = includes \o Tail(workers[w].agenda),
                                          !.resolved = resolved]
    <3>5. workers' = [workers EXCEPT ![w] = work]
      BY <1>1, <1>10, <2>2, <2>3 DEF EvaluateItem, ResolutionFields
    <3> HIDE DEF includes, resolved
    <3>6. ResolutionInv(work)
      BY <2>1, <2>2, <3>3, <3>4, DoneSound
    <3> HIDE DEF work
    <3>7. DOMAIN workers' = Worker /\ \A v \in Worker : ResolutionInv(workers'[v])
      BY <1>2, <3>5, <3>6
    <3> QED  BY <1>1, <1>3, <2>1, <3>7 DEF ManifestInv
  <2>4. CASE item.condition \notin evaluationContext
    <3> DEFINE work == [workers[w] EXCEPT !.agenda = none \o Tail(workers[w].agenda),
                                          !.resolved = workers[w].resolved]
    <3>1. none \o Tail(workers[w].agenda) = Tail(workers[w].agenda)
      BY <2>1, <2>2, TailOfQueue, ConcatEmptySeq DEF IsQueue
    <3>2. workers' = [workers EXCEPT ![w] = work]
      <4>1. workers' = [workers EXCEPT ![w] = [workers[w] EXCEPT !.agenda = Tail(agenda)]]
        BY <1>10, <2>4 DEF EvaluateItem
      <4>2. [workers[w] EXCEPT !.agenda = Tail(agenda)] = work
        BY <2>2, <3>1 DEF ResolutionFields
      <4> HIDE DEF work
      <4> QED  BY <4>1, <4>2
    <3>3. ResolutionInv(work)
      BY <2>1, <2>2, NothingInQueue, DoneSound
    <3> HIDE DEF work
    <3>4. DOMAIN workers' = Worker /\ \A v \in Worker : ResolutionInv(workers'[v])
      BY <1>2, <3>2, <3>3
    <3> QED  BY <1>1, <1>3, <2>1, <3>4 DEF ManifestInv
  <2> QED  BY <2>3, <2>4
<1>11. ASSUME NEW w \in Worker, LeaveManifest(w)
       PROVE  ManifestInv'
  <2> DEFINE agenda == workers[w].agenda
             none == <<>>
             resolved == WithAdded(workers[w].resolved, Head(agenda).of)
             work == [workers[w] EXCEPT !.agenda = none \o Tail(agenda), !.resolved = resolved]
  <2>1. /\ agenda # <<>> /\ Head(agenda).does = "leave"
        /\ UNCHANGED <<documents, clientIdentifier, bootstrap, manifestCache,
                       currentResolvedManifest>>
    BY <1>11 DEF LeaveManifest, caches, current, surroundings
  <2>2. /\ ResolutionInv(workers[w]) /\ IsQueue(agenda) /\ Head(agenda).does \notin GetSteps
        /\ DOMAIN workers[w] = ResolutionFields
    BY <1>1, <2>1 DEF ResolutionInv, GetSteps
  <2>3. none \o Tail(agenda) = Tail(agenda)
    BY <2>1, <2>2, TailOfQueue, ConcatEmptySeq DEF IsQueue
  <2>4. workers' = [workers EXCEPT ![w] = work]
    <3>1. workers' = [workers EXCEPT ![w] = [workers[w] EXCEPT !.agenda = Tail(agenda),
                                                              !.resolved = resolved]]
      BY <1>11, <2>2 DEF LeaveManifest, ResolutionFields
    <3> QED  BY <2>3, <3>1
  <2> HIDE DEF resolved
  <2>5. ResolutionInv(work)
    BY <2>1, <2>2, NothingInQueue, DoneSound
  <2> HIDE DEF work
  <2>6. DOMAIN workers' = Worker /\ \A v \in Worker : ResolutionInv(workers'[v])
    BY <1>2, <2>4, <2>5
  <2> QED  BY <1>1, <1>3, <2>1, <2>6 DEF ManifestInv
<1>12. ASSUME NEW w \in Worker, ResolutionFails(w)
       PROVE  ManifestInv'
  <2> DEFINE work == workers[w]
  <2>1. /\ work.fallbacks \in Seq(Identifier)
        /\ UNCHANGED <<documents, clientIdentifier, manifestCache, currentResolvedManifest>>
    BY <1>1, <1>12 DEF ResolutionFails, ResolutionInv, caches, current, surroundings
  <2>2. CASE work.fallbacks # <<>>
    <3> DEFINE next == PerformResolve(work.purpose, work.asked, Head(work.fallbacks),
                                      Tail(work.fallbacks))
    <3>1. workers' = [workers EXCEPT ![w] = next] /\ UNCHANGED bootstrap
      BY <1>12, <2>2 DEF ResolutionFails
    <3>2. Head(work.fallbacks) \in Identifier /\ Tail(work.fallbacks) \in Seq(Identifier)
      BY <2>1, <2>2, HeadTailProperties
    <3>3. ResolutionInv(next)
      BY <3>2, BeginsSound
    <3> HIDE DEF next
    <3>4. DOMAIN workers' = Worker /\ \A v \in Worker : ResolutionInv(workers'[v])
      BY <1>2, <3>1, <3>3
    <3> QED  BY <1>1, <1>3, <2>1, <3>1, <3>4 DEF ManifestInv
  <2>3. CASE work.fallbacks = <<>>
    <3>1. workers' = [workers EXCEPT ![w] = Idle]
      BY <1>12, <2>3 DEF ResolutionFails
    <3>2. SameBootstrap
      BY <1>1, <1>12, <2>3 DEF ResolutionFails
    <3>3. DOMAIN workers' = Worker /\ \A v \in Worker : ResolutionInv(workers'[v])
      BY <1>2, <3>1, IdleSound
    <3> QED  BY <1>1, <1>3, <2>1, <3>2, <3>3 DEF ManifestInv
  <2> QED  BY <2>2, <2>3
<1>13. ASSUME NEW w \in Worker, LoadManifest(w)
       PROVE  ManifestInv'
  <2>1. /\ workers' = [workers EXCEPT ![w].purpose = "publish"]
        /\ SameBootstrap
        /\ UNCHANGED <<documents, clientIdentifier, manifestCache, currentResolvedManifest>>
    BY <1>1, <1>13 DEF LoadManifest, caches, surroundings
  <2>2. ResolutionInv([workers[w] EXCEPT !.purpose = "publish"])
    BY <1>1, MarkedSound
  <2>3. DOMAIN workers' = Worker /\ \A v \in Worker : ResolutionInv(workers'[v])
    BY <1>2, <2>1, <2>2
  <2> QED  BY <1>1, <1>3, <2>1, <2>3 DEF ManifestInv
<1>14. ASSUME NEW w \in Worker, ReloadManifest(w)
       PROVE  ManifestInv'
  <2>1. /\ \/ workers' = [workers EXCEPT ![w] = Idle]
           \/ workers' = [workers EXCEPT ![w].purpose = "republish"]
        /\ UNCHANGED <<documents, clientIdentifier, bootstrap, manifestCache,
                       currentResolvedManifest>>
    BY <1>14 DEF ReloadManifest, caches, surroundings
  <2>2. ResolutionInv([workers[w] EXCEPT !.purpose = "republish"])
    BY <1>1, MarkedSound
  <2>3. DOMAIN workers' = Worker /\ \A v \in Worker : ResolutionInv(workers'[v])
    BY <1>2, <2>1, <2>2, IdleSound
  <2> QED  BY <1>1, <1>3, <2>1, <2>3 DEF ManifestInv
<1>15. ASSUME NEW w \in Worker, StoreManifest(w)
       PROVE  ManifestInv'
  <2>1. /\ workers[w].agenda = <<>> /\ workers[w].error = "none"
        /\ currentResolvedManifest' = workers[w]
        /\ workers' = [workers EXCEPT ![w] = Idle]
        /\ UNCHANGED <<documents, clientIdentifier, bootstrap, manifestCache>>
    BY <1>15 DEF StoreManifest, Resolved, caches, surroundings
  <2>2. DOMAIN workers' = Worker /\ \A v \in Worker : ResolutionInv(workers'[v])
    BY <1>2, <2>1, IdleSound
  <2>3. IncludesTended(workers[w].chain, <<>>, workers[w].answers, workers[w].warnings)
    BY <1>1, <2>1 DEF ResolutionInv
  <2>4. MissingCostsItself'
    BY <2>1, <2>3, NothingInQueue DEF IncludesTended, Tended, MissingCostsItself
  <2> QED  BY <1>1, <2>1, <2>2, <2>4 DEF ManifestInv
<1>16. ASSUME NEW w \in Worker, CacheInclude(w)
       PROVE  ManifestInv'
  <2>1. PICK i \in Identifier :
            workers' = [workers EXCEPT ![w] = ResolveManifestWithFallback("include", i)]
    BY <1>16 DEF CacheInclude
  <2>2. UNCHANGED <<documents, clientIdentifier, bootstrap, manifestCache,
                    currentResolvedManifest>>
    BY <1>16 DEF CacheInclude, current, surroundings
  <2>3. DOMAIN workers' = Worker /\ \A v \in Worker : ResolutionInv(workers'[v])
    BY <1>2, <2>1, FallbacksSound
  <2> QED  BY <1>1, <1>3, <2>2, <2>3 DEF ManifestInv
<1>17. ASSUME NEW w \in Worker, IncludeCached(w)
       PROVE  ManifestInv'
  <2>1. /\ CacheManifest(workers[w].primary, workers[w].asked)
        /\ workers' = [workers EXCEPT ![w] = Idle]
        /\ UNCHANGED <<documents, clientIdentifier, bootstrap, currentResolvedManifest>>
    BY <1>17 DEF IncludeCached, current, surroundings
  <2>2. workers[w].primary \in Obtainable
    BY <1>1 DEF ResolutionInv
  <2>3. \A i \in Identifier : manifestCache'[i] \in Obtainable
    BY <1>1, <2>1, <2>2 DEF CacheManifest
  <2>4. DOMAIN workers' = Worker /\ \A v \in Worker : ResolutionInv(workers'[v])
    BY <1>2, <2>1, IdleSound
  <2> QED  BY <1>1, <1>3, <2>1, <2>3, <2>4 DEF ManifestInv
<1>18. ASSUME NEW w \in Worker, TimerFires(w)
       PROVE  ManifestInv'
  <2>1. /\ \E purpose : workers' =
              [workers EXCEPT ![w] = ResolveManifestWithFallback(purpose, clientIdentifier)]
        /\ UNCHANGED <<documents, clientIdentifier, bootstrap, manifestCache,
                       currentResolvedManifest>>
    BY <1>18 DEF TimerFires, caches, current
  <2>2. DOMAIN workers' = Worker /\ \A v \in Worker : ResolutionInv(workers'[v])
    BY <1>1, <1>2, <2>1, FallbacksSound
  <2> QED  BY <1>1, <1>3, <2>1, <2>2 DEF ManifestInv
<1>19. ASSUME NEW w \in Worker, BootstrapRetry(w)
       PROVE  ManifestInv'
  <2>1. /\ \/ UNCHANGED workers
           \/ workers' = [workers EXCEPT ![w] =
                 ResolveManifestWithFallback("bootstrap", bootstrap.identifier)]
        /\ SameBootstrap
        /\ UNCHANGED <<documents, clientIdentifier, manifestCache, currentResolvedManifest>>
    BY <1>1, <1>19 DEF BootstrapRetry, caches, current, surroundings
  <2>2. DOMAIN workers' = Worker /\ \A v \in Worker : ResolutionInv(workers'[v])
    BY <1>1, <1>2, <2>1, FallbacksSound
  <2> QED  BY <1>1, <1>3, <2>1, <2>2 DEF ManifestInv
<1>20. CASE SiteChanges
  <2>1. /\ documents' \in Sites /\ clientIdentifier' \in ClientIdentifiers
        /\ UNCHANGED <<workers, bootstrap, manifestCache, currentResolvedManifest>>
    BY <1>20 DEF SiteChanges, caches, current
  <2> QED  BY <1>1, <1>3, <2>1 DEF ManifestInv
<1>21. CASE RestartProxy
  <2>1. /\ workers' = Started(clientIdentifier) /\ bootstrap'.identifier = clientIdentifier
        /\ DOMAIN bootstrap' = {"attempt", "phase", "identifier"}
        /\ currentResolvedManifest' = Idle
        /\ UNCHANGED <<documents, clientIdentifier, manifestCache>>
    BY <1>21 DEF RestartProxy
  <2>2. DOMAIN workers' = Worker /\ \A v \in Worker : ResolutionInv(workers'[v])
    BY <1>1, <2>1, FallbacksSound, IdleSound DEF Started
  <2>3. MissingCostsItself'
    BY <2>1, IdleSound DEF MissingCostsItself
  <2> QED  BY <1>1, <2>1, <2>2, <2>3 DEF ManifestInv
<1>22. CASE \/ ScheduleBootstrapRetry \/ UpdateRulesFromCurrentManifest \/ CacheExpires
            \/ UNCHANGED manifestVars
  <2>1. /\ UNCHANGED <<workers, documents, clientIdentifier, manifestCache,
                       currentResolvedManifest>>
        /\ SameBootstrap
    BY <1>1, <1>22 DEF ScheduleBootstrapRetry, UpdateRulesFromCurrentManifest, CacheExpires,
                 manifestVars, caches, current, surroundings
  <2> QED  BY <1>1, <1>3, <2>1 DEF ManifestInv
<1> QED  BY <1>7, <1>8, <1>9, <1>10, <1>11, <1>12, <1>13, <1>14, <1>15, <1>16, <1>17, <1>18,
            <1>19, <1>20, <1>21, <1>22 DEF ManifestNext

LEMMA ManifestBegins == ManifestInit => ManifestInv
<1> SUFFICES ASSUME ManifestInit PROVE ManifestInv
  OBVIOUS
<1>1. documents \in Sites /\ clientIdentifier \in ClientIdentifiers
      /\ clientIdentifier \in Identifier /\ bootstrap.identifier = clientIdentifier
      /\ DOMAIN bootstrap = {"attempt", "phase", "identifier"}
      /\ \A i \in Identifier : manifestCache[i] \in Obtainable
  BY ManifestAssumption DEF ManifestInit, Obtainable
<1>2. DOMAIN workers = Worker /\ \A w \in Worker : ResolutionInv(workers[w])
  BY <1>1, FallbacksSound, IdleSound DEF ManifestInit, Started
<1>3. MissingCostsItself
  BY IdleSound DEF ManifestInit, MissingCostsItself
<1> QED  BY <1>1, <1>2, <1>3 DEF ManifestInv

LEMMA ManifestInvariant == ManifestSpec => []ManifestInv
BY ManifestBegins, ManifestStep, PTL DEF ManifestSpec

\* For any sites and identifiers, however many resolutions share the cache and whatever it
\* gives for an include: a resolution applies no manifest twice
\* (DNSManifestResolver.m:910-993).
THEOREM AppliedOnceHolds == ManifestSpec => []AppliedOnce
<1>1. ManifestInv => AppliedOnce
  BY DEF ManifestInv, ResolutionInv, ChainOnce, AppliedOnce
<1> QED  BY <1>1, ManifestInvariant, PTL

\* A manifest in force lacks none of its includes without a warning, whatever could not be
\* obtained in the middle of the recursion (DNSManifestResolver.m:930-975).
THEOREM MissingCostsItselfHolds == ManifestSpec => []MissingCostsItself
<1>1. ManifestInv => MissingCostsItself
  BY DEF ManifestInv
<1> QED  BY <1>1, ManifestInvariant, PTL

-----------------------------------------------------------------------------
(* ManifestResolver: types *)

\* What is asked for is asked for under an identifier; until a resolution has its primary
\* manifest it has that to get.
ResolutionTypes(work) ==
    /\ work.purpose \in Purpose /\ work.error \in ManifestError \cup {"none"}
    /\ work.asked \in Identifier
    /\ work.primary = NoManifest /\ work.error = "none" /\ work.purpose # "idle" =>
          work.agenda # <<>> /\ Head(work.agenda).does = "getPrimary"

ManifestTypeInv ==
    /\ ManifestTypeOK
    /\ includesToCache \in [Identifier -> Nat]
    /\ \A w \in Worker : ResolutionTypes(workers[w])

LEMMA BeginsTyped ==
    ASSUME NEW purpose \in Purpose, NEW asker \in Identifier, NEW identifier, NEW fallbacks
    PROVE  ResolutionTypes(PerformResolve(purpose, asker, identifier, fallbacks))
<1> DEFINE work == PerformResolve(purpose, asker, identifier, fallbacks)
<1>1. /\ work.purpose = purpose /\ work.error = "none" /\ work.asked = asker
      /\ work.agenda = <<GetPrimary(identifier)>>
  BY DEF PerformResolve
<1>2. Head(<<GetPrimary(identifier)>>) = GetPrimary(identifier) /\ <<GetPrimary(identifier)>> # <<>>
  OBVIOUS
<1>3. GetPrimary(identifier).does = "getPrimary"
  BY DEF GetPrimary
<1> HIDE DEF work
<1> QED  BY <1>1, <1>2, <1>3 DEF ResolutionTypes, work

LEMMA FallbacksTyped ==
    ASSUME NEW purpose \in Purpose, NEW identifier \in Identifier
    PROVE  ResolutionTypes(ResolveManifestWithFallback(purpose, identifier))
BY BeginsTyped DEF ResolveManifestWithFallback

LEMMA IdleTyped == ResolutionTypes(Idle)
<1>1. /\ Idle.purpose = "idle" /\ Idle.error = "none" /\ Idle.asked = DefaultIdentifier
  BY DEF Idle, PerformResolve
<1> QED  BY <1>1, ManifestAssumption DEF ResolutionTypes, Purpose

\* A resolution goes on with its types, whether it obtains what it asked for or not.
LEMMA ObtainedTyped ==
    ASSUME NEW work, DOMAIN work = ResolutionFields, ResolutionTypes(work),
           NEW manifest
    PROVE  ResolutionTypes(Obtained(work, manifest))
<1> DEFINE step == Head(work.agenda)
           rest == Tail(work.agenda)
           answered == IF manifest # NoManifest /\ step.does = "get"
                       THEN work.answers \cup {<<step.of, manifest.name>>} ELSE work.answers
           back == [work EXCEPT !.fetching = FALSE, !.answers = answered]
           found == IF step.does = "getPrimary" THEN [back EXCEPT !.primary = manifest] ELSE back
           after == Obtained(work, manifest)
<1>1. /\ work.purpose \in Purpose /\ work.error \in ManifestError \cup {"none"}
      /\ work.asked \in Identifier
  BY DEF ResolutionTypes
<1>2. /\ DOMAIN back = ResolutionFields /\ back.purpose = work.purpose
      /\ back.error = work.error /\ back.asked = work.asked /\ back.primary = work.primary
  BY DEF ResolutionFields
<1>3. step.does # "getPrimary" /\ work.error = "none" /\ work.purpose # "idle"
         => work.primary # NoManifest
  BY DEF ResolutionTypes
<1>4. {"CircularDependency", "ManifestNotFound"} \subseteq ManifestError
  BY DEF ManifestError
<1>5. CASE manifest # NoManifest
  <2>1. after = ResolveHierarchy(found, manifest, rest)
    BY <1>5 DEF Obtained
  <2>2. /\ DOMAIN found = ResolutionFields /\ found.purpose = work.purpose
        /\ found.error = work.error /\ found.asked = work.asked
        /\ found.error = "none" /\ found.purpose # "idle" => found.primary # NoManifest
    BY <1>2, <1>3, <1>5 DEF ResolutionFields
  <2> HIDE DEF after, found, step, rest, back, answered
  <2>3. /\ after.purpose = found.purpose /\ after.asked = found.asked
        /\ after.primary = found.primary /\ after.error \in {found.error, "CircularDependency"}
    BY <2>1, <2>2 DEF ResolveHierarchy, ResolutionFields
  <2>4. ResolutionTypes(after)
    BY <1>1, <1>4, <2>2, <2>3 DEF ResolutionTypes
  <2> QED  BY <2>4 DEF after
<1>6. CASE manifest = NoManifest
  <2>1. after = CASE step.does = "getPrimary" ->
                       [back EXCEPT !.agenda = <<>>, !.error = "ManifestNotFound"]
                  [] step.does = "get" ->
                       [back EXCEPT !.agenda = rest, !.warnings = @ \cup {step.of}]
                  [] OTHER -> [back EXCEPT !.agenda = rest]
    BY <1>6 DEF Obtained
  <2> HIDE DEF after, back, answered, rest
  <2>2. /\ after.purpose = work.purpose /\ after.asked = work.asked
        /\ after.primary = work.primary
        /\ after.error = IF step.does = "getPrimary" THEN "ManifestNotFound" ELSE work.error
    BY <1>2, <2>1 DEF ResolutionFields
  <2> HIDE DEF step
  <2>3. ResolutionTypes(after)
    BY <1>1, <1>3, <1>4, <2>2 DEF ResolutionTypes
  <2> QED  BY <2>3 DEF after
<1> QED  BY <1>5, <1>6

\* What may be cached has finitely many includes.
LEMMA CachedTypes ==
    ASSUME includesToCache \in [Identifier -> Nat], NEW identifier,
           NEW manifest \in Obtainable, manifest # NoManifest, CacheManifest(manifest, identifier)
    PROVE  includesToCache' \in [Identifier -> Nat]
<1>1. manifest.includes \in Seq(Identifier)
  BY ObtainableManifest
<1>2. \A i : Cardinality({k \in DOMAIN manifest.includes : manifest.includes[k] = i}) \in Nat
  <2>1. DOMAIN manifest.includes = 1 .. Len(manifest.includes) /\ Len(manifest.includes) \in Nat
    BY <1>1, LenProperties
  <2>2. IsFiniteSet(DOMAIN manifest.includes)
    BY <2>1, FS_Interval
  <2> QED  BY <2>2, FS_Subset, FS_CardinalityType
<1> DEFINE cached == [manifestCache EXCEPT ![identifier] = manifest]
           also(i) == IF i \in CachedIdentifiers(cached) THEN 0
                      ELSE Cardinality({k \in DOMAIN manifest.includes :
                                            manifest.includes[k] = i})
<1>3. includesToCache' = [i \in Identifier |-> includesToCache[i] + also(i)]
  BY DEF CacheManifest
<1>4. \A i : also(i) \in Nat
  BY <1>2
<1> HIDE DEF also
<1> QED  BY <1>3, <1>4

LEMMA ManifestTypeStep ==
    ManifestInv /\ ManifestInv' /\ ManifestTypeInv /\ [ManifestNext]_manifestVars
        => ManifestTypeInv'
<1> SUFFICES ASSUME ManifestInv, ManifestInv', ManifestTypeInv, [ManifestNext]_manifestVars
             PROVE  ManifestTypeInv'
  OBVIOUS
<1> USE DEF caches, current, surroundings
\* What is left to show of each step.
<1> DEFINE Worked == \A v \in Worker : ResolutionTypes(workers'[v])
           Cached == /\ expired' \subseteq Identifier
                     /\ includesToCache' \in [Identifier -> Nat]
           Unfound == negativeURLCache' \subseteq Identifier
           Context == evaluationContext' \in EvaluationContext
           InForce == currentManifestIdentifier' \in Identifier \cup {NoManifest}
           Retried == bootstrap'.attempt \in 0 .. MaxAttempts
<1>1. /\ \A w \in Worker : ResolutionInv(workers[w]) /\ ResolutionTypes(workers[w])
      /\ DOMAIN workers = Worker
      /\ \A w \in Worker : DOMAIN workers[w] = ResolutionFields
      /\ expired \subseteq Identifier /\ includesToCache \in [Identifier -> Nat]
      /\ negativeURLCache \subseteq Identifier /\ evaluationContext \in EvaluationContext
      /\ currentManifestIdentifier \in Identifier \cup {NoManifest}
      /\ bootstrap.attempt \in 0 .. MaxAttempts
      /\ DOMAIN bootstrap = {"attempt", "phase", "identifier"}
  BY DEF ManifestInv, ResolutionInv, ManifestTypeInv, ManifestTypeOK
<1>2. /\ clientIdentifier \in Identifier /\ bootstrap.identifier \in Identifier
      /\ documents \in [Identifier -> Obtainable]
  <2>1. clientIdentifier \in ClientIdentifiers /\ documents \in Sites
    BY DEF ManifestInv
  <2> QED  BY <2>1, ManifestAssumption DEF ManifestInv, Obtainable
<1>3. ASSUME Worked, Cached, Unfound, Context, InForce, Retried
      PROVE  ManifestTypeInv'
  <2>1. /\ documents' \in Sites /\ clientIdentifier' \in ClientIdentifiers
        /\ \A i \in Identifier : manifestCache'[i] \in Manifest \cup {NoManifest}
    BY DEF ManifestInv, Obtainable
  <2>2. \A w \in Worker : /\ workers'[w].purpose \in Purpose
                         /\ workers'[w].error \in ManifestError \cup {"none"}
    BY <1>3 DEF ResolutionTypes
  <2>3. \A i \in Identifier : includesToCache'[i] \in Nat
    BY <1>3
  <2>4. ManifestTypeOK'
    BY <1>3, <2>1, <2>2, <2>3 DEF ManifestTypeOK
  <2> QED  BY <1>3, <2>4 DEF ManifestTypeInv
\* What stays as it is stays in its type.
<1>4. /\ UNCHANGED workers => Worked
      /\ UNCHANGED <<expired, includesToCache>> => Cached
      /\ UNCHANGED negativeURLCache => Unfound
      /\ UNCHANGED evaluationContext => Context
      /\ UNCHANGED currentManifestIdentifier => InForce
      /\ UNCHANGED bootstrap => Retried
  BY <1>1
<1>5. ASSUME NEW w \in Worker, NEW work, ResolutionTypes(work),
             workers' = [workers EXCEPT ![w] = work]
      PROVE  Worked
  BY <1>1, <1>5
<1>6. ASSUME NEW w \in Worker, NEW manifest, Obtain(w, manifest)
      PROVE  Worked
  <2>1. workers' = [workers EXCEPT ![w] = Obtained(workers[w], manifest)]
    BY <1>6 DEF Obtain
  <2> QED  BY <1>1, <1>5, <2>1, ObtainedTyped
<1>7. ASSUME NEW w \in Worker, workers[w].fetching
      PROVE  Head(workers[w].agenda).of \in Identifier
  <2>1. /\ IsQueue(workers[w].agenda) /\ workers[w].agenda # <<>>
        /\ Head(workers[w].agenda).does \in GetSteps
        /\ \A step : Has(workers[w].agenda, step) => SoundStep(step)
    BY <1>1, <1>7 DEF ResolutionInv, Gets
  <2>2. SoundStep(Head(workers[w].agenda))
    BY <2>1, HasTail
  <2> QED  BY <2>1, <2>2 DEF SoundStep
<1>8. {"load", "bootstrap", "reload", "include", "publish", "republish"} \subseteq Purpose
  BY DEF Purpose
<1>9. ASSUME NEW w \in Worker, LookUp(w)
      PROVE  ManifestTypeInv'
  <2> DEFINE identifier == Head(workers[w].agenda).of
             work == [workers[w] EXCEPT !.fetching = TRUE]
  <2>1. /\ Obtain(w, manifestCache[identifier]) \/ workers' = [workers EXCEPT ![w] = work]
        /\ UNCHANGED <<expired, includesToCache, negativeURLCache, evaluationContext,
                       currentManifestIdentifier, bootstrap>>
    BY <1>9 DEF LookUp
  <2>2. ResolutionTypes(work)
    BY <1>1 DEF ResolutionTypes, ResolutionFields
  <2> HIDE DEF identifier, work
  <2>3. Worked
    BY <1>5, <1>6, <2>1, <2>2
  <2> QED  BY <1>3, <1>4, <2>1, <2>3
<1>10. ASSUME NEW w \in Worker, FetchFinds(w)
       PROVE  ManifestTypeInv'
  <2> DEFINE identifier == Head(workers[w].agenda).of
  <2>1. /\ workers[w].fetching /\ documents[identifier] # NoManifest
        /\ CacheManifest(documents[identifier], identifier)
        /\ Obtain(w, documents[identifier])
        /\ UNCHANGED <<negativeURLCache, evaluationContext, currentManifestIdentifier, bootstrap>>
    BY <1>10 DEF FetchFinds
  <2>2. identifier \in Identifier
    BY <1>7, <2>1
  <2> HIDE DEF identifier
  <2>3. documents[identifier] \in Obtainable
    BY <1>2, <2>2
  <2>4. Cached
    <3>1. includesToCache' \in [Identifier -> Nat]
      BY <1>1, <2>1, <2>3, CachedTypes
    <3> QED  BY <1>1, <2>1, <3>1 DEF CacheManifest
  <2>5. Worked
    BY <1>6, <2>1
  <2> QED  BY <1>3, <1>4, <2>1, <2>4, <2>5
<1>11. ASSUME NEW w \in Worker, FetchNotFound(w) \/ FetchFails(w)
       PROVE  ManifestTypeInv'
  <2> DEFINE identifier == Head(workers[w].agenda).of
  <2>1. /\ workers[w].fetching /\ FallBackToCache(w, identifier)
        /\ negativeURLCache' \in {negativeURLCache, negativeURLCache \cup {identifier}}
        /\ UNCHANGED <<evaluationContext, currentManifestIdentifier, bootstrap>>
    BY <1>11 DEF FetchNotFound, FetchFails
  <2>2. identifier \in Identifier
    BY <1>7, <2>1
  <2> HIDE DEF identifier
  <2>3. /\ Obtain(w, manifestCache[identifier]) /\ expired' = expired \ {identifier}
        /\ UNCHANGED includesToCache
    BY <2>1 DEF FallBackToCache
  <2>4. Worked
    BY <1>6, <2>3
  <2>5. Cached /\ Unfound
    BY <1>1, <2>1, <2>2, <2>3
  <2> QED  BY <1>3, <1>4, <2>1, <2>4, <2>5
\* What is not asked for leaves the primary manifest as it is.
<1>12. ASSUME NEW w \in Worker, NEW agenda, NEW resolved, workers[w].agenda # <<>>,
              Head(workers[w].agenda).does # "getPrimary"
       PROVE  ResolutionTypes([workers[w] EXCEPT !.agenda = agenda, !.resolved = resolved])
  <2> DEFINE work == [workers[w] EXCEPT !.agenda = agenda, !.resolved = resolved]
  <2>1. /\ work.purpose = workers[w].purpose /\ work.error = workers[w].error
        /\ work.asked = workers[w].asked /\ work.primary = workers[w].primary
    BY <1>1 DEF ResolutionFields
  <2> HIDE DEF work
  <2>2. ResolutionTypes(work)
    BY <1>1, <1>12, <2>1 DEF ResolutionTypes
  <2> QED  BY <2>2 DEF work
<1>13. ASSUME NEW w \in Worker, EvaluateItem(w)
       PROVE  ManifestTypeInv'
  <2>1. /\ workers[w].agenda # <<>> /\ Head(workers[w].agenda).does # "getPrimary"
        /\ UNCHANGED <<expired, includesToCache, negativeURLCache, evaluationContext,
                       currentManifestIdentifier, bootstrap>>
    BY <1>13 DEF EvaluateItem
  <2> DEFINE item == Head(workers[w].agenda).of
             rest == Tail(workers[w].agenda)
             includes == [k \in DOMAIN item.includes |-> GetConditional(item.includes[k])]
             applied == [workers[w] EXCEPT !.agenda = includes \o rest,
                                           !.resolved = WithAdded(workers[w].resolved, item)]
             passed == [workers[w] EXCEPT !.agenda = rest, !.resolved = workers[w].resolved]
  <2>2. [workers[w] EXCEPT !.agenda = rest] = passed
    BY <1>1 DEF ResolutionFields
  <2>3. \/ workers' = [workers EXCEPT ![w] = applied]
        \/ workers' = [workers EXCEPT ![w] = [workers[w] EXCEPT !.agenda = rest]]
    BY <1>13 DEF EvaluateItem
  <2>4. ResolutionTypes(applied) /\ ResolutionTypes(passed)
    BY <1>12, <2>1
  <2> HIDE DEF applied, passed
  <2>5. Worked
    BY <1>5, <2>2, <2>3, <2>4
  <2> QED  BY <1>3, <1>4, <2>1, <2>5
<1>14. ASSUME NEW w \in Worker, LeaveManifest(w)
       PROVE  ManifestTypeInv'
  <2> DEFINE work == [workers[w] EXCEPT
                         !.agenda = Tail(workers[w].agenda),
                         !.resolved = WithAdded(workers[w].resolved, Head(workers[w].agenda).of)]
  <2>1. /\ workers[w].agenda # <<>> /\ Head(workers[w].agenda).does # "getPrimary"
        /\ workers' = [workers EXCEPT ![w] = work]
        /\ UNCHANGED <<expired, includesToCache, negativeURLCache, evaluationContext,
                       currentManifestIdentifier, bootstrap>>
    BY <1>14 DEF LeaveManifest
  <2>2. ResolutionTypes(work)
    BY <1>12, <2>1
  <2> HIDE DEF work
  <2>3. Worked
    BY <1>5, <2>1, <2>2
  <2> QED  BY <1>3, <1>4, <2>1, <2>3
<1>15. ASSUME NEW w \in Worker, ResolutionFails(w)
       PROVE  ManifestTypeInv'
  <2> DEFINE work == workers[w]
             next == PerformResolve(work.purpose, work.asked, Head(work.fallbacks),
                                    Tail(work.fallbacks))
  <2>1. /\ \/ workers' = [workers EXCEPT ![w] = next]
           \/ workers' = [workers EXCEPT ![w] = Idle]
        /\ UNCHANGED <<expired, includesToCache, negativeURLCache, evaluationContext,
                       currentManifestIdentifier>>
    BY <1>15 DEF ResolutionFails
  <2>2. Retried
    BY <1>1, <1>15 DEF ResolutionFails
  <2>3. ResolutionTypes(next)
    BY <1>1, BeginsTyped DEF ResolutionTypes
  <2> HIDE DEF next
  <2>4. Worked
    BY <1>5, <2>1, <2>3, IdleTyped
  <2> QED  BY <1>3, <1>4, <2>1, <2>2, <2>4
\* One that is done is handed on under another purpose.
<1>16. ASSUME NEW w \in Worker, NEW purpose \in Purpose, NEW purposes, Resolved(w, purposes),
              "idle" \notin purposes
       PROVE  ResolutionTypes([workers[w] EXCEPT !.purpose = purpose])
  <2> DEFINE work == [workers[w] EXCEPT !.purpose = purpose]
  <2>1. /\ work.purpose = purpose /\ work.error = workers[w].error
        /\ work.asked = workers[w].asked /\ work.primary = workers[w].primary
    BY <1>1 DEF ResolutionFields
  <2>2. workers[w].primary # NoManifest
    BY <1>1, <1>16 DEF Resolved, ResolutionTypes
  <2> HIDE DEF work
  <2>3. ResolutionTypes(work)
    BY <1>1, <2>1, <2>2 DEF ResolutionTypes
  <2> QED  BY <2>3 DEF work
<1>17. ASSUME NEW w \in Worker, LoadManifest(w)
       PROVE  ManifestTypeInv'
  <2>1. /\ Resolved(w, {"load", "bootstrap"})
        /\ workers' = [workers EXCEPT ![w] = [workers[w] EXCEPT !.purpose = "publish"]]
        /\ UNCHANGED <<expired, includesToCache, negativeURLCache, evaluationContext,
                       currentManifestIdentifier>>
    BY <1>17 DEF LoadManifest
  <2>2. Retried
    BY <1>1, <1>17 DEF LoadManifest
  <2>3. Worked
    BY <1>5, <1>8, <1>16, <2>1
  <2> QED  BY <1>3, <1>4, <2>1, <2>2, <2>3
<1>18. ASSUME NEW w \in Worker, ReloadManifest(w)
       PROVE  ManifestTypeInv'
  <2>1. /\ Resolved(w, {"reload"})
        /\ \/ workers' = [workers EXCEPT ![w] = Idle]
           \/ workers' = [workers EXCEPT ![w] = [workers[w] EXCEPT !.purpose = "republish"]]
        /\ UNCHANGED <<expired, includesToCache, negativeURLCache, evaluationContext,
                       currentManifestIdentifier, bootstrap>>
    BY <1>18 DEF ReloadManifest
  <2>2. Worked
    BY <1>5, <1>8, <1>16, <2>1, IdleTyped
  <2> QED  BY <1>3, <1>4, <2>1, <2>2
<1>19. ASSUME NEW w \in Worker, StoreManifest(w)
       PROVE  ManifestTypeInv'
  <2>1. /\ workers' = [workers EXCEPT ![w] = Idle]
        /\ currentManifestIdentifier' \in {workers[w].asked, currentManifestIdentifier}
        /\ UNCHANGED <<expired, includesToCache, negativeURLCache, evaluationContext, bootstrap>>
    BY <1>19 DEF StoreManifest
  <2>2. InForce
    BY <1>1, <2>1 DEF ResolutionTypes
  <2>3. Worked
    BY <1>5, <2>1, IdleTyped
  <2> QED  BY <1>3, <1>4, <2>1, <2>2, <2>3
<1>20. ASSUME NEW w \in Worker, CacheInclude(w)
       PROVE  ManifestTypeInv'
  <2>1. PICK i \in Identifier :
            /\ includesToCache[i] > 0
            /\ includesToCache' = [includesToCache EXCEPT ![i] = @ - 1]
            /\ workers' = [workers EXCEPT ![w] = ResolveManifestWithFallback("include", i)]
    BY <1>20 DEF CacheInclude
  <2>2. UNCHANGED <<expired, negativeURLCache, evaluationContext, currentManifestIdentifier,
                    bootstrap>>
    BY <1>20 DEF CacheInclude
  <2>3. Cached
    BY <1>1, <2>1, <2>2
  <2>4. Worked
    BY <1>5, <1>8, <2>1, FallbacksTyped
  <2> QED  BY <1>3, <1>4, <2>2, <2>3, <2>4
<1>21. ASSUME NEW w \in Worker, IncludeCached(w)
       PROVE  ManifestTypeInv'
  <2>1. /\ Resolved(w, {"include"}) /\ CacheManifest(workers[w].primary, workers[w].asked)
        /\ workers' = [workers EXCEPT ![w] = Idle]
        /\ UNCHANGED <<negativeURLCache, evaluationContext, currentManifestIdentifier, bootstrap>>
    BY <1>21 DEF IncludeCached
  <2>2. workers[w].primary \in Obtainable /\ workers[w].primary # NoManifest
    BY <1>1, <2>1 DEF ResolutionInv, Resolved, ResolutionTypes
  <2>3. Cached
    <3>1. includesToCache' \in [Identifier -> Nat]
      BY <1>1, <2>1, <2>2, CachedTypes
    <3> QED  BY <1>1, <2>1, <3>1 DEF CacheManifest
  <2>4. Worked
    BY <1>5, <2>1, IdleTyped
  <2> QED  BY <1>3, <1>4, <2>1, <2>3, <2>4
<1>22. ASSUME NEW w \in Worker, TimerFires(w)
       PROVE  ManifestTypeInv'
  <2>1. /\ \E purpose \in {"load", "reload"} : workers' =
              [workers EXCEPT ![w] = ResolveManifestWithFallback(purpose, clientIdentifier)]
        /\ evaluationContext' = evaluationContext \/ evaluationContext' \in EvaluationContext
        /\ UNCHANGED <<expired, includesToCache, negativeURLCache, currentManifestIdentifier,
                       bootstrap>>
    BY <1>22 DEF TimerFires
  <2>2. Context
    BY <1>1, <2>1
  <2>3. Worked
    BY <1>2, <1>5, <1>8, <2>1, FallbacksTyped
  <2> QED  BY <1>3, <1>4, <2>1, <2>2, <2>3
<1>23. ASSUME NEW w \in Worker, BootstrapRetry(w)
       PROVE  ManifestTypeInv'
  <2>1. /\ \/ UNCHANGED workers
           \/ workers' = [workers EXCEPT ![w] =
                 ResolveManifestWithFallback("bootstrap", bootstrap.identifier)]
        /\ UNCHANGED <<expired, includesToCache, negativeURLCache, evaluationContext,
                       currentManifestIdentifier>>
    BY <1>23 DEF BootstrapRetry
  <2>2. Retried
    BY <1>1, <1>23 DEF BootstrapRetry
  <2>3. Worked
    BY <1>2, <1>4, <1>5, <1>8, <2>1, FallbacksTyped
  <2> QED  BY <1>3, <1>4, <2>1, <2>2, <2>3
<1>24. CASE ScheduleBootstrapRetry
  <2>1. UNCHANGED <<workers, expired, includesToCache, negativeURLCache, evaluationContext,
                    currentManifestIdentifier>>
    BY <1>24 DEF ScheduleBootstrapRetry
  <2>2. Retried
    <3>1. \/ bootstrap'.attempt = bootstrap.attempt
          \/ bootstrap.attempt # MaxAttempts /\ bootstrap'.attempt = bootstrap.attempt + 1
      BY <1>1, <1>24 DEF ScheduleBootstrapRetry
    <3>2. MaxAttempts \in Nat
      BY ManifestAssumption
    <3> QED  BY <1>1, <3>1, <3>2
  <2> QED  BY <1>3, <1>4, <2>1, <2>2
<1>25. CASE UpdateRulesFromCurrentManifest \/ SiteChanges \/ UNCHANGED manifestVars
  <2>1. UNCHANGED <<workers, expired, includesToCache, negativeURLCache, evaluationContext,
                    currentManifestIdentifier, bootstrap>>
    BY <1>25 DEF UpdateRulesFromCurrentManifest, SiteChanges, manifestVars
  <2> QED  BY <1>3, <1>4, <2>1
<1>26. CASE CacheExpires
  <2>1. PICK i \in CachedIdentifiers(manifestCache) : expired' = expired \cup {i}
    BY <1>26 DEF CacheExpires
  <2>2. UNCHANGED <<workers, includesToCache, negativeURLCache, evaluationContext,
                    currentManifestIdentifier, bootstrap>>
    BY <1>26 DEF CacheExpires
  <2>3. Cached
    BY <1>1, <2>1, <2>2 DEF CachedIdentifiers
  <2> QED  BY <1>3, <1>4, <2>2, <2>3
<1>27. CASE RestartProxy
  <2>1. /\ workers' = Started(clientIdentifier) /\ bootstrap'.attempt = 0
        /\ negativeURLCache' = {} /\ includesToCache' = [i \in Identifier |-> 0]
        /\ evaluationContext' \in EvaluationContext /\ currentManifestIdentifier' = NoManifest
        /\ expired' = expired
    BY <1>27 DEF RestartProxy
  <2>2. Worked
    BY <1>2, <1>8, <2>1, FallbacksTyped, IdleTyped DEF Started
  <2>3. Retried
    BY <2>1, ManifestAssumption
  <2> QED  BY <1>1, <1>3, <2>1, <2>2, <2>3
<1> QED  BY <1>9, <1>10, <1>11, <1>13, <1>14, <1>15, <1>17, <1>18, <1>19, <1>20, <1>21, <1>22,
            <1>23, <1>24, <1>25, <1>26, <1>27 DEF ManifestNext

LEMMA ManifestTypeBegins == ManifestInit => ManifestTypeInv
<1> SUFFICES ASSUME ManifestInit PROVE ManifestTypeInv
  OBVIOUS
<1>1. /\ documents \in Sites /\ clientIdentifier \in ClientIdentifiers
      /\ manifestCache = [i \in Identifier |-> NoManifest]
      /\ expired = {} /\ negativeURLCache = {} /\ includesToCache = [i \in Identifier |-> 0]
      /\ workers = Started(clientIdentifier) /\ bootstrap.attempt = 0
      /\ evaluationContext = {} /\ currentManifestIdentifier = NoManifest
  BY DEF ManifestInit
<1>2. clientIdentifier \in Identifier /\ MaxAttempts \in Nat
  BY <1>1, ManifestAssumption
<1>3. \A w \in Worker : ResolutionTypes(workers[w])
  BY <1>1, <1>2, FallbacksTyped, IdleTyped DEF Started, Purpose
<1>4. \A w \in Worker : /\ workers[w].purpose \in Purpose
                       /\ workers[w].error \in ManifestError \cup {"none"}
  BY <1>3 DEF ResolutionTypes
<1>5. evaluationContext \in EvaluationContext
  BY <1>1 DEF EvaluationContext
<1>6. ManifestTypeOK
  BY <1>1, <1>2, <1>4, <1>5 DEF ManifestTypeOK
<1> QED  BY <1>1, <1>3, <1>6 DEF ManifestTypeInv

\* What the resolutions keep and share stays of its type: an include is cached under an
\* identifier only when there is a manifest, and the count of what is to be cached and
\* that of the retries stay in their bounds (ManifestResolver!ManifestTypeOK).
THEOREM ManifestTypeCorrect == ManifestSpec => []ManifestTypeOK
<1>1. ManifestTypeInv => ManifestTypeOK
  BY DEF ManifestTypeInv
<1> QED  BY <1>1, ManifestTypeBegins, ManifestTypeStep, ManifestInvariant, PTL DEF ManifestSpec

-----------------------------------------------------------------------------
(* RuleSetCaches: what the memory cache will hold *)

\* A block of accessQueue, and what it leaves a key with.
Affects(block, k) == block.does = "clear" \/ block.key = k
Outcome(block) == IF block.does = "clear" THEN NoEntry ELSE block.entry

Agreeing(entry, file) == entry = NoEntry \/ file = NoEntry \/ entry = file

\* Nothing is queued for a key, or the last block that is decides.
CacheAgrees(queue, memory, file, k) ==
    /\ (\A i \in DOMAIN queue : ~Affects(queue[i], k)) => Agreeing(memory[k], file[k])
    /\ \A i \in DOMAIN queue :
          Affects(queue[i], k) /\ (\A j \in DOMAIN queue : j > i => ~Affects(queue[j], k))
          => Agreeing(Outcome(queue[i]), file[k])

\* Entries may go, others stay as they are.
Shrinks(old, new) == \A k \in CacheKey : new[k] \in {old[k], NoEntry}

CacheInv ==
    /\ IsQueue(memoryQueue) /\ DOMAIN memoryCache = CacheKey /\ DOMAIN files = CacheKey
    /\ \A k \in CacheKey : CacheAgrees(memoryQueue, memoryCache, files, k)

LEMMA EntriesGo ==
    ASSUME NEW queue, NEW memory, NEW file, NEW memory2, NEW file2,
           Shrinks(memory, memory2), Shrinks(file, file2),
           NEW k \in CacheKey, CacheAgrees(queue, memory, file, k)
    PROVE  CacheAgrees(queue, memory2, file2, k)
BY DEF CacheAgrees, Shrinks, Agreeing

LEMMA MoreBlocks ==
    ASSUME NEW queue, NEW blocks, IsQueue(queue), IsQueue(blocks),
           NEW memory, NEW file, NEW file2,
           NEW k \in CacheKey, CacheAgrees(queue, memory, file, k),
           \A i \in DOMAIN blocks :
              Affects(blocks[i], k) => Agreeing(Outcome(blocks[i]), file2[k]),
           (\A i \in DOMAIN blocks : ~Affects(blocks[i], k)) => file2[k] \in {file[k], NoEntry}
    PROVE  CacheAgrees(queue \o blocks, memory, file2, k)
<1>0. PICK r : r = queue \o blocks
  OBVIOUS
<1> DEFINE n == Len(queue)
<1>1. /\ n \in Nat /\ DOMAIN queue = 1 .. n
      /\ \A i \in DOMAIN queue : i \in DOMAIN r /\ r[i] = queue[i]
      /\ \A i \in DOMAIN blocks : i \in Nat \ {0} /\ n + i \in DOMAIN r /\ r[n + i] = blocks[i]
      /\ \A i \in DOMAIN r : i \in DOMAIN queue \/ \E j \in DOMAIN blocks : i = n + j
  <2>1. /\ n \in Nat /\ DOMAIN queue = 1 .. n
        /\ \A i \in DOMAIN queue : i \in DOMAIN r /\ r[i] = queue[i]
    BY <1>0, ConcatQueue
  <2>2. \A i \in DOMAIN blocks : i \in Nat \ {0} /\ n + i \in DOMAIN r /\ r[n + i] = blocks[i]
    BY <1>0, ConcatQueue
  <2>3. \A i \in DOMAIN r : i \in DOMAIN queue \/ \E j \in DOMAIN blocks : i = n + j
    BY <1>0, ConcatQueue
  <2> QED  BY <2>1, <2>2, <2>3
<1> HIDE DEF n
<1>2. \A i \in DOMAIN queue, j \in DOMAIN blocks : n + j > i
  BY <1>1
<1>3. CASE \E i \in DOMAIN blocks : Affects(blocks[i], k)
  <2>1. PICK b \in DOMAIN blocks : Affects(blocks[b], k)
    BY <1>3
  <2>2. ASSUME NEW i \in DOMAIN r, Affects(r[i], k),
               \A j \in DOMAIN r : j > i => ~Affects(r[j], k)
        PROVE  Agreeing(Outcome(r[i]), file2[k])
    <3>1. i \notin DOMAIN queue
      BY <1>1, <1>2, <2>1, <2>2
    <3>2. PICK j \in DOMAIN blocks : i = n + j
      BY <1>1, <3>1
    <3> QED  BY <1>1, <2>2, <3>2
  <2>3. ~ \A i \in DOMAIN r : ~Affects(r[i], k)
    BY <1>1, <2>1
  <2> QED  BY <1>0, <2>2, <2>3 DEF CacheAgrees
<1>4. CASE \A i \in DOMAIN blocks : ~Affects(blocks[i], k)
  <2>1. file2[k] \in {file[k], NoEntry}
    BY <1>4
  <2>2. ASSUME NEW i \in DOMAIN r, Affects(r[i], k),
               \A j \in DOMAIN r : j > i => ~Affects(r[j], k)
        PROVE  Agreeing(Outcome(r[i]), file2[k])
    <3>1. i \in DOMAIN queue
      BY <1>1, <1>4, <2>2
    <3>2. \A j \in DOMAIN queue : j > i => ~Affects(queue[j], k)
      BY <1>1, <2>2
    <3>3. Agreeing(Outcome(queue[i]), file[k])
      BY <1>1, <2>2, <3>1, <3>2 DEF CacheAgrees
    <3> QED  BY <1>1, <2>1, <3>1, <3>3 DEF Agreeing
  <2>3. ASSUME \A i \in DOMAIN r : ~Affects(r[i], k)
        PROVE  Agreeing(memory[k], file2[k])
    <3>1. \A i \in DOMAIN queue : ~Affects(queue[i], k)
      BY <1>1, <2>3
    <3> QED  BY <2>1, <3>1 DEF CacheAgrees, Agreeing
  <2> QED  BY <1>0, <2>2, <2>3 DEF CacheAgrees
<1> QED  BY <1>3, <1>4

LEMMA BlockRuns ==
    ASSUME NEW queue, IsQueue(queue), queue # <<>>, NEW memory, NEW file, NEW memory2,
           NEW k \in CacheKey, CacheAgrees(queue, memory, file, k),
           memory2[k] = IF Affects(Head(queue), k) THEN Outcome(Head(queue)) ELSE memory[k]
    PROVE  CacheAgrees(Tail(queue), memory2, file, k)
<1> DEFINE r == Tail(queue)
<1>1. /\ Len(queue) \in Nat \ {0}
      /\ DOMAIN r = 1 .. Len(queue) - 1 /\ DOMAIN queue = 1 .. Len(queue)
      /\ \A i \in 1 .. Len(queue) - 1 : r[i] = queue[i + 1]
      /\ Head(queue) = queue[1]
  BY TailOfQueue
<1> HIDE DEF r
<1>2. \A i \in DOMAIN r : i \in Nat /\ i + 1 \in DOMAIN queue /\ r[i] = queue[i + 1]
  BY <1>1
<1>3. ASSUME NEW j \in DOMAIN queue, j # 1
      PROVE  j - 1 \in DOMAIN r /\ r[j - 1] = queue[j] /\ j \in Nat
  <2>1. j - 1 \in 1 .. Len(queue) - 1 /\ j - 1 + 1 = j
    BY <1>1, <1>3
  <2> QED  BY <1>1, <2>1
<1>4. ASSUME NEW i \in DOMAIN r, Affects(r[i], k),
             \A j \in DOMAIN r : j > i => ~Affects(r[j], k)
      PROVE  Agreeing(Outcome(r[i]), file[k])
  <2>1. ASSUME NEW j \in DOMAIN queue, j > i + 1
        PROVE  ~Affects(queue[j], k)
    <3>1. j # 1 /\ j - 1 > i
      BY <1>1, <1>2, <2>1
    <3> QED  BY <1>3, <1>4, <3>1
  <2> QED  BY <1>2, <1>4, <2>1 DEF CacheAgrees
<1>5. ASSUME \A i \in DOMAIN r : ~Affects(r[i], k)
      PROVE  Agreeing(memory2[k], file[k])
  <2>1. \A j \in DOMAIN queue : j # 1 => ~Affects(queue[j], k)
    BY <1>3, <1>5
  <2>2. CASE Affects(queue[1], k)
    <3>1. 1 \in DOMAIN queue /\ \A j \in DOMAIN queue : j > 1 => ~Affects(queue[j], k)
      BY <1>1, <2>1
    <3> QED  BY <1>1, <2>2, <3>1 DEF CacheAgrees
  <2>3. CASE ~Affects(queue[1], k)
    BY <1>1, <2>1, <2>3 DEF CacheAgrees
  <2> QED  BY <2>2, <2>3
<1> QED  BY <1>4, <1>5 DEF CacheAgrees, r

\* A finite set is a sequence of its members.
LEMMA SequenceOfSet ==
    ASSUME NEW S, IsFiniteSet(S)
    PROVE  IsQueue(SetToSeq(S)) /\ \A i \in DOMAIN SetToSeq(S) : SetToSeq(S)[i] \in S
<1>1. /\ Cardinality(S) \in Nat
      /\ ExistsBijection(1 .. Cardinality(S), S)
  BY FS_CardinalityType
<1>2. \E f \in [1 .. Cardinality(S) -> S] : IsInjective(f)
  BY <1>1 DEF ExistsBijection, Bijection, Injection
<1>3. SetToSeq(S) \in [1 .. Cardinality(S) -> S]
  BY <1>2 DEF SetToSeq
<1>4. SetToSeq(S) \in Seq(S)
  BY <1>1, <1>3, SeqDef
<1> QED  BY <1>3, <1>4 DEF IsQueue

\* What a block is about when it is of one kind.
LEMMA OneBlock ==
    ASSUME NEW block
    PROVE  IsQueue(<<block>>) /\ DOMAIN <<block>> = {1} /\ <<block>>[1] = block
<1>1. <<block>> \in Seq({block}) /\ DOMAIN <<block>> = {1} /\ <<block>>[1] = block
  OBVIOUS
<1> QED  BY <1>1 DEF IsQueue

\* The blocks only take entries away, and files go at the same time if at all.
LEMMA Removals ==
    ASSUME NEW queue, NEW blocks, IsQueue(queue), IsQueue(blocks),
           NEW memory, NEW file, NEW file2, Shrinks(file, file2),
           \A i \in DOMAIN blocks : Outcome(blocks[i]) = NoEntry,
           NEW k \in CacheKey, CacheAgrees(queue, memory, file, k)
    PROVE  CacheAgrees(queue \o blocks, memory, file2, k)
<1>1. \A i \in DOMAIN blocks :
         Affects(blocks[i], k) => Agreeing(Outcome(blocks[i]), file2[k])
  BY DEF Agreeing
<1>2. file2[k] \in {file[k], NoEntry}
  BY DEF Shrinks
<1> QED  BY <1>1, <1>2, MoreBlocks

LEMMA QueuedHas ==
    ASSUME NEW what, NEW key, NEW entry
    PROVE  /\ Queued(what, key, entry).does = what /\ Queued(what, key, entry).key = key
           /\ Queued(what, key, entry).entry = entry
BY DEF Queued

LEMMA RemovedFiles ==
    ASSUME NEW keys, RemoveFiles(keys), DOMAIN files = CacheKey
    PROVE  DOMAIN files' = CacheKey /\ Shrinks(files, files')
BY DEF RemoveFiles, Shrinks

\* The removals of a cleanup are finitely many.
LEMMA RemovalsFinite ==
    ASSUME NEW stale, stale \subseteq CacheKey
    PROVE  IsFiniteSet({Queued("remove", k, NoEntry) : k \in stale})
<1> DEFINE S == {Queued("remove", k, NoEntry) : k \in stale}
           f == [k \in stale |-> Queued("remove", k, NoEntry)]
<1>1. IsFiniteSet(stale)
  BY CacheAssumption, FS_Subset
<1>2. f \in Surjection(stale, S)
  BY DEF Surjection
<1> QED  BY <1>1, <1>2, FS_Surjection

LEMMA CacheStep == CacheInv /\ [CacheNext]_cacheVars => CacheInv'
<1>1. SUFFICES ASSUME CacheInv, [CacheNext]_cacheVars PROVE CacheInv'
  OBVIOUS
<1>2. IsQueue(memoryQueue) /\ DOMAIN memoryCache = CacheKey /\ DOMAIN files = CacheKey
  BY <1>1 DEF CacheInv
<1>3. ASSUME NEW k \in CacheKey
      PROVE  CacheAgrees(memoryQueue, memoryCache, files, k)
  BY <1>1 DEF CacheInv
<1>4. ASSUME NEW blocks, IsQueue(blocks), memoryQueue' = memoryQueue \o blocks,
             memoryCache' = memoryCache, DOMAIN files' = CacheKey, Shrinks(files, files'),
             \A i \in DOMAIN blocks : Outcome(blocks[i]) = NoEntry
      PROVE  CacheInv'
  <2>1. IsQueue(memoryQueue \o blocks)
    BY <1>2, <1>4, ConcatQueue
  <2>2. ASSUME NEW k \in CacheKey
        PROVE  CacheAgrees(memoryQueue \o blocks, memoryCache, files', k)
    BY <1>2, <1>3, <1>4, Removals
  <2> QED  BY <1>2, <1>4, <2>1, <2>2 DEF CacheInv
<1>5. CASE UNCHANGED <<memoryCache, files, memoryQueue>>
  BY <1>1, <1>5 DEF CacheInv
<1>6. CASE StoreBlock
  <2> DEFINE key == Head(cacheQueue).key
             entry == Head(cacheQueue).entry
             block == Queued("set", key, entry)
  <2>1. PICK written \in BOOLEAN : StoreEntry(key, entry, written)
    BY <1>6 DEF StoreBlock
  <2>2. memoryQueue' = memoryQueue \o <<block>> /\ memoryCache' = memoryCache
    BY <1>6 DEF StoreBlock, InMemory
  <2>3. block.does # "clear" /\ block.key = key /\ block.entry = entry
    BY QueuedHas
  <2>4. PICK removed : /\ files[key] # NoEntry => key \in removed
                       /\ files' = [k \in CacheKey |-> IF k = key /\ written THEN entry
                                     ELSE IF k \in removed THEN NoEntry ELSE files[k]]
    <3> DEFINE gone == EvictedFor(entry.dataSize)
                       \cup (IF files[key] = NoEntry THEN {} ELSE {key})
    <3>1. files[key] # NoEntry => key \in gone
      OBVIOUS
    <3>2. files' = [k \in CacheKey |-> IF k = key /\ written THEN entry
                                        ELSE IF k \in gone THEN NoEntry ELSE files[k]]
      BY <2>1 DEF StoreEntry
    <3> QED  BY <3>1, <3>2
  <2> HIDE DEF key, entry, block
  <2>5. IsQueue(<<block>>) /\ DOMAIN <<block>> = {1} /\ <<block>>[1] = block
    BY OneBlock
  <2>6. ASSUME NEW k \in CacheKey
        PROVE  CacheAgrees(memoryQueue \o <<block>>, memoryCache, files', k)
    <3>1. files'[k] = IF k = key /\ written THEN entry
                      ELSE IF k \in removed THEN NoEntry ELSE files[k]
      BY <2>4
    <3>2. Affects(block, k) => Agreeing(Outcome(block), files'[k])
      BY <2>3, <2>4, <3>1 DEF Affects, Outcome, Agreeing
    <3>3. ~Affects(block, k) => files'[k] \in {files[k], NoEntry}
      BY <2>3, <3>1 DEF Affects
    <3> QED  BY <1>2, <1>3, <2>5, <3>2, <3>3, MoreBlocks
  <2>7. IsQueue(memoryQueue \o <<block>>)
    BY <1>2, <2>5, ConcatQueue
  <2> QED  BY <1>2, <2>2, <2>4, <2>6, <2>7 DEF CacheInv
<1>7. CASE InvalidateBlock
  <2> DEFINE block == Queued("remove", Head(cacheQueue).key, NoEntry)
  <2>1. memoryQueue' = memoryQueue \o <<block>> /\ memoryCache' = memoryCache
    BY <1>7 DEF InvalidateBlock, InMemory
  <2>2. DOMAIN files' = CacheKey /\ Shrinks(files, files')
    BY <1>2, <1>7, RemovedFiles DEF InvalidateBlock
  <2>3. Outcome(block) = NoEntry
    BY QueuedHas DEF Outcome
  <2> HIDE DEF block
  <2> QED  BY <1>4, <2>1, <2>2, <2>3, OneBlock
<1>8. CASE CleanupBlock
  <2> DEFINE stale == {k \in CacheKey : memoryCache[k] # NoEntry /\ IsExpired(memoryCache[k])}
             removals == {Queued("remove", k, NoEntry) : k \in stale}
             blocks == SetToSeq(removals)
  <2>1. memoryQueue' = memoryQueue \o blocks /\ memoryCache' = memoryCache
    BY <1>8 DEF CleanupBlock, InMemory
  <2>2. DOMAIN files' = CacheKey /\ Shrinks(files, files')
    <3>1. CASE UNCHANGED files
      BY <1>2, <3>1 DEF Shrinks
    <3>2. CASE \E dead : files' = [k \in CacheKey |-> IF k \in dead THEN NoEntry ELSE files[k]]
      BY <1>2, <3>2 DEF Shrinks
    <3> QED  BY <1>8, <3>1, <3>2 DEF CleanupBlock
  <2>3. IsFiniteSet(removals)
    BY RemovalsFinite
  <2>4. \A block \in removals : Outcome(block) = NoEntry
    BY QueuedHas DEF Outcome
  <2> HIDE DEF removals
  <2>5. IsQueue(blocks) /\ \A i \in DOMAIN blocks : blocks[i] \in removals
    BY <2>3, SequenceOfSet
  <2>6. \A i \in DOMAIN blocks : Outcome(blocks[i]) = NoEntry
    BY <2>4, <2>5
  <2> HIDE DEF blocks
  <2> QED  BY <1>4, <2>1, <2>2, <2>5, <2>6
<1>9. CASE ClearMemoryBlock
  <2> DEFINE block == Queued("clear", NoKey, NoEntry)
  <2>1. memoryQueue' = memoryQueue \o <<block>> /\ memoryCache' = memoryCache /\ files' = files
    BY <1>9 DEF ClearMemoryBlock, InMemory, disk
  <2>2. Outcome(block) = NoEntry /\ Shrinks(files, files')
    BY <2>1, QueuedHas DEF Outcome, Shrinks
  <2> HIDE DEF block
  <2> QED  BY <1>2, <1>4, <2>1, <2>2, OneBlock
<1>10. ASSUME memoryQueue' = memoryQueue, Shrinks(memoryCache, memoryCache'),
              Shrinks(files, files'), DOMAIN memoryCache' = CacheKey, DOMAIN files' = CacheKey
       PROVE  CacheInv'
  <2>1. ASSUME NEW k \in CacheKey
        PROVE  CacheAgrees(memoryQueue, memoryCache', files', k)
    BY <1>3, <1>10, EntriesGo
  <2> QED  BY <1>2, <1>10, <2>1 DEF CacheInv
<1>11. CASE ClearDiskBlock
  <2>1. /\ memoryQueue' = memoryQueue /\ memoryCache' = memoryCache
        /\ DOMAIN files' = CacheKey /\ \A k \in CacheKey : files'[k] = NoEntry
    BY <1>11 DEF ClearDiskBlock
  <2> QED  BY <1>2, <1>10, <2>1 DEF Shrinks
<1>12. CASE MemoryEvicts
  <2>1. PICK k \in CacheKey : memoryCache' = [memoryCache EXCEPT ![k] = NoEntry]
    BY <1>12 DEF MemoryEvicts
  <2>2. memoryQueue' = memoryQueue /\ files' = files
    BY <1>12 DEF MemoryEvicts, disk
  <2> QED  BY <1>2, <1>10, <2>1, <2>2 DEF Shrinks
<1>13. CASE RuleSetForSource
  <2>1. PICK k \in CacheKey, youngEnough \in BOOLEAN :
           /\ memoryQueue = <<>>
           /\ \E entry \in {memoryCache[k], NoEntry} :
                 memoryCache' = [memoryCache EXCEPT ![k] = entry]
           /\ \/ /\ memoryQueue' =
                       memoryQueue \o (IF youngEnough THEN <<Queued("set", k, files[k])>> ELSE <<>>)
                 /\ UNCHANGED files
              \/ /\ RemoveFiles({k} \ {j \in CacheKey : files[j] = NoEntry})
                 /\ UNCHANGED memoryQueue
    BY <1>13 DEF RuleSetForSource, InMemory
  <2>2. DOMAIN memoryCache' = CacheKey /\ Shrinks(memoryCache, memoryCache')
    BY <1>2, <2>1 DEF Shrinks
  <2>3. CASE RemoveFiles({k} \ {j \in CacheKey : files[j] = NoEntry}) /\ UNCHANGED memoryQueue
    <3>1. DOMAIN files' = CacheKey /\ Shrinks(files, files')
      BY <1>2, <2>3, RemovedFiles
    <3> QED  BY <1>10, <2>2, <2>3, <3>1
  <2>4. CASE memoryQueue' = memoryQueue /\ UNCHANGED files
    <3>1. DOMAIN files' = CacheKey /\ Shrinks(files, files')
      BY <1>2, <2>4 DEF Shrinks
    <3> QED  BY <1>10, <2>2, <2>4, <3>1
  <2>5. CASE memoryQueue' = memoryQueue \o <<Queued("set", k, files[k])>> /\ UNCHANGED files
    <3> DEFINE block == Queued("set", k, files[k])
    <3>1. block.does # "clear" /\ block.key = k /\ block.entry = files[k]
      BY QueuedHas
    <3>2. memoryQueue' = memoryQueue \o <<block>> /\ files' = files
      BY <2>5
    <3> HIDE DEF block
    <3>3. IsQueue(<<block>>) /\ DOMAIN <<block>> = {1} /\ <<block>>[1] = block
      BY OneBlock
    <3>4. ASSUME NEW j \in CacheKey
          PROVE  CacheAgrees(memoryQueue \o <<block>>, memoryCache', files, j)
      <4>1. CacheAgrees(memoryQueue, memoryCache', files, j)
        <5>1. Shrinks(files, files)
          BY DEF Shrinks
        <5> QED  BY <1>3, <2>2, <5>1, EntriesGo
      <4>2. Affects(block, j) => Agreeing(Outcome(block), files[j])
        BY <3>1 DEF Affects, Outcome, Agreeing
      <4> QED  BY <1>2, <3>3, <4>1, <4>2, MoreBlocks
    <3>5. IsQueue(memoryQueue \o <<block>>)
      BY <1>2, <3>3, ConcatQueue
    <3> QED  BY <1>2, <2>2, <3>2, <3>4, <3>5 DEF CacheInv
  <2>6. <<>> \o <<>> = <<>>
    OBVIOUS
  <2> QED  BY <2>1, <2>3, <2>4, <2>5, <2>6
<1>14. CASE AccessBlock
  <2> DEFINE block == Head(memoryQueue)
  <2>1. /\ memoryQueue # <<>> /\ memoryQueue' = Tail(memoryQueue) /\ files' = files
        /\ memoryCache' = IF block.does = "clear" THEN [k \in CacheKey |-> NoEntry]
                          ELSE [memoryCache EXCEPT ![block.key] = block.entry]
    BY <1>14 DEF AccessBlock, disk
  <2> HIDE DEF block
  <2>2. DOMAIN memoryCache' = CacheKey
    BY <1>2, <2>1
  <2>3. ASSUME NEW k \in CacheKey
        PROVE  memoryCache'[k] = IF Affects(block, k) THEN Outcome(block) ELSE memoryCache[k]
    BY <1>2, <2>1 DEF Affects, Outcome
  <2>4. ASSUME NEW k \in CacheKey
        PROVE  CacheAgrees(Tail(memoryQueue), memoryCache', files, k)
    BY <1>2, <1>3, <2>1, <2>3, BlockRuns DEF block
  <2>5. IsQueue(Tail(memoryQueue))
    BY <1>2, <2>1, TailOfQueue
  <2> QED  BY <1>2, <2>1, <2>2, <2>4, <2>5 DEF CacheInv
<1>15. CASE Crash
  <2>1. /\ memoryQueue' = <<>> /\ DOMAIN memoryCache' = CacheKey /\ files' = files
        /\ \A k \in CacheKey : memoryCache'[k] = NoEntry
    BY <1>15 DEF Crash
  <2>2. IsQueue(<<>>) /\ DOMAIN <<>> = {}
    BY NothingInQueue
  <2>3. ASSUME NEW k \in CacheKey
        PROVE  CacheAgrees(<<>>, memoryCache', files, k)
    BY <2>1, <2>2 DEF CacheAgrees, Agreeing
  <2> QED  BY <1>2, <2>1, <2>2, <2>3 DEF CacheInv
<1>16. \/ StoreBlock \/ InvalidateBlock \/ CleanupBlock \/ ClearMemoryBlock \/ ClearDiskBlock
       \/ RuleSetForSource \/ AccessBlock \/ MemoryEvicts \/ Crash
       \/ UNCHANGED <<memoryCache, files, memoryQueue>>
  BY <1>1 DEF CacheNext, cacheVars, StoreRuleSet, InvalidateCacheForSource,
              InvalidateExpiredEntries, ClearMemoryCache, ClearDiskCache, SaveMetadata,
              EntryExpires, Call, disk
<1> QED  BY <1>5, <1>6, <1>7, <1>8, <1>9, <1>11, <1>12, <1>13, <1>14, <1>15, <1>16

LEMMA CacheBegins == CacheInit => CacheInv
<1> SUFFICES ASSUME CacheInit PROVE CacheInv
  OBVIOUS
<1>1. /\ memoryQueue = <<>> /\ DOMAIN memoryCache = CacheKey /\ DOMAIN files = CacheKey
      /\ \A k \in CacheKey : memoryCache[k] = NoEntry
  BY DEF CacheInit
<1>2. IsQueue(<<>>) /\ DOMAIN <<>> = {}
  BY NothingInQueue
<1> QED  BY <1>1, <1>2 DEF CacheInv, CacheAgrees, Agreeing

\* For any keys, sizes and limits, and whatever crashes, evictions and failed writes there
\* are: once the memory cache has run what is queued on it, what it holds of a source is what
\* the source's file holds, if there is one (RuleCache.m:144-176, 184-234).
THEOREM CachesAgreeHolds == CacheSpec => []CachesAgree
<1>1. CacheInv => CachesAgree
  <2>1. DOMAIN <<>> = {}
    OBVIOUS
  <2> QED  BY <2>1 DEF CacheInv, CacheAgrees, Agreeing, CachesAgree
<1> QED  BY <1>1, CacheBegins, CacheStep, PTL DEF CacheSpec

-----------------------------------------------------------------------------
(* RuleSetCaches: types *)

AnyOf(s) == CHOOSE x \in s : TRUE

\* What is one smaller than a finite set, and what is no larger than nothing.
LEMMA AnyRemoved ==
    ASSUME NEW S, IsFiniteSet(S)
    PROVE  \A s \in SUBSET S :
              /\ Cardinality(s) \in 0 .. Cardinality(S)
              /\ Cardinality(s) = 0 <=> s = {}
              /\ s # {} => /\ AnyOf(s) \in S /\ s \ {AnyOf(s)} \in SUBSET S
                           /\ Cardinality(s \ {AnyOf(s)}) = Cardinality(s) - 1
<1> SUFFICES ASSUME NEW s \in SUBSET S
             PROVE  /\ Cardinality(s) \in 0 .. Cardinality(S)
                    /\ Cardinality(s) = 0 <=> s = {}
                    /\ s # {} => /\ AnyOf(s) \in S /\ s \ {AnyOf(s)} \in SUBSET S
                                 /\ Cardinality(s \ {AnyOf(s)}) = Cardinality(s) - 1
  OBVIOUS
<1>1. IsFiniteSet(s) /\ Cardinality(s) <= Cardinality(S)
  BY FS_Subset
<1>2. Cardinality(s) \in Nat /\ Cardinality(S) \in Nat
  BY <1>1, FS_CardinalityType
<1>3. Cardinality(s) = 0 <=> s = {}
  BY <1>1, FS_EmptySet
<1>4. ASSUME s # {}
      PROVE  /\ AnyOf(s) \in S /\ s \ {AnyOf(s)} \in SUBSET S
             /\ Cardinality(s \ {AnyOf(s)}) = Cardinality(s) - 1
  <2>1. AnyOf(s) \in s
    BY <1>4 DEF AnyOf
  <2> QED  BY <1>1, <2>1, FS_RemoveElement
<1> QED  BY <1>1, <1>2, <1>3, <1>4

\* f adds up the sizes of the sets of keys that have k members at most.
AddsUp(f, keys, k) ==
    \A s \in SUBSET keys :
        Cardinality(s) <= k =>
            f[s] = IF s = {} THEN 0 ELSE files[AnyOf(s)].dataSize + f[s \ {AnyOf(s)}]

LEMMA SizeIsNat ==
    ASSUME NEW keys, IsFiniteSet(keys), \A k \in keys : files[k].dataSize \in Nat
    PROVE  SizeOf(keys) \in Nat
<1>n. PICK n : n = Cardinality(keys)
  OBVIOUS
<1>1. n \in Nat /\ \A s \in SUBSET keys :
                      /\ Cardinality(s) \in 0 .. n /\ (Cardinality(s) = 0 <=> s = {})
                      /\ s # {} => /\ AnyOf(s) \in keys /\ s \ {AnyOf(s)} \in SUBSET keys
                                   /\ Cardinality(s \ {AnyOf(s)}) = Cardinality(s) - 1
  BY <1>n, AnyRemoved, FS_CardinalityType
<1>e. {} \in SUBSET keys /\ \A s \in SUBSET keys : Cardinality(s) <= 0 => s = {}
  <2> SUFFICES ASSUME NEW s \in SUBSET keys, Cardinality(s) <= 0 PROVE s = {}
    OBVIOUS
  <2>1. Cardinality(s) \in 0 .. n /\ (Cardinality(s) = 0 <=> s = {})
    BY <1>1
  <2>2. Cardinality(s) = 0
    BY <1>1, <2>1
  <2> QED  BY <2>1, <2>2
<1> DEFINE Loop(f) ==
               f = [s \in SUBSET keys |->
                       IF s = {} THEN 0 ELSE files[AnyOf(s)].dataSize + f[s \ {AnyOf(s)}]]
           P == {k \in 0 .. n : \E f \in [SUBSET keys -> Nat] : AddsUp(f, keys, k)}
<1>2. SizeOf(keys) = (CHOOSE f : Loop(f))[keys]
  BY DEF SizeOf, FoldFunctionOnSet, MapThenFoldSet, AnyOf
<1>3. 0 \in P
  <2> DEFINE f == [s \in SUBSET keys |-> 0]
  <2>1. f \in [SUBSET keys -> Nat] /\ AddsUp(f, keys, 0)
    BY <1>e DEF AddsUp
  <2> HIDE DEF f
  <2>2. 0 \in 0 .. n
    BY <1>1
  <2> QED  BY <2>1, <2>2
<1>4. ASSUME NEW k \in 0 .. n - 1, k \in P
      PROVE  k + 1 \in P
  <2>1. PICK f \in [SUBSET keys -> Nat] : AddsUp(f, keys, k)
    BY <1>4
  <2> DEFINE next(s) == IF s = {} THEN 0 ELSE files[AnyOf(s)].dataSize + f[s \ {AnyOf(s)}]
             h == [s \in SUBSET keys |-> IF Cardinality(s) <= k THEN f[s] ELSE next(s)]
  <2>2. \A s \in SUBSET keys : next(s) \in Nat
    <3> TAKE s \in SUBSET keys
    <3>1. CASE s = {}
      BY <3>1
    <3>2. CASE s # {}
      <4>1. AnyOf(s) \in keys /\ s \ {AnyOf(s)} \in SUBSET keys
        BY <1>1, <3>2
      <4>2. files[AnyOf(s)].dataSize \in Nat /\ f[s \ {AnyOf(s)}] \in Nat
        BY <2>1, <4>1
      <4> QED  BY <3>2, <4>2
    <3> QED  BY <3>1, <3>2
  <2>3. \A s \in SUBSET keys : Cardinality(s) <= k => f[s] = next(s)
    BY <2>1 DEF AddsUp
  <2>4. h \in [SUBSET keys -> Nat]
    BY <2>2
  <2>5. ASSUME NEW s \in SUBSET keys, Cardinality(s) <= k + 1
        PROVE  h[s] = IF s = {} THEN 0 ELSE files[AnyOf(s)].dataSize + h[s \ {AnyOf(s)}]
    <3>1. h[s] = next(s)
      BY <2>3
    <3>2. CASE s = {}
      BY <3>1, <3>2
    <3>3. CASE s # {}
      <4>1. s \ {AnyOf(s)} \in SUBSET keys
            /\ Cardinality(s \ {AnyOf(s)}) = Cardinality(s) - 1 /\ Cardinality(s) \in 0 .. n
        BY <1>1, <3>3
      <4>2. Cardinality(s \ {AnyOf(s)}) <= k
        BY <2>5, <4>1
      <4>3. h[s \ {AnyOf(s)}] = f[s \ {AnyOf(s)}]
        BY <4>1, <4>2
      <4> QED  BY <3>1, <3>3, <4>3
    <3> QED  BY <3>2, <3>3
  <2>6. AddsUp(h, keys, k + 1)
    BY <2>5 DEF AddsUp
  <2> HIDE DEF h
  <2>7. k + 1 \in 0 .. n
    BY <1>1
  <2> QED  BY <2>4, <2>6, <2>7
<1>5. n \in P
  <2>1. \A k \in 0 .. n - 1 : k \in P => k + 1 \in P
    BY <1>4
  <2>2. n \in 0 .. n
    BY <1>1
  <2> HIDE DEF P
  <2> QED  BY <1>1, <1>3, <2>1, <2>2, UpTo
<1>6. \E f : Loop(f)
  <2>1. PICK f \in [SUBSET keys -> Nat] : AddsUp(f, keys, n)
    BY <1>5
  <2>2. \A s \in SUBSET keys :
            f[s] = IF s = {} THEN 0 ELSE files[AnyOf(s)].dataSize + f[s \ {AnyOf(s)}]
    <3> TAKE s \in SUBSET keys
    <3>1. Cardinality(s) \in 0 .. n
      BY <1>1
    <3>2. Cardinality(s) <= n
      BY <1>1, <3>1
    <3> QED  BY <2>1, <3>2 DEF AddsUp
  <2>3. Loop(f)
    BY <2>2
  <2> QED  BY <2>3
<1>7. PICK g : Loop(g) /\ SizeOf(keys) = g[keys]
  BY <1>2, <1>6
<1>8. g[{}] = 0 /\ \A s \in SUBSET keys :
                      s # {} => g[s] = files[AnyOf(s)].dataSize + g[s \ {AnyOf(s)}]
  BY <1>7
<1> DEFINE Q == {k \in 0 .. n : \A s \in SUBSET keys : Cardinality(s) <= k => g[s] \in Nat}
<1>9. 0 \in Q
  <2>1. 0 \in 0 .. n
    BY <1>1
  <2>2. \A s \in SUBSET keys : Cardinality(s) <= 0 => g[s] \in Nat
    <3> SUFFICES ASSUME NEW s \in SUBSET keys, Cardinality(s) <= 0 PROVE g[s] \in Nat
      OBVIOUS
    <3>1. s = {}
      BY <1>e
    <3>2. g[{}] = 0
      BY <1>8
    <3> QED  BY <3>1, <3>2
  <2> QED  BY <2>1, <2>2
<1>10. ASSUME NEW k \in 0 .. n - 1, k \in Q
       PROVE  k + 1 \in Q
  <2>1. ASSUME NEW s \in SUBSET keys, Cardinality(s) <= k + 1
        PROVE  g[s] \in Nat
    <3>1. CASE s = {}
      BY <1>8, <3>1
    <3>2. CASE s # {}
      <4>1. /\ AnyOf(s) \in keys /\ s \ {AnyOf(s)} \in SUBSET keys
            /\ Cardinality(s \ {AnyOf(s)}) = Cardinality(s) - 1 /\ Cardinality(s) \in 0 .. n
        BY <1>1, <3>2
      <4>2. Cardinality(s \ {AnyOf(s)}) <= k
        BY <2>1, <4>1
      <4>3. g[s \ {AnyOf(s)}] \in Nat
        BY <1>10, <4>1, <4>2
      <4> QED  BY <1>8, <3>2, <4>1, <4>3
    <3> QED  BY <3>1, <3>2
  <2>2. k + 1 \in 0 .. n
    BY <1>1
  <2> QED  BY <2>1, <2>2
<1>11. n \in Q
  <2>1. \A k \in 0 .. n - 1 : k \in Q => k + 1 \in Q
    BY <1>10
  <2>2. n \in 0 .. n
    BY <1>1
  <2> HIDE DEF Q
  <2> QED  BY <1>1, <1>9, <2>1, <2>2, UpTo
<1>12. keys \in SUBSET keys /\ Cardinality(keys) <= n
  BY <1>n, <1>1
<1> QED  BY <1>7, <1>11, <1>12

\* A block that stores has an entry to store.
CallerBlock == {block \in CacheBlock : block.does = "store" => block.entry \in CacheEntry}
OnDisk == {k \in CacheKey : files[k] # NoEntry}

\* Only what has a file has a date; a store that is under way is first on its queue.
CacheTypeInv ==
    /\ CacheTypeOK
    /\ cacheQueue \in Seq(CallerBlock) /\ fileDates \in Seq(OnDisk)
    /\ storing => cacheQueue # <<>>
    /\ stores \in 0 .. MaxStores

LEMMA SetInSeq ==
    ASSUME NEW S, IsFiniteSet(S), NEW T, S \subseteq T
    PROVE  SetToSeq(S) \in Seq(T)
<1>1. /\ Cardinality(S) \in Nat
      /\ ExistsBijection(1 .. Cardinality(S), S)
  BY FS_CardinalityType
<1>2. \E f \in [1 .. Cardinality(S) -> S] : IsInjective(f)
  BY <1>1 DEF ExistsBijection, Bijection, Injection
<1>3. SetToSeq(S) \in [1 .. Cardinality(S) -> S]
  BY <1>2 DEF SetToSeq
<1>4. SetToSeq(S) \in Seq(S)
  BY <1>1, <1>3, SeqDef
<1> QED  BY <1>4, SeqMonotonic

LEMMA UnsignedType == ASSUME NEW n \in Int PROVE Unsigned(n) \in 0 .. SizeLimit - 1
BY CacheAssumption, SMTT(20) DEF Unsigned

LEMMA EntrySizes == \A entry \in CacheEntry : entry.dataSize \in Nat
<1>1. FileSizes \subseteq Nat
  BY CacheAssumption
<1>2. \A entry \in CacheEntry : entry.dataSize \in FileSizes
  BY DEF CacheEntry
<1> QED  BY <1>1, <1>2

\* A file has a size.
LEMMA SizeIsInt ==
    ASSUME files \in [CacheKey -> CacheEntry \cup {NoEntry}], NEW keys \in SUBSET OnDisk
    PROVE  SizeOf(keys) \in Int
<1>1. IsFiniteSet(keys)
  BY CacheAssumption, FS_Subset DEF OnDisk
<1>2. ASSUME NEW k \in keys PROVE files[k].dataSize \in Nat
  <2>1. files[k] \in CacheEntry
    BY DEF OnDisk
  <2> QED  BY <2>1, EntrySizes
<1> QED  BY <1>1, <1>2, SizeIsNat

LEMMA SelectionKeeps ==
    ASSUME NEW S, NEW list \in Seq(S), NEW wanted
    PROVE  Those(list, wanted) \in Seq(S \cap wanted)
<1> DEFINE T == S \cap wanted
<1>1. PICK r : /\ r[0] = <<>>
               /\ \A k \in 1 .. Len(list) : r[k] = Selecting(r[k - 1], list[k], wanted)
               /\ Those(list, wanted) = r[Len(list)]
  BY SelectionTurns
<1>n. PICK n : n = Len(list)
  OBVIOUS
<1>2. n \in Nat /\ \A i \in 1 .. n : list[i] \in S
  BY <1>n, LenProperties, ElementOfSeq
<1> DEFINE P == {k \in 0 .. n : r[k] \in Seq(T)}
<1>3. 0 \in P
  <2>1. <<>> \in Seq(T) /\ 0 \in 0 .. n
    BY <1>2, EmptySeq
  <2> QED  BY <1>1, <2>1
<1>4. ASSUME NEW k \in 0 .. n - 1, k \in P
      PROVE  k + 1 \in P
  <2>1. k + 1 \in 1 .. n /\ k + 1 \in 0 .. n /\ (k + 1) - 1 = k
    BY <1>2
  <2>2. r[k + 1] = Selecting(r[k], list[k + 1], wanted)
    BY <1>1, <1>n, <2>1
  <2>3. r[k] \in Seq(T) /\ list[k + 1] \in S
    BY <1>2, <1>4, <2>1
  <2>4. r[k + 1] \in Seq(T)
    <3>1. CASE list[k + 1] \in wanted
      <4>1. list[k + 1] \in T
        BY <2>3, <3>1
      <4> QED  BY <2>2, <2>3, <3>1, <4>1, AppendProperties DEF Selecting
    <3>2. CASE list[k + 1] \notin wanted
      BY <2>2, <2>3, <3>2 DEF Selecting
    <3> QED  BY <3>1, <3>2
  <2> QED  BY <2>1, <2>4
<1>5. n \in P
  <2>1. \A k \in 0 .. n - 1 : k \in P => k + 1 \in P
    BY <1>4
  <2>2. n \in 0 .. n
    BY <1>2
  <2> HIDE DEF P
  <2> QED  BY <1>2, <1>3, <2>1, <2>2, UpTo
<1> QED  BY <1>1, <1>n, <1>5

\* What is removed from the files goes from their dates, too.
LEMMA DatesKept ==
    ASSUME NEW keys, NEW left, fileDates \in Seq(OnDisk), OnDisk \ keys \subseteq left
    PROVE  Without(fileDates, keys) \in Seq(left)
<1> DEFINE w == CacheKey \ keys
<1>1. Those(fileDates, w) \in Seq(OnDisk \cap w)
  BY SelectionKeeps
<1>2. OnDisk \cap w \subseteq left
  BY DEF OnDisk
<1> HIDE DEF w
<1>3. Those(fileDates, w) \in Seq(left)
  BY <1>1, <1>2, SeqMonotonic
<1> QED  BY <1>3 DEF Without, w

LEMMA RemovalTypes ==
    ASSUME CacheTypeInv, NEW keys \in SUBSET OnDisk, RemoveFiles(keys)
    PROVE  /\ files' \in [CacheKey -> CacheEntry \cup {NoEntry}]
           /\ fileDates' \in Seq(OnDisk') /\ fileDates' \in Seq(CacheKey)
           /\ totalSize' \in 0 .. SizeLimit - 1
<1>1. /\ files \in [CacheKey -> CacheEntry \cup {NoEntry}] /\ fileDates \in Seq(OnDisk)
      /\ totalSize \in 0 .. SizeLimit - 1
  BY DEF CacheTypeInv, CacheTypeOK
<1>2. /\ files' = [k \in CacheKey |-> IF k \in keys THEN NoEntry ELSE files[k]]
      /\ fileDates' = Without(fileDates, keys)
      /\ totalSize' = Unsigned(totalSize - SizeOf(keys))
  BY DEF RemoveFiles
<1>3. OnDisk \ keys \subseteq OnDisk' /\ OnDisk' \subseteq CacheKey
  BY <1>2 DEF OnDisk
<1>4. fileDates' \in Seq(OnDisk')
  BY <1>1, <1>2, <1>3, DatesKept
<1>5. SizeOf(keys) \in Int
  BY <1>1, SizeIsInt
<1>6. totalSize - SizeOf(keys) \in Int
  BY <1>1, <1>5
<1>7. totalSize' \in 0 .. SizeLimit - 1
  BY <1>2, <1>6, UnsignedType
<1>8. fileDates' \in Seq(CacheKey)
  BY <1>3, <1>4, SeqMonotonic
<1> QED  BY <1>1, <1>2, <1>4, <1>7, <1>8

LEMMA EvictedOnDisk ==
    ASSUME fileDates \in Seq(OnDisk), NEW size
    PROVE  EvictedFor(size) \subseteq OnDisk
<1>1. /\ Len(fileDates) \in Nat /\ \A i \in 1 .. Len(fileDates) : fileDates[i] \in OnDisk
  BY LenProperties, ElementOfSeq
<1>2. \A n \in 0 .. Len(fileDates) : OldestFiles(n) \subseteq OnDisk
  BY <1>1 DEF OldestFiles
<1> DEFINE stops == {n \in 0 .. Len(fileDates) : FreedEnough(n, size)}
<1>3. stops # {} => Min(stops) \in 0 .. Len(fileDates)
  <2> SUFFICES ASSUME stops # {} PROVE Min(stops) \in stops
    OBVIOUS
  <2>1. stops \in SUBSET Nat
    BY <1>1
  <2> HIDE DEF stops
  <2>2. \E x \in stops : \A y \in stops : x <= y
    BY <2>1, LeastOf
  <2> QED  BY <2>2 DEF Min
<1>4. Len(fileDates) \in 0 .. Len(fileDates)
  BY <1>1
<1>5. (IF stops = {} THEN Len(fileDates) ELSE Min(stops)) \in 0 .. Len(fileDates)
  BY <1>3, <1>4
<1> HIDE DEF stops
<1>6. OldestFiles(IF stops = {} THEN Len(fileDates) ELSE Min(stops)) \subseteq OnDisk
  BY <1>2, <1>5
<1> QED  BY <1>6 DEF EvictedFor, stops

LEMMA StoreTypes ==
    ASSUME CacheTypeInv, NEW key \in CacheKey, NEW entry \in CacheEntry, NEW written \in BOOLEAN,
           StoreEntry(key, entry, written)
    PROVE  /\ files' \in [CacheKey -> CacheEntry \cup {NoEntry}]
           /\ fileDates' \in Seq(OnDisk') /\ fileDates' \in Seq(CacheKey)
           /\ totalSize' \in 0 .. SizeLimit - 1
<1>1. /\ files \in [CacheKey -> CacheEntry \cup {NoEntry}] /\ fileDates \in Seq(OnDisk)
      /\ totalSize \in 0 .. SizeLimit - 1
  BY DEF CacheTypeInv, CacheTypeOK
<1> DEFINE gone == EvictedFor(entry.dataSize) \cup (IF files[key] = NoEntry THEN {} ELSE {key})
           dated == IF written THEN <<key>> ELSE <<>>
           added == IF written THEN entry.dataSize ELSE 0
<1>2. /\ files' = [k \in CacheKey |-> IF k = key /\ written THEN entry
                                      ELSE IF k \in gone THEN NoEntry ELSE files[k]]
      /\ fileDates' = Without(fileDates, gone) \o dated
      /\ totalSize' = Unsigned(totalSize - SizeOf(gone) + added)
  BY DEF StoreEntry
<1>3. gone \in SUBSET OnDisk
  BY <1>1, EvictedOnDisk DEF OnDisk
<1>4. SizeOf(gone) \in Int
  BY <1>1, <1>3, SizeIsInt
<1>5. added \in Int
  BY EntrySizes
<1>6. dated \in Seq(OnDisk')
  <2>1. CASE written
    <3>1. files'[key] = entry /\ entry # NoEntry
      BY <1>2, <2>1, CacheAssumption
    <3>2. key \in OnDisk'
      BY <3>1 DEF OnDisk
    <3> QED  BY <2>1, <3>2
  <2>2. CASE ~written
    BY <2>2, EmptySeq
  <2> QED  BY <2>1, <2>2
<1> HIDE DEF gone, dated, added
<1>7. OnDisk \ gone \subseteq OnDisk' /\ OnDisk' \subseteq CacheKey
  <2> SUFFICES ASSUME NEW k \in OnDisk, k \notin gone PROVE files'[k] # NoEntry
    BY DEF OnDisk
  <2>1. files[k] # NoEntry /\ entry # NoEntry /\ k \in CacheKey
    BY CacheAssumption DEF OnDisk
  <2> QED  BY <1>2, <2>1
<1>8. Without(fileDates, gone) \in Seq(OnDisk')
  BY <1>1, <1>7, DatesKept
<1>9. fileDates' \in Seq(OnDisk')
  BY <1>2, <1>6, <1>8, ConcatProperties
<1>10. totalSize - SizeOf(gone) + added \in Int
  BY <1>1, <1>4, <1>5
<1>11. totalSize' \in 0 .. SizeLimit - 1
  BY <1>2, <1>10, UnsignedType
<1>12. fileDates' \in Seq(CacheKey)
  BY <1>7, <1>9, SeqMonotonic
<1> QED  BY <1>1, <1>2, <1>9, <1>11, <1>12

LEMMA CacheTypeStep == CacheTypeInv /\ [CacheNext]_cacheVars => CacheTypeInv'
<1> SUFFICES ASSUME CacheTypeInv, [CacheNext]_cacheVars
             PROVE  CacheTypeInv'
  OBVIOUS
<1> USE DEF disk, counts
<1> DEFINE Entries == CacheEntry \cup {NoEntry}
\* What is left to show of each step.
           InMemoryTypes == memoryCache' \in [CacheKey -> Entries]
           Stored == /\ files' \in [CacheKey -> Entries]
                     /\ fileDates' \in Seq(OnDisk') /\ fileDates' \in Seq(CacheKey)
                     /\ totalSize' \in 0 .. SizeLimit - 1
           Saved == savedTotalSize' \in 0 .. SizeLimit - 1
           Accesses == memoryQueue' \in Seq(MemoryBlock)
           Called == cacheQueue' \in Seq(CallerBlock)
           UnderWay == storing' \in BOOLEAN /\ (storing' => cacheQueue' # <<>>)
           Clears == clearing' \in BOOLEAN
           Known == /\ expiredVersions' \subseteq 1 .. MaxStores /\ stores' \in 0 .. MaxStores
                    /\ invalidated' \subseteq CacheKey
<1>1. /\ memoryCache \in [CacheKey -> Entries] /\ files \in [CacheKey -> Entries]
      /\ fileDates \in Seq(OnDisk) /\ fileDates \in Seq(CacheKey)
      /\ totalSize \in 0 .. SizeLimit - 1 /\ savedTotalSize \in 0 .. SizeLimit - 1
      /\ memoryQueue \in Seq(MemoryBlock) /\ cacheQueue \in Seq(CallerBlock)
      /\ expiredVersions \subseteq 1 .. MaxStores /\ stores \in 0 .. MaxStores
      /\ invalidated \subseteq CacheKey
  BY DEF CacheTypeInv, CacheTypeOK
<1>2. storing \in BOOLEAN /\ (storing => cacheQueue # <<>>) /\ clearing \in BOOLEAN
  BY DEF CacheTypeInv, CacheTypeOK
<1>3. ASSUME InMemoryTypes, Stored, Saved, Accesses, Called, UnderWay, Clears, Known
      PROVE  CacheTypeInv'
  <2>1. cacheQueue' \in Seq(CacheBlock)
    <3>1. CallerBlock \subseteq CacheBlock
      BY DEF CallerBlock
    <3> QED  BY <1>3, <3>1, SeqMonotonic
  <2>2. CacheTypeOK'
    BY <1>3, <2>1 DEF CacheTypeOK
  <2> QED  BY <1>3, <2>2 DEF CacheTypeInv
\* What stays as it is stays in its type.
<1>4. /\ UNCHANGED memoryCache => InMemoryTypes
      /\ UNCHANGED savedTotalSize => Saved
      /\ UNCHANGED memoryQueue => Accesses
      /\ UNCHANGED cacheQueue => Called
      /\ UNCHANGED clearing => Clears
      /\ UNCHANGED <<expiredVersions, stores, invalidated>> => Known
  BY <1>1, <1>2
<1>5. UNCHANGED <<storing, cacheQueue>> => UnderWay
  BY <1>2
<1>6. UNCHANGED <<files, fileDates, totalSize>> => Stored
  BY <1>1 DEF OnDisk
<1>7. NoKey \in CacheKey
  BY CacheAssumption DEF NoKey
<1>8. \A key \in CacheKey :
          /\ \A what \in {"invalidate", "cleanup", "clearMemory", "clearDisk"} :
                Queued(what, key, NoEntry) \in CallerBlock
          /\ \A entry \in CacheEntry : Queued("store", key, entry) \in CallerBlock
          /\ \A what \in {"set", "remove", "clear"}, entry \in Entries :
                Queued(what, key, entry) \in MemoryBlock
  BY DEF Queued, CallerBlock, CacheBlock, MemoryBlock
<1>9. ASSUME NEW block \in MemoryBlock, InMemory(<<block>>)
      PROVE  Accesses
  <2>1. <<block>> \in Seq(MemoryBlock)
    OBVIOUS
  <2> QED  BY <1>1, <1>9, <2>1, ConcatProperties DEF InMemory
<1>10. ASSUME NEW block \in CallerBlock, Call(<<block>>),
              stores' \in 0 .. MaxStores, clearing' \in BOOLEAN
       PROVE  CacheTypeInv'
  <2>1. <<block>> \in Seq(CallerBlock) /\ Len(<<block>>) = 1
    OBVIOUS
  <2>2. /\ cacheQueue' = cacheQueue \o <<block>>
        /\ UNCHANGED <<memoryCache, files, fileDates, totalSize, savedTotalSize, memoryQueue,
                       storing, invalidated, expiredVersions>>
    BY <1>10 DEF Call
  <2>3. cacheQueue' \in Seq(CallerBlock) /\ Len(cacheQueue') = Len(cacheQueue) + 1
    BY <1>1, <2>1, <2>2, ConcatProperties
  <2>4. cacheQueue' # <<>>
    <3>1. Len(cacheQueue) \in Nat
      BY <1>1, LenProperties
    <3>2. Len(<<>>) = 0
      OBVIOUS
    <3> QED  BY <2>3, <3>1, <3>2
  <2>5. UnderWay
    BY <1>2, <2>2, <2>4
  <2> QED  BY <1>1, <1>3, <1>4, <1>6, <1>10, <2>2, <2>3, <2>5
\* A block of cacheQueue that is not stopped in its course.
<1>11. ASSUME NEW what, Begins(what)
       PROVE  /\ Head(cacheQueue) \in CallerBlock /\ Head(cacheQueue).does = what
              /\ Head(cacheQueue).key \in CacheKey
              /\ Tail(cacheQueue) \in Seq(CallerBlock) /\ cacheQueue # <<>>
              /\ storing = FALSE
  <2>1. cacheQueue # <<>> /\ Head(cacheQueue).does = what
    BY <1>11 DEF Begins
  <2>2. storing = FALSE
    BY <1>2, <1>11 DEF Begins
  <2>3. Head(cacheQueue) \in CallerBlock /\ Tail(cacheQueue) \in Seq(CallerBlock)
    BY <1>1, <2>1, BlocksLeft
  <2>4. Head(cacheQueue).key \in CacheKey
    BY <2>3 DEF CallerBlock, CacheBlock
  <2> QED  BY <2>1, <2>2, <2>3, <2>4
<1>12. CASE StoreRuleSet
  <2>1. PICK k \in CacheKey, size \in FileSizes :
            Call(<<Queued("store", k, [version |-> stores + 1, dataSize |-> size])>>)
    BY <1>12 DEF StoreRuleSet
  <2>2. stores < MaxStores /\ stores' = stores + 1 /\ clearing' = clearing
    BY <1>12 DEF StoreRuleSet
  <2>3. stores + 1 \in 1 .. MaxStores /\ stores' \in 0 .. MaxStores
    BY <1>1, <2>2, CacheAssumption
  <2>4. [version |-> stores + 1, dataSize |-> size] \in CacheEntry
    BY <2>3 DEF CacheEntry
  <2>5. clearing' \in BOOLEAN
    BY <1>2, <2>2
  <2> QED  BY <1>8, <1>10, <2>1, <2>3, <2>4, <2>5
<1>13. CASE InvalidateCacheForSource
  <2>1. PICK k \in CacheKey : Call(<<Queued("invalidate", k, NoEntry)>>)
    BY <1>13 DEF InvalidateCacheForSource
  <2>2. stores' = stores /\ clearing' = clearing
    BY <1>13 DEF InvalidateCacheForSource
  <2>3. clearing' \in BOOLEAN
    BY <1>2, <2>2
  <2> QED  BY <1>1, <1>8, <1>10, <2>1, <2>2, <2>3
<1>14. CASE InvalidateExpiredEntries
  <2>1. Call(<<Queued("cleanup", NoKey, NoEntry)>>) /\ stores' = stores /\ clearing' = clearing
    BY <1>14 DEF InvalidateExpiredEntries
  <2>2. clearing' \in BOOLEAN
    BY <1>2, <2>1
  <2> QED  BY <1>1, <1>7, <1>8, <1>10, <2>1, <2>2
<1>15. CASE ClearMemoryCache
  <2>1. Call(<<Queued("clearMemory", NoKey, NoEntry)>>) /\ stores' = stores
    BY <1>15 DEF ClearMemoryCache
  <2>2. clearing' = TRUE
    BY <1>15 DEF ClearMemoryCache
  <2>3. clearing' \in BOOLEAN
    BY <2>2
  <2> QED  BY <1>1, <1>7, <1>8, <1>10, <2>1, <2>3
<1>16. CASE ClearDiskCache
  <2>1. /\ cacheQueue' = Append(cacheQueue, Queued("clearDisk", NoKey, NoEntry))
        /\ UNCHANGED <<memoryCache, files, fileDates, totalSize, savedTotalSize, memoryQueue,
                       storing, invalidated, expiredVersions, stores>>
    BY <1>16 DEF ClearDiskCache
  <2>2. Clears
    BY <1>16 DEF ClearDiskCache
  <2>3. Called /\ cacheQueue' # <<>>
    BY <1>1, <1>7, <1>8, <2>1, AppendProperties
  <2>4. UnderWay
    BY <1>2, <2>1, <2>3
  <2> QED  BY <1>3, <1>4, <1>6, <2>1, <2>2, <2>3, <2>4
<1>17. CASE StoreBlock
  <2>1. Begins("store")
    BY <1>17 DEF StoreBlock
  <2>2. PICK key : key = Head(cacheQueue).key
    OBVIOUS
  <2>3. PICK entry : entry = Head(cacheQueue).entry
    OBVIOUS
  <2>4. key \in CacheKey /\ entry \in CacheEntry /\ cacheQueue # <<>>
    BY <1>11, <2>1, <2>2, <2>3 DEF CallerBlock
  <2>5. PICK written \in BOOLEAN :
            /\ StoreEntry(key, entry, written) /\ storing' = written
            /\ cacheQueue' = IF written THEN cacheQueue ELSE Tail(cacheQueue)
    BY <1>17, <2>2, <2>3 DEF StoreBlock
  <2>6. /\ InMemory(<<Queued("set", key, entry)>>) /\ invalidated' = invalidated \ {key}
        /\ UNCHANGED <<memoryCache, savedTotalSize, clearing, expiredVersions, stores>>
    BY <1>17, <2>2, <2>3 DEF StoreBlock
  <2>7. Stored
    BY <2>4, <2>5, StoreTypes
  <2>8. Accesses
    BY <1>8, <1>9, <2>4, <2>6
  <2>9. Known
    BY <1>1, <2>6
  <2>10. Called
    BY <1>1, <1>11, <2>1, <2>5
  <2>11. UnderWay
    BY <2>4, <2>5
  <2> QED  BY <1>3, <1>4, <2>6, <2>7, <2>8, <2>9, <2>10, <2>11
<1>18. CASE SaveMetadata
  <2>1. /\ cacheQueue' = Tail(cacheQueue) /\ savedTotalSize' = totalSize
        /\ UNCHANGED <<memoryCache, files, fileDates, totalSize, memoryQueue, clearing,
                       invalidated, expiredVersions, stores>>
    BY <1>18 DEF SaveMetadata, Ends
  <2>2. UnderWay
    BY <1>18 DEF SaveMetadata
  <2>3. cacheQueue # <<>>
    BY <1>2, <1>18 DEF SaveMetadata
  <2>4. Called
    BY <1>1, <2>1, <2>3, BlocksLeft
  <2>5. Saved
    BY <1>1, <2>1
  <2> QED  BY <1>3, <1>4, <1>6, <2>1, <2>2, <2>4, <2>5
<1>19. CASE InvalidateBlock
  <2>1. Begins("invalidate") /\ cacheQueue' = Tail(cacheQueue) /\ storing' = storing
    BY <1>19 DEF InvalidateBlock, Ends
  <2>2. PICK key : key = Head(cacheQueue).key
    OBVIOUS
  <2>3. /\ InMemory(<<Queued("remove", key, NoEntry)>>)
        /\ RemoveFiles({key} \ {k \in CacheKey : files[k] = NoEntry})
        /\ invalidated' = invalidated \cup {key}
        /\ UNCHANGED <<memoryCache, savedTotalSize, clearing, expiredVersions, stores>>
    BY <1>19, <2>2 DEF InvalidateBlock
  <2>4. key \in CacheKey /\ Tail(cacheQueue) \in Seq(CallerBlock) /\ storing = FALSE
    BY <1>11, <2>1, <2>2
  <2>5. Stored
    <3>1. {key} \ {k \in CacheKey : files[k] = NoEntry} \in SUBSET OnDisk
      BY <2>4 DEF OnDisk
    <3> QED  BY <2>3, <3>1, RemovalTypes
  <2>6. Accesses
    BY <1>8, <1>9, <2>3, <2>4
  <2>7. Known
    BY <1>1, <2>3, <2>4
  <2>8. UnderWay
    BY <2>1, <2>4
  <2> QED  BY <1>3, <1>4, <2>1, <2>3, <2>4, <2>5, <2>6, <2>7, <2>8
<1>20. CASE CleanupBlock
  <2>1. Begins("cleanup") /\ cacheQueue' = Tail(cacheQueue) /\ storing' = storing
    BY <1>20 DEF CleanupBlock, Ends
  <2> DEFINE stale(cache) == {k \in CacheKey : cache[k] # NoEntry /\ IsExpired(cache[k])}
  <2>2. /\ InMemory(SetToSeq({Queued("remove", k, NoEntry) : k \in stale(memoryCache)}))
        /\ UNCHANGED <<memoryCache, savedTotalSize, clearing, invalidated, expiredVersions,
                       stores>>
    BY <1>20 DEF CleanupBlock
  <2>3. IF stale(files) = {} THEN UNCHANGED <<files, fileDates, totalSize>>
        ELSE /\ files' = [k \in CacheKey |-> IF k \in stale(files) THEN NoEntry ELSE files[k]]
             /\ fileDates' = Without(fileDates, stale(files))
             /\ totalSize' = Unsigned(SizeOf({k \in CacheKey : files[k] # NoEntry}
                                             \ stale(files)))
    BY <1>20 DEF CleanupBlock
  <2>4. Tail(cacheQueue) \in Seq(CallerBlock) /\ storing = FALSE
    BY <1>11, <2>1
  <2>5. Stored
    <3>1. CASE stale(files) = {}
      BY <1>6, <2>3, <3>1
    <3>2. CASE stale(files) # {}
      <4> DEFINE gone == stale(files)
      <4>1. gone \subseteq OnDisk
        BY DEF OnDisk
      <4> HIDE DEF gone
      <4>2. /\ files' = [k \in CacheKey |-> IF k \in gone THEN NoEntry ELSE files[k]]
            /\ fileDates' = Without(fileDates, gone)
            /\ totalSize' = Unsigned(SizeOf(OnDisk \ gone))
        BY <2>3, <3>2 DEF gone, OnDisk
      <4>3. OnDisk \ gone \subseteq OnDisk' /\ OnDisk' \subseteq CacheKey
        BY <4>2 DEF OnDisk
      <4>4. fileDates' \in Seq(OnDisk')
        BY <1>1, <4>2, <4>3, DatesKept
      <4>5. fileDates' \in Seq(CacheKey)
        BY <4>3, <4>4, SeqMonotonic
      <4>6. SizeOf(OnDisk \ gone) \in Int
        BY <1>1, SizeIsInt
      <4>7. totalSize' \in 0 .. SizeLimit - 1
        BY <4>2, <4>6, UnsignedType
      <4> QED  BY <1>1, <4>2, <4>4, <4>5, <4>7
    <3> QED  BY <3>1, <3>2
  <2>6. Accesses
    <3> DEFINE S == {Queued("remove", k, NoEntry) : k \in stale(memoryCache)}
    <3>1. IsFiniteSet(S) /\ S \subseteq MemoryBlock
      BY <1>8, RemovalsFinite
    <3> HIDE DEF S
    <3>2. SetToSeq(S) \in Seq(MemoryBlock)
      BY <3>1, SetInSeq
    <3> QED  BY <1>1, <2>2, <3>2, ConcatProperties DEF InMemory, S
  <2>7. UnderWay
    BY <2>1, <2>4
  <2> QED  BY <1>3, <1>4, <2>1, <2>2, <2>4, <2>5, <2>6, <2>7
<1>21. CASE ClearMemoryBlock
  <2>1. /\ Begins("clearMemory") /\ cacheQueue' = Tail(cacheQueue)
        /\ InMemory(<<Queued("clear", NoKey, NoEntry)>>)
        /\ UNCHANGED <<memoryCache, files, fileDates, totalSize, savedTotalSize, storing, clearing,
                       invalidated, expiredVersions, stores>>
    BY <1>21 DEF ClearMemoryBlock, Ends
  <2>2. Tail(cacheQueue) \in Seq(CallerBlock) /\ storing = FALSE
    BY <1>11, <2>1
  <2>3. Accesses
    BY <1>7, <1>8, <1>9, <2>1
  <2>4. UnderWay
    BY <2>1, <2>2
  <2> QED  BY <1>3, <1>4, <1>6, <2>1, <2>2, <2>3, <2>4
<1>22. CASE ClearDiskBlock
  <2>1. /\ Begins("clearDisk") /\ cacheQueue' = Tail(cacheQueue)
        /\ files' = [k \in CacheKey |-> NoEntry] /\ fileDates' = <<>>
        /\ totalSize' = 0 /\ savedTotalSize' = 0
        /\ UNCHANGED <<memoryCache, memoryQueue, storing, clearing, invalidated,
                       expiredVersions, stores>>
    BY <1>22 DEF ClearDiskBlock, Ends
  <2>2. Tail(cacheQueue) \in Seq(CallerBlock) /\ storing = FALSE
    BY <1>11, <2>1
  <2>3. 0 \in 0 .. SizeLimit - 1
    BY CacheAssumption
  <2>4. Stored /\ Saved
    BY <2>1, <2>3, EmptySeq
  <2>5. UnderWay
    BY <2>1, <2>2
  <2> QED  BY <1>3, <1>4, <2>1, <2>2, <2>4, <2>5
<1>23. CASE RuleSetForSource
  <2>1. UNCHANGED <<savedTotalSize, cacheQueue, storing, clearing, invalidated, expiredVersions,
                    stores>>
    BY <1>23 DEF RuleSetForSource
  <2>2. PICK k \in CacheKey, youngEnough \in BOOLEAN :
            /\ memoryCache' = [memoryCache EXCEPT
                   ![k] = IF memoryCache[k] # NoEntry /\ ~IsExpired(memoryCache[k])
                          THEN @ ELSE NoEntry]
            /\ IF files[k] # NoEntry /\ ~IsExpired(files[k])
               THEN /\ fileDates' = Append(Without(fileDates, {k}), k)
                    /\ InMemory(IF youngEnough THEN <<Queued("set", k, files[k])>> ELSE <<>>)
                    /\ UNCHANGED <<files, totalSize>>
               ELSE /\ RemoveFiles({k} \ {j \in CacheKey : files[j] = NoEntry})
                    /\ UNCHANGED memoryQueue
    BY <1>23 DEF RuleSetForSource
  <2>3. InMemoryTypes
    BY <1>1, <2>2
  <2>4. CASE files[k] # NoEntry /\ ~IsExpired(files[k])
    <3>1. /\ fileDates' = Append(Without(fileDates, {k}), k)
          /\ InMemory(IF youngEnough THEN <<Queued("set", k, files[k])>> ELSE <<>>)
          /\ UNCHANGED <<files, totalSize>>
      BY <2>2, <2>4
    <3>2. OnDisk' = OnDisk /\ k \in OnDisk /\ OnDisk \subseteq CacheKey
      BY <2>4, <3>1 DEF OnDisk
    <3>3. Without(fileDates, {k}) \in Seq(OnDisk)
      BY <1>1, DatesKept
    <3>4. fileDates' \in Seq(OnDisk)
      BY <3>1, <3>2, <3>3, AppendProperties
    <3>5. fileDates' \in Seq(CacheKey)
      BY <3>2, <3>4, SeqMonotonic
    <3>6. Stored
      BY <1>1, <3>1, <3>2, <3>4, <3>5
    <3>7. Accesses
      <4>1. CASE youngEnough
        <5>1. Queued("set", k, files[k]) \in MemoryBlock
          BY <1>1, <1>8
        <5> QED  BY <1>9, <3>1, <4>1, <5>1
      <4>2. CASE ~youngEnough
        <5>1. memoryQueue' = memoryQueue \o <<>> /\ <<>> \in Seq(MemoryBlock)
          BY <3>1, <4>2, EmptySeq DEF InMemory
        <5> QED  BY <1>1, <5>1, ConcatProperties
      <4> QED  BY <4>1, <4>2
    <3> QED  BY <1>3, <1>4, <1>5, <2>1, <2>3, <3>6, <3>7
  <2>5. CASE ~(files[k] # NoEntry /\ ~IsExpired(files[k]))
    <3>1. /\ RemoveFiles({k} \ {j \in CacheKey : files[j] = NoEntry})
          /\ UNCHANGED memoryQueue
      BY <2>2, <2>5
    <3>2. {k} \ {j \in CacheKey : files[j] = NoEntry} \in SUBSET OnDisk
      BY DEF OnDisk
    <3>3. Stored
      BY <3>1, <3>2, RemovalTypes
    <3> QED  BY <1>3, <1>4, <1>5, <2>1, <2>3, <3>1, <3>3
  <2> QED  BY <2>4, <2>5
<1>24. CASE AccessBlock
  <2>1. PICK block : block = Head(memoryQueue)
    OBVIOUS
  <2>2. /\ memoryQueue # <<>> /\ memoryQueue' = Tail(memoryQueue)
        /\ memoryCache' = IF block.does = "clear" THEN [k \in CacheKey |-> NoEntry]
                          ELSE [memoryCache EXCEPT ![block.key] = block.entry]
        /\ UNCHANGED <<files, fileDates, totalSize, savedTotalSize, cacheQueue, storing, clearing,
                       invalidated, expiredVersions, stores>>
    BY <1>24, <2>1 DEF AccessBlock
  <2>3. block \in MemoryBlock /\ Tail(memoryQueue) \in Seq(MemoryBlock)
    BY <1>1, <2>1, <2>2, BlocksLeft
  <2>4. block.key \in CacheKey /\ block.entry \in Entries
    BY <2>3 DEF MemoryBlock
  <2>5. InMemoryTypes
    BY <1>1, <2>2, <2>4
  <2> QED  BY <1>3, <1>4, <1>5, <1>6, <2>2, <2>3, <2>5
<1>25. CASE MemoryEvicts
  <2>1. PICK k \in CacheKey : memoryCache' = [memoryCache EXCEPT ![k] = NoEntry]
    BY <1>25 DEF MemoryEvicts
  <2>2. UNCHANGED <<files, fileDates, totalSize, savedTotalSize, memoryQueue, cacheQueue, storing,
                    clearing, invalidated, expiredVersions, stores>>
    BY <1>25 DEF MemoryEvicts
  <2>3. InMemoryTypes
    BY <1>1, <2>1
  <2> QED  BY <1>3, <1>4, <1>5, <1>6, <2>2, <2>3
<1>26. CASE EntryExpires
  <2>1. PICK v \in 1 .. stores : expiredVersions' = expiredVersions \cup {v}
    BY <1>26 DEF EntryExpires
  <2>2. UNCHANGED <<memoryCache, files, fileDates, totalSize, savedTotalSize, memoryQueue,
                    cacheQueue, storing, clearing, invalidated, stores>>
    BY <1>26 DEF EntryExpires
  <2>3. v \in 1 .. MaxStores
    BY <1>1, CacheAssumption
  <2>4. Known
    BY <1>1, <2>1, <2>2, <2>3
  <2> QED  BY <1>3, <1>4, <1>5, <1>6, <2>2, <2>4
<1>27. CASE Crash
  <2>1. /\ memoryCache' = [k \in CacheKey |-> NoEntry]
        /\ memoryQueue' = <<>> /\ cacheQueue' = <<>> /\ totalSize' = savedTotalSize
        /\ UNCHANGED <<files, fileDates, savedTotalSize, invalidated, expiredVersions, stores>>
    BY <1>27 DEF Crash
  <2>2. UnderWay /\ Clears
    BY <1>27 DEF Crash
  <2>3. InMemoryTypes
    BY <2>1
  <2>4. Accesses /\ Called
    BY <2>1, EmptySeq
  <2>5. Stored
    <3>1. OnDisk' = OnDisk
      BY <2>1 DEF OnDisk
    <3> QED  BY <1>1, <2>1, <3>1
  <2> QED  BY <1>3, <1>4, <2>1, <2>2, <2>3, <2>4, <2>5
<1>28. CASE UNCHANGED cacheVars
  <2>1. UNCHANGED <<memoryCache, files, fileDates, totalSize, savedTotalSize, memoryQueue,
                    cacheQueue, storing, clearing, invalidated, expiredVersions, stores>>
    BY <1>28 DEF cacheVars
  <2> QED  BY <1>3, <1>4, <1>5, <1>6, <2>1
<1> QED  BY <1>12, <1>13, <1>14, <1>15, <1>16, <1>17, <1>18, <1>19, <1>20, <1>21, <1>22, <1>23,
            <1>24, <1>25, <1>26, <1>27, <1>28 DEF CacheNext

LEMMA CacheTypeBegins == CacheInit => CacheTypeInv
<1> SUFFICES ASSUME CacheInit PROVE CacheTypeInv
  OBVIOUS
<1>1. /\ memoryCache = [k \in CacheKey |-> NoEntry] /\ files = [k \in CacheKey |-> NoEntry]
      /\ fileDates = <<>> /\ memoryQueue = <<>> /\ cacheQueue = <<>>
      /\ totalSize = 0 /\ savedTotalSize = 0 /\ stores = 0
      /\ expiredVersions = {} /\ invalidated = {}
  BY DEF CacheInit
<1>2. storing = FALSE /\ clearing = FALSE
  BY DEF CacheInit
<1>3. 0 \in 0 .. SizeLimit - 1 /\ 0 \in 0 .. MaxStores
  BY CacheAssumption
<1>4. CacheTypeOK
  BY <1>1, <1>2, <1>3, EmptySeq DEF CacheTypeOK
<1> QED  BY <1>1, <1>2, <1>3, <1>4, EmptySeq DEF CacheTypeInv

\* The two caches and their queues keep their types, and what the disk cache counts in
\* unsigned integers stays one whatever is stored, evicted, counted twice and lost
\* (RuleSetCaches!CacheTypeOK).
THEOREM CacheTypeCorrect == CacheSpec => []CacheTypeOK
<1>1. CacheTypeInv => CacheTypeOK
  BY DEF CacheTypeInv
<1> QED  BY <1>1, CacheTypeBegins, CacheTypeStep, PTL DEF CacheSpec

-----------------------------------------------------------------------------
(* RuleFetcher: who is still to be answered *)

\* A queue has a block for asker a; it has one block for each asker at most.
IsFor(q, a) == \E k \in DOMAIN q : q[k].asker = a
OneEach(q) == \A j, k \in DOMAIN q : q[j].asker = q[k].asker /\ q[j].asker # NoBlock => j = k

\* Blocks of fetchQueue are for an asker if they begin a fetch.
FetchBlock(block) ==
    /\ block.asker \in asked \cup {NoBlock}
    /\ block.does = "fetch" <=> block.asker # NoBlock

CallbackBlock(block) ==
    /\ block.asker \in asked \cup {NoBlock}
    /\ block.asker # NoBlock => block.does = "call"
    /\ DOMAIN block = {"does", "asker", "error", "attempts"}

\* An asker waits in one queue at most, and has been promised nothing until then.
AskersInv ==
    /\ asked \subseteq Asker /\ answers \in [Asker -> Nat]
    /\ completionBlock \in asked \cup {NoBlock}
    /\ IsQueue(fetchQueue) /\ IsQueue(delegateQueue)
    /\ \A k \in DOMAIN fetchQueue : FetchBlock(fetchQueue[k])
    /\ \A k \in DOMAIN delegateQueue : CallbackBlock(delegateQueue[k])
    /\ OneEach(fetchQueue) /\ OneEach(delegateQueue)
    /\ \A a \in Asker :
          a \notin asked \/ IsFor(fetchQueue, a) \/ IsFor(delegateQueue, a)
          => answers[a] = 0 /\ completionBlock # a
    /\ \A a \in Asker : IsFor(fetchQueue, a) => ~IsFor(delegateQueue, a)

\* A file's asker keeps its block after the answer while it waits to be cleared.
FileInv ==
    \A a \in Asker :
        /\ answers[a] <= 1
        /\ completionBlock = a /\ answers[a] = 1
           => delegateQueue # <<>> /\ Head(delegateQueue).does = "clear"

\* A session answers directly: an HTTP fetcher that has begun never ends but by
\* cancellation, and only that is left to delegateQueue.
HttpInv ==
    /\ retryTimers = {}
    /\ \A k \in DOMAIN fetchQueue : fetchQueue[k].does \in {"fetch", "cancel"}
    /\ fetcherUser = "manager"
       => ~cancelled /\ \A k \in DOMAIN fetchQueue : fetchQueue[k].does # "cancel"
    /\ fetcherUser = "resolver"
       => /\ \A x, y \in asked : x = y
          /\ isFetching \/ cancelled
             => asked # {} /\ \A k \in DOMAIN fetchQueue : fetchQueue[k].does # "fetch"
    /\ ~isFetching /\ ~cancelled
       => completionBlock = NoBlock /\ currentTask = "none" /\ redirectCount = 0
    /\ redirectCount <= MaxRedirects /\ ~cancelled
       => /\ \A k \in DOMAIN delegateQueue : delegateQueue[k].asker # NoBlock
          /\ \A a \in Asker : answers[a] <= 1
          /\ \A a \in Asker :
                completionBlock = a /\ ~completionDelivered => answers[a] = 0

FetcherInv ==
    /\ AskersInv
    /\ fetcherClass \in {"http", "file"} /\ fetcherUser \in {"manager", "resolver"}
    /\ redirectCount \in Nat
    /\ fetcherClass = "file" => FileInv
    /\ fetcherClass = "http" => HttpInv

LEMMA BlockAppended ==
    ASSUME NEW q, IsQueue(q), NEW block
    PROVE  /\ IsQueue(Append(q, block))
           /\ \A a : IsFor(Append(q, block), a) <=> IsFor(q, a) \/ block.asker = a
           /\ OneEach(q) /\ (block.asker = NoBlock \/ ~IsFor(q, block.asker))
              => OneEach(Append(q, block))
           /\ \A k \in DOMAIN Append(q, block) :
                 \/ Append(q, block)[k] = block
                 \/ \E j \in DOMAIN q : Append(q, block)[k] = q[j]
           /\ q # <<>> => Append(q, block) # <<>> /\ Head(Append(q, block)) = Head(q)
<1>0. PICK r : r = Append(q, block)
  OBVIOUS
<1>1. /\ IsQueue(r) /\ Len(r) = Len(q) + 1 /\ Len(q) \in Nat
      /\ DOMAIN r = 1 .. Len(q) + 1 /\ DOMAIN q = 1 .. Len(q)
      /\ \A i \in 1 .. Len(q) : r[i] = q[i]
      /\ r[Len(q) + 1] = block
  BY <1>0, AppendedQueue
<1>2. \A k \in DOMAIN r : (k \in DOMAIN q /\ r[k] = q[k]) \/ (k = Len(q) + 1 /\ r[k] = block)
  BY <1>1
<1>3. Len(q) + 1 \in DOMAIN r /\ \A k \in DOMAIN q : k \in DOMAIN r /\ r[k] = q[k]
  BY <1>1
<1>4. \A a : IsFor(r, a) <=> IsFor(q, a) \/ block.asker = a
  BY <1>1, <1>2, <1>3 DEF IsFor
<1>5. OneEach(q) /\ (block.asker = NoBlock \/ ~IsFor(q, block.asker)) => OneEach(r)
  BY <1>2 DEF IsFor, OneEach
<1>6. q # <<>> => r # <<>> /\ Head(r) = Head(q)
  <2> SUFFICES ASSUME q # <<>>
               PROVE  r # <<>> /\ Head(r) = Head(q)
    OBVIOUS
  <2>1. 1 \in DOMAIN q /\ Head(q) = q[1]
    BY TailOfQueue
  <2>2. r # <<>>
    BY <1>3
  <2>3. Head(r) = r[1]
    BY <1>1, <2>2, TailOfQueue
  <2> QED  BY <1>3, <2>1, <2>2, <2>3
<1> QED  BY <1>0, <1>1, <1>2, <1>4, <1>5, <1>6

LEMMA BlockTaken ==
    ASSUME NEW q, IsQueue(q), q # <<>>
    PROVE  /\ IsQueue(Tail(q)) /\ 1 \in DOMAIN q /\ Head(q) = q[1]
           /\ \A a : IsFor(q, a) <=> Head(q).asker = a \/ IsFor(Tail(q), a)
           /\ OneEach(q) => OneEach(Tail(q))
           /\ OneEach(q) /\ Head(q).asker # NoBlock => ~IsFor(Tail(q), Head(q).asker)
           /\ \A k \in DOMAIN Tail(q) : \E j \in DOMAIN q : Tail(q)[k] = q[j]
<1>0. PICK r : r = Tail(q)
  OBVIOUS
<1>1. /\ IsQueue(r) /\ Len(q) \in Nat \ {0}
      /\ DOMAIN r = 1 .. Len(q) - 1 /\ DOMAIN q = 1 .. Len(q)
      /\ \A i \in 1 .. Len(q) - 1 : r[i] = q[i + 1]
      /\ Head(q) = q[1]
  BY <1>0, TailOfQueue
<1>2. /\ 1 \in DOMAIN q
      /\ \A k \in DOMAIN r : k \in Nat \ {0} /\ k + 1 \in DOMAIN q /\ r[k] = q[k + 1]
  BY <1>1
<1>3. \A k \in DOMAIN q : k = 1 \/ (k - 1 \in DOMAIN r /\ r[k - 1] = q[k])
  <2> SUFFICES ASSUME NEW k \in DOMAIN q, k # 1
               PROVE  k - 1 \in DOMAIN r /\ r[k - 1] = q[k]
    OBVIOUS
  <2>1. k - 1 \in 1 .. Len(q) - 1 /\ k - 1 + 1 = k
    BY <1>1
  <2> QED  BY <1>1, <2>1
<1>4. \A a : IsFor(q, a) <=> Head(q).asker = a \/ IsFor(r, a)
  BY <1>1, <1>2, <1>3 DEF IsFor
<1>5. OneEach(q) => OneEach(r)
  <2> SUFFICES ASSUME OneEach(q), NEW j \in DOMAIN r, NEW k \in DOMAIN r,
                      r[j].asker = r[k].asker, r[j].asker # NoBlock
               PROVE  j = k
    BY DEF OneEach
  <2>1. j + 1 = k + 1
    BY <1>2 DEF OneEach
  <2> QED  BY <1>2, <2>1
<1>6. OneEach(q) /\ Head(q).asker # NoBlock => ~IsFor(r, Head(q).asker)
  <2> SUFFICES ASSUME OneEach(q), Head(q).asker # NoBlock,
                      NEW k \in DOMAIN r, r[k].asker = Head(q).asker
               PROVE  FALSE
    BY DEF IsFor
  <2>1. k + 1 = 1
    BY <1>1, <1>2 DEF OneEach
  <2> QED  BY <1>2, <2>1
<1>7. \A k \in DOMAIN r : \E j \in DOMAIN q : r[k] = q[j]
  BY <1>2
<1> QED  BY <1>0, <1>1, <1>2, <1>4, <1>5, <1>6, <1>7

\* A block that looks completionBlock up becomes the one that clears it.
LEMMA BlockClears ==
    ASSUME NEW q, IsQueue(q), q # <<>>, Head(q).asker = NoBlock,
           NEW block, block.asker = NoBlock
    PROVE  /\ IsQueue(<<block>> \o Tail(q))
           /\ <<block>> \o Tail(q) # <<>> /\ Head(<<block>> \o Tail(q)) = block
           /\ \A a \in Asker : IsFor(<<block>> \o Tail(q), a) <=> IsFor(q, a)
           /\ OneEach(q) => OneEach(<<block>> \o Tail(q))
           /\ \A k \in DOMAIN (<<block>> \o Tail(q)) :
                 \/ (<<block>> \o Tail(q))[k] = block
                 \/ \E j \in DOMAIN q : (<<block>> \o Tail(q))[k] = q[j]
<1>0. PICK t : t = Tail(q)
  OBVIOUS
<1>1. PICK r : r = <<block>> \o t
  OBVIOUS
<1>2. /\ IsQueue(t)
      /\ \A a : IsFor(q, a) <=> Head(q).asker = a \/ IsFor(t, a)
      /\ OneEach(q) => OneEach(t)
      /\ \A k \in DOMAIN t : \E j \in DOMAIN q : t[k] = q[j]
  BY <1>0, BlockTaken
<1>3. PICK p : p = <<block>>
  OBVIOUS
<1>4. IsQueue(p) /\ DOMAIN p = {1} /\ p[1] = block /\ Len(p) = 1
  BY <1>3, OneBlock
<1>5. /\ IsQueue(r)
      /\ \A i \in DOMAIN p : i \in DOMAIN r /\ r[i] = p[i]
      /\ \A i \in DOMAIN t : Len(p) + i \in DOMAIN r /\ r[Len(p) + i] = t[i]
      /\ \A i \in DOMAIN r : i \in DOMAIN p \/ \E j \in DOMAIN t : i = Len(p) + j
  <2>1. IsQueue(r) /\ \A i \in DOMAIN p : i \in DOMAIN r /\ r[i] = p[i]
    BY <1>1, <1>2, <1>3, <1>4, ConcatQueue
  <2>2. \A i \in DOMAIN t : Len(p) + i \in DOMAIN r /\ r[Len(p) + i] = t[i]
    BY <1>1, <1>2, <1>3, <1>4, ConcatQueue
  <2>3. \A i \in DOMAIN r : i \in DOMAIN p \/ \E j \in DOMAIN t : i = Len(p) + j
    BY <1>1, <1>2, <1>3, <1>4, ConcatQueue
  <2> QED  BY <2>1, <2>2, <2>3
<1>6. 1 \in DOMAIN r /\ r[1] = block
  BY <1>4, <1>5
<1>7. r # <<>> /\ Head(r) = block
  <2>1. r # <<>>
    BY <1>6
  <2> QED  BY <1>5, <1>6, <2>1, TailOfQueue
<1>8. \A i \in DOMAIN r : r[i] = block \/ \E j \in DOMAIN t : i = 1 + j /\ r[i] = t[j]
  BY <1>4, <1>5
<1>9. \A j \in DOMAIN t : 1 + j \in DOMAIN r /\ r[1 + j] = t[j]
  BY <1>4, <1>5
<1>10. \A a \in Asker : IsFor(r, a) <=> IsFor(q, a)
  <2> SUFFICES ASSUME NEW a \in Asker
               PROVE  IsFor(r, a) <=> IsFor(q, a)
    OBVIOUS
  <2>1. a # NoBlock
    BY FetcherAssumption
  <2>2. IsFor(t, a) <=> IsFor(q, a)
    BY <1>2, <2>1
  <2>3. IsFor(r, a) => IsFor(t, a)
    BY <1>8, <2>1 DEF IsFor
  <2>4. IsFor(t, a) => IsFor(r, a)
    BY <1>9 DEF IsFor
  <2> QED  BY <2>2, <2>3, <2>4
<1>11. OneEach(q) => OneEach(r)
  BY <1>2, <1>8 DEF OneEach
<1>12. \A k \in DOMAIN r : r[k] = block \/ \E j \in DOMAIN q : r[k] = q[j]
  BY <1>2, <1>8
<1> QED  BY <1>0, <1>1, <1>5, <1>7, <1>10, <1>11, <1>12

\* Blocks for no asker change nothing for those who wait.
SameAskers(q, r) ==
    /\ IsQueue(r)
    /\ OneEach(q) => OneEach(r)
    /\ \A a \in Asker : IsFor(r, a) <=> IsFor(q, a)

LEMMA SameItself == ASSUME NEW q, IsQueue(q) PROVE SameAskers(q, q)
BY DEF SameAskers

LEMMA SameAppended ==
    ASSUME NEW q, IsQueue(q), NEW block, block.asker = NoBlock
    PROVE  SameAskers(q, Append(q, block))
<1>1. \A a \in Asker : a # NoBlock
  BY FetcherAssumption
<1> QED  BY <1>1, BlockAppended DEF SameAskers

LEMMA SameTaken ==
    ASSUME NEW q, IsQueue(q), q # <<>>, Head(q).asker = NoBlock
    PROVE  SameAskers(q, Tail(q))
<1>1. \A a \in Asker : a # NoBlock
  BY FetcherAssumption
<1> QED  BY <1>1, BlockTaken DEF SameAskers

\* Neither do calls of the block that is held at the moment.
LEMMA AskersKept ==
    ASSUME AskersInv,
           asked' = asked, answers' \in [Asker -> Nat],
           \A a \in Asker : answers'[a] = answers[a] \/ completionBlock = a,
           completionBlock' \in {completionBlock, NoBlock},
           SameAskers(fetchQueue, fetchQueue'), SameAskers(delegateQueue, delegateQueue'),
           \A k \in DOMAIN fetchQueue' : FetchBlock(fetchQueue'[k]),
           \A k \in DOMAIN delegateQueue' : CallbackBlock(delegateQueue'[k])
    PROVE  AskersInv'
<1>1. \A k \in DOMAIN fetchQueue' : FetchBlock(fetchQueue[k])'
  BY DEF FetchBlock
<1>2. \A k \in DOMAIN delegateQueue' : CallbackBlock(delegateQueue[k])'
  BY DEF CallbackBlock
<1>3. \A a \in Asker : a # NoBlock
  BY FetcherAssumption
<1>4. ASSUME NEW a \in Asker,
             a \notin asked \/ IsFor(fetchQueue', a) \/ IsFor(delegateQueue', a)
      PROVE  answers'[a] = 0 /\ completionBlock' # a
  <2>1. a \notin asked \/ IsFor(fetchQueue, a) \/ IsFor(delegateQueue, a)
    BY <1>4 DEF SameAskers
  <2>2. answers[a] = 0 /\ completionBlock # a
    BY <2>1 DEF AskersInv
  <2> QED  BY <1>3, <2>2
<1>5. \A a \in Asker : IsFor(fetchQueue', a) => ~IsFor(delegateQueue', a)
  BY DEF AskersInv, SameAskers
<1>6. OneEach(fetchQueue') /\ OneEach(delegateQueue')
  BY DEF AskersInv, SameAskers
<1>7. /\ asked' \subseteq Asker
      /\ completionBlock' \in asked' \cup {NoBlock}
      /\ IsQueue(fetchQueue') /\ IsQueue(delegateQueue')
  BY DEF AskersInv, SameAskers
<1> QED  BY <1>1, <1>2, <1>4, <1>5, <1>6, <1>7 DEF AskersInv, IsFor, OneEach

LEMMA HeldCalled ==
    ASSUME AskersInv, CallBlock(completionBlock) \/ UNCHANGED calls
    PROVE  /\ answers' \in [Asker -> Nat]
           /\ \A a \in Asker :
                 \/ answers'[a] = answers[a]
                 \/ completionBlock = a /\ answers'[a] = answers[a] + 1
<1>1. answers \in [Asker -> Nat] /\ completionBlock \in Asker \cup {NoBlock}
  BY DEF AskersInv
<1> QED  BY <1>1 DEF CallBlock, calls

\* fetchRulesWithProgress:completion:
LEMMA FetchRulesKeeps ==
    ASSUME FetcherInv, NEW a \in Asker, FetchRules(a) PROVE FetcherInv'
<1> PICK n : n = Does("fetch", a, NoError, 0)
  OBVIOUS
<1> PICK q : q = fetchQueue'
  OBVIOUS
<1>1. AskersInv /\ a # NoBlock /\ n.asker = a /\ n.does = "fetch"
  BY FetcherAssumption DEF FetcherInv, Does
<1>2. /\ a \notin asked /\ asked' = asked \cup {a} /\ q = Append(fetchQueue, n)
      /\ answers' = answers /\ completionBlock' = completionBlock
      /\ delegateQueue' = delegateQueue /\ isFetching' = isFetching
      /\ cancelled' = cancelled /\ retryTimers' = retryTimers
      /\ currentTask' = currentTask /\ redirectCount' = redirectCount
      /\ completionDelivered' = completionDelivered
      /\ fetcherClass' = fetcherClass /\ fetcherUser' = fetcherUser
  BY DEF FetchRules, httpState, attempt, calls
<1>3. ~IsFor(fetchQueue, a) /\ ~IsFor(delegateQueue, a)
  BY <1>1, <1>2 DEF AskersInv, IsFor, FetchBlock, CallbackBlock
<1>4. /\ IsQueue(q) /\ OneEach(q)
      /\ \A x : IsFor(q, x) <=> IsFor(fetchQueue, x) \/ x = a
      /\ \A k \in DOMAIN q : q[k] = n \/ \E j \in DOMAIN fetchQueue : q[k] = fetchQueue[j]
  <2>1. IsQueue(fetchQueue) /\ OneEach(fetchQueue)
    BY <1>1 DEF AskersInv
  <2> QED  BY <1>1, <1>2, <1>3, <2>1, BlockAppended
<1>5. \A k \in DOMAIN q : FetchBlock(q[k])'
  BY <1>1, <1>2, <1>4 DEF AskersInv, FetchBlock
<1>6. \A k \in DOMAIN delegateQueue : CallbackBlock(delegateQueue[k])'
  BY <1>1, <1>2 DEF AskersInv, CallbackBlock
<1>7. AskersInv'
  <2>1. ASSUME NEW x \in Asker,
               x \notin asked' \/ IsFor(q, x) \/ IsFor(delegateQueue, x)
        PROVE  answers[x] = 0 /\ completionBlock # x
    BY <1>1, <1>2, <1>4, <2>1 DEF AskersInv
  <2>2. \A x \in Asker : IsFor(q, x) => ~IsFor(delegateQueue, x)
    BY <1>1, <1>3, <1>4 DEF AskersInv
  <2> QED  BY <1>1, <1>2, <1>4, <1>5, <1>6, <2>1, <2>2 DEF AskersInv, IsFor, OneEach
<1>8. FileInv => FileInv'
  BY <1>2 DEF FileInv
<1>9. fetcherUser = "resolver" => asked = {}
  BY DEF FetchRules
<1>10. HttpInv => HttpInv'
  BY <1>1, <1>2, <1>4, <1>9 DEF HttpInv
<1> QED  BY <1>2, <1>7, <1>8, <1>10 DEF FetcherInv

\* cancelFetch
LEMMA CancelFetchKeeps == ASSUME FetcherInv, CancelFetch PROVE FetcherInv'
<1> PICK n : n = Does("cancel", NoBlock, NoError, 0)
  OBVIOUS
<1>1. AskersInv /\ n.asker = NoBlock /\ n.does = "cancel"
  BY DEF FetcherInv, Does
<1>2. /\ fetcherUser = "resolver" /\ asked # {} /\ fetchQueue' = Append(fetchQueue, n)
      /\ asked' = asked /\ answers' = answers /\ completionBlock' = completionBlock
      /\ delegateQueue' = delegateQueue /\ isFetching' = isFetching
      /\ cancelled' = cancelled /\ retryTimers' = retryTimers
      /\ currentTask' = currentTask /\ redirectCount' = redirectCount
      /\ completionDelivered' = completionDelivered
      /\ fetcherClass' = fetcherClass /\ fetcherUser' = fetcherUser
  BY DEF CancelFetch, users, httpState, attempt, calls
<1>3. SameAskers(fetchQueue, fetchQueue') /\ SameAskers(delegateQueue, delegateQueue')
  BY <1>1, <1>2, SameAppended, SameItself DEF AskersInv
<1>4. \A k \in DOMAIN fetchQueue' :
         fetchQueue'[k] = n \/ \E j \in DOMAIN fetchQueue : fetchQueue'[k] = fetchQueue[j]
  BY <1>1, <1>2, BlockAppended DEF AskersInv
<1>5. AskersInv'
  <2>1. \A k \in DOMAIN fetchQueue' : FetchBlock(fetchQueue'[k])
    BY <1>1, <1>4 DEF AskersInv, FetchBlock
  <2> QED  BY <1>1, <1>2, <1>3, <2>1, AskersKept DEF AskersInv
<1>6. FileInv => FileInv'
  BY <1>2 DEF FileInv
<1>7. HttpInv => HttpInv'
  BY <1>1, <1>2, <1>4 DEF HttpInv
<1> QED  BY <1>2, <1>5, <1>6, <1>7 DEF FetcherInv

\* The queues of a fetcher, with a block for no asker less or more.
LEMMA NextFetchBlock ==
    ASSUME AskersInv, fetchQueue # <<>>, Head(fetchQueue).does # "fetch"
    PROVE  /\ SameAskers(fetchQueue, Tail(fetchQueue))
           /\ \A k \in DOMAIN Tail(fetchQueue) : FetchBlock(Tail(fetchQueue)[k])
           /\ \A k \in DOMAIN Tail(fetchQueue) :
                 \E j \in DOMAIN fetchQueue : Tail(fetchQueue)[k] = fetchQueue[j]
<1>1. /\ 1 \in DOMAIN fetchQueue /\ Head(fetchQueue) = fetchQueue[1]
      /\ \A k \in DOMAIN Tail(fetchQueue) :
            \E j \in DOMAIN fetchQueue : Tail(fetchQueue)[k] = fetchQueue[j]
  BY BlockTaken DEF AskersInv
<1>2. Head(fetchQueue).asker = NoBlock
  BY <1>1 DEF AskersInv, FetchBlock
<1> QED  BY <1>1, <1>2, SameTaken DEF AskersInv

LEMMA MoreFetchBlocks ==
    ASSUME NEW q, IsQueue(q), \A k \in DOMAIN q : FetchBlock(q[k]),
           NEW block, block.asker = NoBlock, block.does # "fetch"
    PROVE  /\ SameAskers(q, Append(q, block))
           /\ \A k \in DOMAIN Append(q, block) : FetchBlock(Append(q, block)[k])
<1>1. \A k \in DOMAIN Append(q, block) :
         Append(q, block)[k] = block \/ \E j \in DOMAIN q : Append(q, block)[k] = q[j]
  BY BlockAppended
<1>2. FetchBlock(block)
  BY DEF FetchBlock
<1> QED  BY <1>1, <1>2, SameAppended

LEMMA MoreCallbacks ==
    ASSUME AskersInv, NEW error, NEW block, block = Does("call", NoBlock, error, 0)
    PROVE  /\ SameAskers(delegateQueue, Append(delegateQueue, block))
           /\ \A k \in DOMAIN Append(delegateQueue, block) :
                 CallbackBlock(Append(delegateQueue, block)[k])
           /\ delegateQueue # <<>>
              => /\ Append(delegateQueue, block) # <<>>
                 /\ Head(Append(delegateQueue, block)) = Head(delegateQueue)
<1>1. /\ \A k \in DOMAIN Append(delegateQueue, block) :
            \/ Append(delegateQueue, block)[k] = block
            \/ \E j \in DOMAIN delegateQueue :
                  Append(delegateQueue, block)[k] = delegateQueue[j]
      /\ delegateQueue # <<>>
         => /\ Append(delegateQueue, block) # <<>>
            /\ Head(Append(delegateQueue, block)) = Head(delegateQueue)
  BY BlockAppended, SMTT(30) DEF AskersInv
<1>2. CallbackBlock(block) /\ block.asker = NoBlock
  BY DEF CallbackBlock, Does
<1> QED  BY <1>1, <1>2, SameAppended DEF AskersInv

\* What a file's blocks do to fetchQueue alone, or by one more callback.
LEMMA FileStepKeeps ==
    ASSUME FetcherInv, fetcherClass = "file",
           asked' = asked, answers' = answers, completionBlock' = completionBlock,
           fetcherClass' = fetcherClass, fetcherUser' = fetcherUser, redirectCount' \in Nat,
           SameAskers(fetchQueue, fetchQueue'),
           \A k \in DOMAIN fetchQueue' : FetchBlock(fetchQueue'[k]),
           \/ delegateQueue' = delegateQueue
           \/ \E error : delegateQueue' = Append(delegateQueue,
                                                 Does("call", NoBlock, error, 0))
    PROVE  FetcherInv'
<1>1. AskersInv /\ FileInv
  BY DEF FetcherInv
<1>2. /\ SameAskers(delegateQueue, delegateQueue')
      /\ \A k \in DOMAIN delegateQueue' : CallbackBlock(delegateQueue'[k])
      /\ delegateQueue # <<>>
         => delegateQueue' # <<>> /\ Head(delegateQueue') = Head(delegateQueue)
  <2>1. CASE delegateQueue' = delegateQueue
    BY <1>1, <2>1, SameItself DEF AskersInv
  <2>2. CASE \E error : delegateQueue' = Append(delegateQueue,
                                                Does("call", NoBlock, error, 0))
    BY <1>1, <2>2, MoreCallbacks
  <2> QED  BY <2>1, <2>2
<1>3. AskersInv'
  BY <1>1, <1>2, AskersKept DEF AskersInv
<1>4. FileInv'
  BY <1>1, <1>2 DEF FileInv
<1> QED  BY <1>3, <1>4 DEF FetcherInv

\* The first blocks of fetchQueue that no session queues.
LEMMA NoneOfASession ==
    ASSUME FetcherInv, fetchQueue # <<>>, Head(fetchQueue).does \in {"finish", "retry"}
    PROVE  fetcherClass = "file"
<1>1. 1 \in DOMAIN fetchQueue /\ Head(fetchQueue) = fetchQueue[1]
  BY BlockTaken DEF FetcherInv, AskersInv
<1> QED  BY <1>1 DEF FetcherInv, HttpInv

LEMMA HandleFetchCompletionKeeps ==
    ASSUME FetcherInv, HandleFetchCompletion PROVE FetcherInv'
<1>1. AskersInv /\ fetcherClass = "file" /\ redirectCount \in Nat
  BY NoneOfASession DEF FetcherInv, HandleFetchCompletion
<1>2. /\ fetchQueue # <<>> /\ Head(fetchQueue).does # "fetch"
      /\ fetchQueue' = Tail(fetchQueue)
      /\ asked' = asked /\ answers' = answers /\ completionBlock' = completionBlock
      /\ redirectCount' = redirectCount
      /\ fetcherClass' = fetcherClass /\ fetcherUser' = fetcherUser
      /\ \/ delegateQueue' = delegateQueue
         \/ delegateQueue' = Append(delegateQueue,
                                    Does("call", NoBlock, Head(fetchQueue).error, 0))
  BY DEF HandleFetchCompletion, users, httpState, attempt, calls
<1>3. /\ SameAskers(fetchQueue, fetchQueue')
      /\ \A k \in DOMAIN fetchQueue' : FetchBlock(fetchQueue'[k])
  BY <1>1, <1>2, NextFetchBlock
<1> QED  BY <1>1, <1>2, <1>3, FileStepKeeps

LEMMA RetryDueKeeps == ASSUME FetcherInv, RetryDue PROVE FetcherInv'
<1>1. AskersInv /\ fetcherClass = "file" /\ redirectCount \in Nat
  BY DEF FetcherInv, HttpInv, RetryDue
<1>2. PICK n : fetchQueue' = Append(fetchQueue, Does("retry", NoBlock, NoError, n))
  BY DEF RetryDue
<1>3. /\ SameAskers(fetchQueue, fetchQueue')
      /\ \A k \in DOMAIN fetchQueue' : FetchBlock(fetchQueue'[k])
  <2> PICK block : block = Does("retry", NoBlock, NoError, n)
    OBVIOUS
  <2>1. block.asker = NoBlock /\ block.does # "fetch"
    BY DEF Does
  <2> QED  BY <1>1, <1>2, <2>1, MoreFetchBlocks DEF AskersInv
<1>4. /\ asked' = asked /\ answers' = answers /\ completionBlock' = completionBlock
      /\ redirectCount' = redirectCount /\ delegateQueue' = delegateQueue
      /\ fetcherClass' = fetcherClass /\ fetcherUser' = fetcherUser
  BY DEF RetryDue, users, httpState, calls
<1> QED  BY <1>1, <1>3, <1>4, FileStepKeeps

LEMMA RetryKeeps == ASSUME FetcherInv, Retry PROVE FetcherInv'
<1>1. AskersInv /\ fetcherClass = "file" /\ redirectCount \in Nat
  BY NoneOfASession DEF FetcherInv, Retry
<1>2. /\ fetchQueue # <<>> /\ Head(fetchQueue).does # "fetch"
      /\ asked' = asked /\ answers' = answers /\ completionBlock' = completionBlock
      /\ delegateQueue' = delegateQueue
      /\ fetcherClass' = fetcherClass /\ fetcherUser' = fetcherUser
  BY DEF Retry, users, calls
<1> PICK q : q = Tail(fetchQueue)
  OBVIOUS
<1>3. SameAskers(fetchQueue, q) /\ \A k \in DOMAIN q : FetchBlock(q[k])
  BY <1>1, <1>2, NextFetchBlock
<1> PICK block : block = Does("finish", NoBlock, FetchCancelled, 0)
  OBVIOUS
<1>4. block.asker = NoBlock /\ block.does # "fetch"
  BY DEF Does
<1>5. (fetchQueue' = q \/ fetchQueue' = Append(q, block)) /\ redirectCount' \in Nat
  BY <1>1 DEF Retry, PerformFetchWithRetry, PerformFetch, httpState
<1>6. /\ SameAskers(q, fetchQueue')
      /\ \A k \in DOMAIN fetchQueue' : FetchBlock(fetchQueue'[k])
  <2>1. CASE fetchQueue' = q
    BY <1>3, <2>1, SameItself DEF SameAskers
  <2>2. CASE fetchQueue' = Append(q, block)
    BY <1>3, <1>4, <2>2, MoreFetchBlocks DEF SameAskers
  <2> QED  BY <1>5, <2>1, <2>2
<1>7. SameAskers(fetchQueue, fetchQueue')
  BY <1>3, <1>6 DEF SameAskers
<1> QED  BY <1>1, <1>2, <1>5, <1>6, <1>7, FileStepKeeps

LEMMA ReadFileKeeps == ASSUME FetcherInv, ReadFile PROVE FetcherInv'
<1>1. AskersInv /\ fetcherClass = "file" /\ redirectCount \in Nat
  BY DEF FetcherInv, ReadFile
<1>2. /\ asked' = asked /\ answers' = answers /\ completionBlock' = completionBlock
      /\ redirectCount' = redirectCount /\ delegateQueue' = delegateQueue
      /\ fetcherClass' = fetcherClass /\ fetcherUser' = fetcherUser
  BY DEF ReadFile, users, httpState, calls
<1>3. PICK error : \/ fetchQueue' = fetchQueue
                   \/ fetchQueue' = Append(fetchQueue, Does("finish", NoBlock, error, 0))
  BY DEF ReadFile, AttemptEnds
<1>4. /\ SameAskers(fetchQueue, fetchQueue')
      /\ \A k \in DOMAIN fetchQueue' : FetchBlock(fetchQueue'[k])
  <2> PICK block : block = Does("finish", NoBlock, error, 0)
    OBVIOUS
  <2>1. block.asker = NoBlock /\ block.does # "fetch"
    BY DEF Does
  <2>2. CASE fetchQueue' = fetchQueue
    BY <1>1, <2>2, SameItself DEF AskersInv
  <2>3. CASE fetchQueue' = Append(fetchQueue, block)
    BY <1>1, <2>1, <2>3, MoreFetchBlocks DEF AskersInv
  <2> QED  BY <1>3, <2>2, <2>3
<1> QED  BY <1>1, <1>2, <1>4, FileStepKeeps

\* The session's callbacks: one answer at most, unless a redirect passed the limit.
LEMMA SessionStepKeeps == ASSUME FetcherInv, SessionStep PROVE FetcherInv'
<1>1. AskersInv /\ fetcherClass = "http" /\ HttpInv
  BY DEF FetcherInv, SessionStep, ReceiveRefusal, CompleteWithData, CompleteWithError,
         PerformRedirection
<1>2. /\ asked' = asked /\ fetcherClass' = fetcherClass /\ fetcherUser' = fetcherUser
      /\ isFetching' = isFetching /\ cancelled' = cancelled
      /\ completionBlock' = completionBlock /\ fetchQueue' = fetchQueue
      /\ delegateQueue' = delegateQueue /\ retryTimers' = retryTimers
  BY DEF SessionStep, ReceiveRefusal, CompleteWithData, CompleteWithError,
         PerformRedirection, HttpUnchanged, users
<1>3. CallBlock(completionBlock) \/ UNCHANGED calls
  BY DEF SessionStep, ReceiveRefusal, CompleteWithData, CompleteWithError,
         PerformRedirection, DeliverOnce, calls
<1>4. /\ answers' \in [Asker -> Nat]
      /\ \A a \in Asker :
            \/ answers'[a] = answers[a]
            \/ completionBlock = a /\ answers'[a] = answers[a] + 1
  BY <1>1, <1>3, HeldCalled
<1>5. AskersInv'
  <2>1. SameAskers(fetchQueue, fetchQueue') /\ SameAskers(delegateQueue, delegateQueue')
    BY <1>1, <1>2, SameItself DEF AskersInv
  <2> QED  BY <1>1, <1>2, <1>4, <2>1, AskersKept DEF AskersInv
<1>6. currentTask # "none" /\ redirectCount' \in Nat
  BY DEF FetcherInv, SessionStep, ReceiveRefusal, CompleteWithData, CompleteWithError,
         PerformRedirection
<1>7. isFetching \/ cancelled
  BY <1>1, <1>6 DEF HttpInv
<1>8. \/ redirectCount' = redirectCount /\ DeliverOnce
      \/ /\ redirectCount' = redirectCount + 1 /\ redirectCount' <= MaxRedirects
         /\ completionDelivered' = completionDelivered /\ UNCHANGED calls
      \/ redirectCount' > MaxRedirects
  BY <1>6, FetcherAssumption
     DEF SessionStep, ReceiveRefusal, CompleteWithData, CompleteWithError, PerformRedirection,
         calls
<1>9. ASSUME redirectCount' <= MaxRedirects, ~cancelled
      PROVE  /\ \A k \in DOMAIN delegateQueue : delegateQueue[k].asker # NoBlock
             /\ \A a \in Asker : answers'[a] <= 1
             /\ \A a \in Asker :
                   completionBlock = a /\ ~completionDelivered' => answers'[a] = 0
  <2>1. redirectCount \in Nat /\ redirectCount <= MaxRedirects
    BY <1>6, <1>8, <1>9, FetcherAssumption DEF FetcherInv
  <2>2. /\ \A k \in DOMAIN delegateQueue : delegateQueue[k].asker # NoBlock
        /\ \A a \in Asker : answers[a] <= 1
        /\ \A a \in Asker : completionBlock = a /\ ~completionDelivered => answers[a] = 0
    BY <1>1, <1>9, <2>1 DEF HttpInv
  <2>3. CASE redirectCount' = redirectCount /\ DeliverOnce
    BY <1>4, <2>2, <2>3 DEF DeliverOnce, calls
  <2>4. CASE completionDelivered' = completionDelivered /\ UNCHANGED calls
    BY <2>2, <2>4 DEF calls
  <2> QED  BY <1>6, <1>8, <1>9, <2>3, <2>4, FetcherAssumption
<1>10. HttpInv'
  BY <1>1, <1>2, <1>7, <1>9 DEF HttpInv
<1> QED  BY <1>1, <1>2, <1>5, <1>6, <1>10 DEF FetcherInv

\* The block of cancelFetch
LEMMA DoCancelKeeps == ASSUME FetcherInv, DoCancel PROVE FetcherInv'
<1>1. AskersInv /\ fetchQueue # <<>> /\ Head(fetchQueue).does = "cancel"
  BY DEF FetcherInv, DoCancel
<1>2. /\ asked' = asked /\ answers' = answers /\ completionBlock' = completionBlock
      /\ fetchQueue' = Tail(fetchQueue) /\ retryTimers' = retryTimers
      /\ redirectCount' = redirectCount /\ completionDelivered' = completionDelivered
      /\ fetcherClass' = fetcherClass /\ fetcherUser' = fetcherUser
      /\ \/ delegateQueue' = delegateQueue
         \/ delegateQueue' = Append(delegateQueue, Does("call", NoBlock, FetchCancelled, 0))
  BY DEF DoCancel, users, httpState, calls
<1>3. /\ SameAskers(fetchQueue, fetchQueue')
      /\ \A k \in DOMAIN fetchQueue' : FetchBlock(fetchQueue'[k])
      /\ \A k \in DOMAIN fetchQueue' :
            \E j \in DOMAIN fetchQueue : fetchQueue'[k] = fetchQueue[j]
  BY <1>1, <1>2, NextFetchBlock
<1>4. CASE fetcherClass = "file"
  BY <1>2, <1>3, <1>4, FileStepKeeps DEF FetcherInv
<1>5. CASE fetcherClass = "http"
  <2>1. HttpInv /\ 1 \in DOMAIN fetchQueue /\ Head(fetchQueue) = fetchQueue[1]
    BY <1>1, <1>5, BlockTaken DEF FetcherInv, AskersInv
  <2>2. fetcherUser = "resolver"
    BY <1>1, <2>1 DEF FetcherInv, HttpInv
  <2>3. /\ SameAskers(delegateQueue, delegateQueue')
        /\ \A k \in DOMAIN delegateQueue' : CallbackBlock(delegateQueue'[k])
    BY <1>1, <1>2, MoreCallbacks, SameItself DEF AskersInv
  <2>4. AskersInv'
    BY <1>1, <1>2, <1>3, <2>3, AskersKept DEF AskersInv
  <2>5. CASE isFetching
    <3>1. cancelled' = TRUE /\ asked # {}
      BY <2>1, <2>2, <2>5 DEF DoCancel, HttpInv
    <3>2. \A k \in DOMAIN fetchQueue' : fetchQueue'[k].does # "fetch"
      BY <1>3, <2>1, <2>2, <2>5 DEF HttpInv
    <3> QED  BY <1>2, <1>3, <1>5, <2>1, <2>2, <2>4, <3>1, <3>2 DEF FetcherInv, HttpInv
  <2>6. CASE ~isFetching
    <3>1. /\ delegateQueue' = delegateQueue /\ cancelled' = cancelled
          /\ isFetching' = isFetching /\ currentTask' = currentTask
      BY <2>6 DEF DoCancel
    <3>2. HttpInv'
      BY <1>2, <1>3, <2>1, <2>2, <3>1 DEF HttpInv
    <3> QED  BY <1>2, <1>5, <2>4, <3>2 DEF FetcherInv
  <2> QED  BY <2>5, <2>6
<1> QED  BY <1>4, <1>5 DEF FetcherInv

\* The block of fetchRulesWithProgress
LEMMA BeginFetchKeeps == ASSUME FetcherInv, BeginFetch PROVE FetcherInv'
<1> PICK b : b = Head(fetchQueue).asker
  OBVIOUS
<1> PICK q : q = Tail(fetchQueue)
  OBVIOUS
<1>1. AskersInv /\ fetchQueue # <<>> /\ Head(fetchQueue).does = "fetch"
  BY DEF FetcherInv, BeginFetch
<1>2. /\ asked' = asked /\ answers' = answers /\ retryTimers' = retryTimers
      /\ fetchQueue' \in {q, Append(q, Does("finish", NoBlock, FetchCancelled, 0))}
      /\ fetcherClass' = fetcherClass /\ fetcherUser' = fetcherUser
  BY DEF BeginFetch, PerformFetchWithRetry, PerformFetch, users, calls, attempt
<1>3. /\ IsQueue(q) /\ 1 \in DOMAIN fetchQueue /\ Head(fetchQueue) = fetchQueue[1]
      /\ OneEach(q) /\ \A a : IsFor(fetchQueue, a) <=> b = a \/ IsFor(q, a)
      /\ b # NoBlock => ~IsFor(q, b)
      /\ \A k \in DOMAIN q : \E j \in DOMAIN fetchQueue : q[k] = fetchQueue[j]
  BY <1>1, BlockTaken DEF AskersInv
<1>4. b \in asked /\ b \in Asker /\ b # NoBlock
  BY <1>1, <1>3 DEF AskersInv, FetchBlock
<1>5. /\ answers[b] = 0 /\ completionBlock # b
      /\ ~IsFor(q, b) /\ ~IsFor(delegateQueue, b)
  BY <1>1, <1>3, <1>4 DEF AskersInv
<1>6. \A k \in DOMAIN q : FetchBlock(q[k]) /\ FetchBlock(q[k])'
  BY <1>1, <1>2, <1>3 DEF AskersInv, FetchBlock
<1>7. fetcherUser = "resolver" /\ fetcherClass = "http"
      => \A k \in DOMAIN q : q[k].does # "fetch"
  <2> SUFFICES ASSUME fetcherUser = "resolver", fetcherClass = "http", NEW k \in DOMAIN q,
                      q[k].does = "fetch"
               PROVE  FALSE
    OBVIOUS
  <2>1. q[k].asker \in asked /\ q[k].asker # NoBlock
    BY <1>6 DEF FetchBlock
  <2>2. q[k].asker = b
    BY <1>4, <2>1 DEF FetcherInv, HttpInv
  <2> QED  BY <1>5, <2>2 DEF IsFor
<1>8. CASE isFetching
  <2> PICK n : n = Does("call", b, Busy, 0)
    OBVIOUS
  <2> PICK d : d = delegateQueue'
    OBVIOUS
  <2>1. n.asker = b /\ n.does = "call" /\ DOMAIN n = {"does", "asker", "error", "attempts"}
    BY DEF Does
  <2>2. /\ fetchQueue' = q /\ d = Append(delegateQueue, n)
        /\ isFetching' = isFetching /\ cancelled' = cancelled
        /\ completionBlock' = completionBlock /\ currentTask' = currentTask
        /\ redirectCount' = redirectCount /\ completionDelivered' = completionDelivered
    BY <1>8 DEF BeginFetch, attempt, httpState
  <2>3. /\ IsQueue(d) /\ OneEach(d)
        /\ \A a : IsFor(d, a) <=> IsFor(delegateQueue, a) \/ a = b
        /\ \A k \in DOMAIN d :
              d[k] = n \/ \E j \in DOMAIN delegateQueue : d[k] = delegateQueue[j]
        /\ delegateQueue # <<>> => d # <<>> /\ Head(d) = Head(delegateQueue)
    <3>1. IsQueue(delegateQueue) /\ OneEach(delegateQueue)
      BY <1>1 DEF AskersInv
    <3>2. ~IsFor(delegateQueue, n.asker)
      BY <1>5, <2>1
    <3>3. OneEach(d) /\ \A a : IsFor(d, a) <=> IsFor(delegateQueue, a) \/ n.asker = a
      BY <2>2, <3>1, <3>2, BlockAppended
    <3>4. /\ IsQueue(d)
          /\ delegateQueue # <<>> => d # <<>> /\ Head(d) = Head(delegateQueue)
      BY <2>2, <3>1, BlockAppended, ZenonT(40)
    <3>5. \A k \in DOMAIN d :
             d[k] = n \/ \E j \in DOMAIN delegateQueue : d[k] = delegateQueue[j]
      BY <2>2, <3>1, BlockAppended
    <3> QED  BY <2>1, <3>3, <3>4, <3>5
  <2>4. \A k \in DOMAIN d : CallbackBlock(d[k])'
    BY <1>1, <1>2, <1>4, <2>1, <2>3 DEF AskersInv, CallbackBlock
  <2>5. AskersInv'
    <3>1. ASSUME NEW a \in Asker, a \notin asked \/ IsFor(q, a) \/ IsFor(d, a)
          PROVE  answers[a] = 0 /\ completionBlock # a
      BY <1>1, <1>3, <1>5, <2>3, <3>1 DEF AskersInv
    <3>2. \A a \in Asker : IsFor(q, a) => ~IsFor(d, a)
      BY <1>1, <1>3, <1>5, <2>3 DEF AskersInv
    <3>3. /\ asked' \subseteq Asker /\ answers' \in [Asker -> Nat]
          /\ completionBlock' \in asked' \cup {NoBlock}
      BY <1>1, <1>2, <2>2 DEF AskersInv
    <3>4. fetchQueue' = q /\ delegateQueue' = d
      BY <2>2
    <3> QED  BY <1>2, <1>3, <1>6, <2>2, <2>3, <2>4, <3>1, <3>2, <3>3, <3>4
             DEF AskersInv
  <2>6. FileInv => FileInv'
    BY <1>2, <2>2, <2>3 DEF FileInv
  <2>7. HttpInv /\ fetcherClass = "http" => HttpInv'
    <3> SUFFICES ASSUME HttpInv, fetcherClass = "http"
                 PROVE  HttpInv'
      OBVIOUS
    <3>1. \A k \in DOMAIN q : q[k].does \in {"fetch", "cancel"}
      BY <1>3 DEF HttpInv
    <3>2. fetcherUser = "manager" => \A k \in DOMAIN q : q[k].does # "cancel"
      BY <1>3 DEF HttpInv
    <3>3. redirectCount <= MaxRedirects /\ ~cancelled
          => \A k \in DOMAIN d : d[k].asker # NoBlock
      BY <1>4, <2>1, <2>3 DEF HttpInv
    <3> QED  BY <1>2, <1>7, <2>2, <3>1, <3>2, <3>3 DEF HttpInv
  <2> QED  BY <1>2, <2>2, <2>5, <2>6, <2>7 DEF FetcherInv
<1>9. CASE ~isFetching
  <2>1. /\ isFetching' = TRUE /\ cancelled' = FALSE /\ completionBlock' = b
        /\ delegateQueue' = delegateQueue /\ fetchQueue' = q
        /\ completionDelivered' = FALSE /\ redirectCount' = 0
    BY <1>9 DEF BeginFetch, PerformFetchWithRetry, PerformFetch
  <2>2. \A k \in DOMAIN delegateQueue : CallbackBlock(delegateQueue[k])'
    BY <1>1, <1>2, <2>1 DEF AskersInv, CallbackBlock
  <2>3. AskersInv'
    <3>1. ASSUME NEW a \in Asker, a \notin asked \/ IsFor(q, a) \/ IsFor(delegateQueue, a)
          PROVE  answers[a] = 0 /\ b # a
      BY <1>1, <1>3, <1>4, <1>5, <3>1 DEF AskersInv
    <3>2. \A a \in Asker : IsFor(q, a) => ~IsFor(delegateQueue, a)
      BY <1>1, <1>3 DEF AskersInv
    <3> QED  BY <1>1, <1>2, <1>3, <1>4, <1>6, <2>1, <2>2, <3>1, <3>2
             DEF AskersInv, IsFor, OneEach
  <2>4. FileInv => FileInv'
    BY <1>2, <1>5, <2>1 DEF FileInv
  <2>5. HttpInv /\ fetcherClass = "http" => HttpInv'
    <3> SUFFICES ASSUME HttpInv, fetcherClass = "http"
                 PROVE  HttpInv'
      OBVIOUS
    <3>1. /\ \A k \in DOMAIN q : q[k].does \in {"fetch", "cancel"}
          /\ fetcherUser = "manager" => \A k \in DOMAIN q : q[k].does # "cancel"
      BY <1>3 DEF HttpInv
    <3>2. ~cancelled
      <4>1. fetcherUser = "resolver" /\ cancelled => FALSE
        BY <1>1, <1>3 DEF HttpInv
      <4> QED  BY <4>1 DEF FetcherInv, HttpInv
    <3>3. redirectCount = 0 /\ 0 <= MaxRedirects
      BY <1>9, <3>2, FetcherAssumption DEF HttpInv
    <3>4. /\ \A k \in DOMAIN delegateQueue : delegateQueue[k].asker # NoBlock
          /\ \A a \in Asker : answers[a] <= 1
      BY <3>2, <3>3 DEF HttpInv
    <3> QED  BY <1>2, <1>4, <1>5, <1>7, <2>1, <3>1, <3>4 DEF HttpInv
  <2> QED  BY <1>2, <2>1, <2>3, <2>4, <2>5 DEF FetcherInv
<1> QED  BY <1>8, <1>9

\* A block of delegateQueue
LEMMA DelegateBlockKeeps == ASSUME FetcherInv, DelegateBlock PROVE FetcherInv'
<1> PICK n : n = Head(delegateQueue)
  OBVIOUS
<1> PICK d : d = delegateQueue'
  OBVIOUS
<1>1. AskersInv /\ delegateQueue # <<>> /\ redirectCount \in Nat
  BY DEF FetcherInv, DelegateBlock
<1>2. /\ asked' = asked /\ fetcherClass' = fetcherClass /\ fetcherUser' = fetcherUser
      /\ isFetching' = isFetching /\ cancelled' = cancelled /\ fetchQueue' = fetchQueue
      /\ retryTimers' = retryTimers /\ currentTask' = currentTask
      /\ redirectCount' = redirectCount /\ completionDelivered' = completionDelivered
  BY DEF DelegateBlock, users, attempt, httpState
<1>3. /\ 1 \in DOMAIN delegateQueue /\ n = delegateQueue[1]
      /\ IsQueue(Tail(delegateQueue)) /\ OneEach(Tail(delegateQueue))
      /\ \A a : IsFor(delegateQueue, a) <=> n.asker = a \/ IsFor(Tail(delegateQueue), a)
      /\ n.asker # NoBlock => ~IsFor(Tail(delegateQueue), n.asker)
      /\ \A k \in DOMAIN Tail(delegateQueue) :
            \E j \in DOMAIN delegateQueue : Tail(delegateQueue)[k] = delegateQueue[j]
  BY <1>1, BlockTaken DEF AskersInv
<1>4. CallbackBlock(n)
  BY <1>1, <1>3 DEF AskersInv
<1>5. \A k \in DOMAIN Tail(delegateQueue) : CallbackBlock(Tail(delegateQueue)[k])
  BY <1>1, <1>3 DEF AskersInv
<1>6. SameAskers(fetchQueue, fetchQueue')
  BY <1>1, <1>2, SameItself DEF AskersInv
<1>7. CASE n.asker = NoBlock
  <2>1. \/ /\ n.does = "clear" /\ completionBlock' = NoBlock
           /\ d = Tail(delegateQueue) /\ answers' = answers
        \/ /\ n.does # "clear" /\ CallBlock(completionBlock)
           /\ completionBlock' = completionBlock
           /\ d = <<[n EXCEPT !.does = "clear"]>> \o Tail(delegateQueue)
    BY <1>7 DEF DelegateBlock, calls
  <2>2. /\ answers' \in [Asker -> Nat]
        /\ \A a \in Asker :
              \/ answers'[a] = answers[a]
              \/ /\ n.does # "clear" /\ completionBlock = a
                 /\ answers'[a] = answers[a] + 1
    BY <1>1, <2>1, HeldCalled DEF AskersInv
  <2> PICK m : m = [n EXCEPT !.does = "clear"]
    OBVIOUS
  <2>3. m.asker = NoBlock /\ m.does = "clear" /\ CallbackBlock(m)
    BY <1>4, <1>7 DEF CallbackBlock
  <2>4. /\ SameAskers(delegateQueue, d)
        /\ \A k \in DOMAIN d : CallbackBlock(d[k])
        /\ n.does # "clear" => d # <<>> /\ Head(d).does = "clear"
    <3>1. CASE n.does = "clear"
      <4>1. d = Tail(delegateQueue)
        BY <2>1, <3>1
      <4> QED  BY <1>1, <1>5, <1>7, <3>1, <4>1, SameTaken DEF AskersInv
    <3>2. CASE n.does # "clear"
      <4>1. d = <<m>> \o Tail(delegateQueue)
        BY <2>1, <3>2
      <4>2. /\ IsQueue(d) /\ d # <<>> /\ Head(d) = m
            /\ \A a \in Asker : IsFor(d, a) <=> IsFor(delegateQueue, a)
            /\ OneEach(delegateQueue) => OneEach(d)
            /\ \A k \in DOMAIN d :
                  d[k] = m \/ \E j \in DOMAIN delegateQueue : d[k] = delegateQueue[j]
        <5>1. IsQueue(delegateQueue) /\ Head(delegateQueue).asker = NoBlock
          BY <1>1, <1>7 DEF AskersInv
        <5>2. IsQueue(d) /\ d # <<>> /\ Head(d) = m
          BY <1>1, <2>3, <4>1, <5>1, BlockClears
        <5>3. \A a \in Asker : IsFor(d, a) <=> IsFor(delegateQueue, a)
          BY <1>1, <2>3, <4>1, <5>1, BlockClears, ZenonT(40)
        <5>4. OneEach(delegateQueue) => OneEach(d)
          BY <1>1, <2>3, <4>1, <5>1, BlockClears
        <5>5. \A k \in DOMAIN d :
                 d[k] = m \/ \E j \in DOMAIN delegateQueue : d[k] = delegateQueue[j]
          BY <1>1, <2>3, <4>1, <5>1, BlockClears
        <5> QED  BY <5>2, <5>3, <5>4, <5>5
      <4>3. \A k \in DOMAIN d : CallbackBlock(d[k])
        BY <1>1, <2>3, <4>2 DEF AskersInv
      <4> QED  BY <2>3, <4>2, <4>3 DEF SameAskers
    <3> QED  BY <3>1, <3>2
  <2>5. AskersInv'
    <3>1. completionBlock' \in {completionBlock, NoBlock}
      BY <2>1
    <3> QED  BY <1>1, <1>2, <1>6, <2>2, <2>4, <3>1, AskersKept DEF AskersInv
  <2>6. FileInv => FileInv'
    <3> SUFFICES ASSUME FileInv, NEW a \in Asker
                 PROVE  /\ answers'[a] <= 1
                        /\ completionBlock' = a /\ answers'[a] = 1
                           => d # <<>> /\ Head(d).does = "clear"
      BY DEF FileInv
    <3>1. answers[a] \in Nat /\ answers[a] <= 1 /\ a # NoBlock
      BY <1>1, FetcherAssumption DEF AskersInv, FileInv
    <3>2. n.does # "clear" /\ completionBlock = a => answers[a] = 0
      BY <3>1 DEF FileInv
    <3> QED  BY <2>1, <2>2, <2>4, <3>1, <3>2
  <2>7. HttpInv => HttpInv'
    <3> SUFFICES ASSUME HttpInv
                 PROVE  HttpInv'
      OBVIOUS
    <3>1. ~(redirectCount <= MaxRedirects /\ ~cancelled)
      BY <1>3, <1>7 DEF HttpInv
    <3>2. isFetching \/ cancelled
      BY <3>1, FetcherAssumption DEF HttpInv
    <3> QED  BY <1>2, <3>1, <3>2 DEF HttpInv
  <2> QED  BY <1>2, <2>5, <2>6, <2>7 DEF FetcherInv
<1>8. CASE n.asker # NoBlock
  <2> PICK b : b = n.asker
    OBVIOUS
  <2>1. b \in asked /\ b \in Asker /\ n.does = "call"
    BY <1>1, <1>4, <1>8 DEF CallbackBlock, AskersInv
  <2>2. /\ answers[b] = 0 /\ completionBlock # b /\ ~IsFor(fetchQueue, b)
        /\ ~IsFor(Tail(delegateQueue), b)
    BY <1>1, <1>3, <1>8, <2>1 DEF AskersInv
  <2>3. /\ answers' = [answers EXCEPT ![b] = @ + 1] /\ d = Tail(delegateQueue)
        /\ completionBlock' = completionBlock
    BY <1>8, <2>1 DEF DelegateBlock, CallBlock
  <2>4. /\ answers' \in [Asker -> Nat] /\ answers'[b] = 1
        /\ \A a \in Asker \ {b} : answers'[a] = answers[a]
    BY <1>1, <2>1, <2>2, <2>3 DEF AskersInv
  <2>5. AskersInv'
    <3>1. \A k \in DOMAIN d : CallbackBlock(d[k])'
      BY <1>2, <1>5, <2>3 DEF CallbackBlock
    <3>2. \A k \in DOMAIN fetchQueue : FetchBlock(fetchQueue[k])'
      BY <1>1, <1>2 DEF AskersInv, FetchBlock
    <3>3. ASSUME NEW a \in Asker, a \notin asked \/ IsFor(fetchQueue, a) \/ IsFor(d, a)
          PROVE  answers'[a] = 0 /\ completionBlock # a
      BY <1>1, <1>3, <2>1, <2>2, <2>3, <2>4, <3>3 DEF AskersInv
    <3>4. \A a \in Asker : IsFor(fetchQueue, a) => ~IsFor(d, a)
      BY <1>1, <1>3, <2>3 DEF AskersInv
    <3> QED  BY <1>1, <1>2, <1>3, <2>3, <2>4, <3>1, <3>2, <3>3, <3>4
             DEF AskersInv, IsFor, OneEach
  <2>6. FileInv => FileInv'
    BY <2>1, <2>2, <2>3, <2>4 DEF FileInv
  <2>7. HttpInv => HttpInv'
    <3> SUFFICES ASSUME HttpInv
                 PROVE  HttpInv'
      OBVIOUS
    <3>1. redirectCount <= MaxRedirects /\ ~cancelled
          => \A k \in DOMAIN d : d[k].asker # NoBlock
      BY <1>3, <2>3 DEF HttpInv
    <3>2. redirectCount <= MaxRedirects /\ ~cancelled
          => /\ \A a \in Asker : answers'[a] <= 1
             /\ \A a \in Asker :
                   completionBlock = a /\ ~completionDelivered => answers'[a] = 0
      BY <2>2, <2>4 DEF HttpInv
    <3> QED  BY <1>2, <2>3, <3>1, <3>2 DEF HttpInv
  <2> QED  BY <1>2, <2>5, <2>6, <2>7 DEF FetcherInv
<1> QED  BY <1>7, <1>8

LEMMA FetcherBegins == FetcherInit => FetcherInv
<1> SUFFICES ASSUME FetcherInit
             PROVE  FetcherInv
  OBVIOUS
<1>1. /\ IsQueue(fetchQueue) /\ IsQueue(delegateQueue)
      /\ DOMAIN fetchQueue = {} /\ DOMAIN delegateQueue = {}
  BY EmptySeq DEF FetcherInit, IsQueue
<1>2. AskersInv
  BY <1>1, FetcherAssumption DEF FetcherInit, AskersInv, OneEach, IsFor
<1>3. FileInv
  BY FetcherAssumption DEF FetcherInit, FileInv
<1>4. HttpInv
  BY <1>1 DEF FetcherInit, HttpInv
<1> QED  BY <1>2, <1>3, <1>4 DEF FetcherInit, FetcherInv

LEMMA FetcherStep == FetcherInv /\ [FetcherNext]_fetcherVars => FetcherInv'
<1> SUFFICES ASSUME FetcherInv, [FetcherNext]_fetcherVars
             PROVE  FetcherInv'
  OBVIOUS
<1>1. CASE \E a \in Asker : FetchRules(a)
  BY <1>1, FetchRulesKeeps
<1>2. CASE CancelFetch
  BY <1>2, CancelFetchKeeps
<1>3. CASE FetchQueueStep
  BY <1>3, BeginFetchKeeps, DoCancelKeeps, HandleFetchCompletionKeeps, RetryKeeps
     DEF FetchQueueStep
<1>4. CASE RetryDue
  BY <1>4, RetryDueKeeps
<1>5. CASE DelegateBlock
  BY <1>5, DelegateBlockKeeps
<1>6. CASE ReadFile
  BY <1>6, ReadFileKeeps
<1>7. CASE SessionStep
  BY <1>7, SessionStepKeeps
<1>8. CASE UNCHANGED fetcherVars
  <2>1. /\ asked' = asked /\ fetcherClass' = fetcherClass /\ fetcherUser' = fetcherUser
        /\ isFetching' = isFetching /\ cancelled' = cancelled
        /\ completionBlock' = completionBlock /\ fetchQueue' = fetchQueue
        /\ delegateQueue' = delegateQueue /\ retryTimers' = retryTimers
        /\ currentTask' = currentTask /\ redirectCount' = redirectCount
        /\ completionDelivered' = completionDelivered /\ answers' = answers
    BY <1>8 DEF fetcherVars, baseState, httpState, attempt, users, calls
  <2> QED  BY <2>1 DEF FetcherInv, AskersInv, FileInv, HttpInv, OneEach, IsFor, FetchBlock,
                       CallbackBlock
<1> QED  BY <1>1, <1>2, <1>3, <1>4, <1>5, <1>6, <1>7, <1>8 DEF FetcherNext

\* No asker of a fetcher is answered twice, whatever else is asked meanwhile, unless a
\* redirect passed the limit or the fetch was cancelled (Fetcher.m:163-296,
\* HTTPRuleFetcher.m:379-462).
THEOREM AnsweredOnceHolds == FetcherSpec => []AnsweredOnce
<1>1. FetcherInv => AnsweredOnce
  BY FetcherAssumption DEF FetcherInv, AskersInv, FileInv, HttpInv, AnsweredOnce
<1> QED  BY <1>1, FetcherBegins, FetcherStep, PTL DEF FetcherSpec

-----------------------------------------------------------------------------
(* RuleFetcher: types *)

\* A block of fetchQueue brings no more attempts than a fetcher has retries.
FetcherBlock == {block \in Block : block.attempts <= MaxRetryCount}

FetcherTypeInv ==
    FetcherTypeOK /\ fetchQueue \in Seq(FetcherBlock) /\ completionDelivered \in BOOLEAN

LEMMA BlockTypes ==
    ASSUME NEW what \in {"fetch", "cancel", "finish", "retry", "call", "clear"},
           NEW asker \in Asker \cup {NoBlock}, NEW error \in Error \cup {NoError},
           NEW attempts \in 0 .. MaxRetryCount
    PROVE  Does(what, asker, error, attempts) \in FetcherBlock
<1>1. attempts \in Nat /\ attempts <= MaxRetryCount
  BY FetcherAssumption
<1>2. Does(what, asker, error, attempts) \in Block
  BY <1>1 DEF Does, Block
<1>3. Does(what, asker, error, attempts).attempts = attempts
  BY DEF Does
<1> QED  BY <1>1, <1>2, <1>3 DEF FetcherBlock

LEMMA ErrorsGiven ==
    /\ {Busy, FetchCancelled, NoError} \cup FileError \subseteq Error \cup {NoError}
    /\ 0 \in 0 .. MaxRetryCount
<1>1. 0 \in 0 .. MaxRetryCount
  BY FetcherAssumption
<1> DEFINE D == ErrorDomain \cup SystemDomain
<1>2. /\ "RuleFetcher" \in D /\ "NSCocoa" \in D
      /\ {"Unknown", "Cancelled", "DataCorrupted"} \subseteq ErrorCode["RuleFetcher"]
      /\ "Other" \in ErrorCode["NSCocoa"] /\ NoStatus \in Status
  BY DEF ErrorDomain, SystemDomain, ErrorCode, RuleFetcherError, Status
<1>3. ASSUME NEW domain \in D, NEW code \in ErrorCode[domain]
      PROVE  MakeError(domain, code) \in Error
  <2>1. PICK e : e = MakeError(domain, code)
    OBVIOUS
  <2>2. code \in UNION {ErrorCode[d] : d \in D}
    BY <1>3
  <2>3. /\ e \in [domain: D, code: UNION {ErrorCode[d] : d \in D}, status: Status]
        /\ e.code = code /\ e.domain = domain
    BY <1>2, <2>1, <2>2 DEF MakeError
  <2>4. e \in Error
    BY <2>3 DEF Error
  <2> QED  BY <2>1, <2>4
<1> HIDE DEF D
<1>4. Busy \in Error /\ FetchCancelled \in Error
  BY <1>2, <1>3 DEF Busy, FetchCancelled
<1>5. FileError \subseteq Error
  BY <1>2, <1>3 DEF FileError
<1> QED  BY <1>1, <1>4, <1>5

LEMMA CallTypes ==
    ASSUME answers \in [Asker -> Nat], nilBlockCalled \in BOOLEAN,
           NEW block \in Asker \cup {NoBlock}, CallBlock(block)
    PROVE  answers' \in [Asker -> Nat] /\ nilBlockCalled' \in BOOLEAN
<1>1. CASE block = NoBlock
  BY <1>1 DEF CallBlock
<1>2. CASE block # NoBlock
  <2>1. block \in Asker /\ answers' = [answers EXCEPT ![block] = @ + 1]
        /\ nilBlockCalled' = nilBlockCalled
    BY <1>2 DEF CallBlock
  <2>2. answers[block] + 1 \in Nat
    BY <2>1
  <2>3. answers' \in [Asker -> Nat]
    BY <2>1, <2>2
  <2> QED  BY <2>1, <2>3
<1> QED  BY <1>1, <1>2

\* What is left of a queue, or more of it.

LEMMA FetcherTypeStep ==
    FetcherTypeInv /\ [FetcherNext]_fetcherVars => FetcherTypeInv'
<1> SUFFICES ASSUME FetcherTypeInv, [FetcherNext]_fetcherVars
             PROVE  FetcherTypeInv'
  OBVIOUS
<1> USE DEF users, calls, httpState, attempt
\* What is left to show of each step.
<1> DEFINE F == FetcherBlock
           Flags == isFetching' \in BOOLEAN /\ cancelled' \in BOOLEAN
           Held == completionBlock' \in Asker \cup {NoBlock}
           Queues == fetchQueue' \in Seq(F) /\ delegateQueue' \in Seq(Block)
           Attempts == /\ remainingAttempts' \in 0 .. MaxRetryCount
                       /\ retryTimers' \subseteq 0 .. MaxRetryCount
           OneOf == \/ fetcherClass' = "http" /\ fetcherUser' \in {"manager", "resolver"}
                    \/ fetcherClass' = "file" /\ fetcherUser' = "manager"
           Task == /\ fetcherClass = "http" =>
                         currentTask' \in {"none", "running", "refused", "redirected",
                                           "cancelled"}
                   /\ fetcherClass = "file" => currentTask' \in {"none", "running"}
           Delivered == /\ completionDelivered' \in BOOLEAN
                        /\ fetcherClass = "file" => completionDelivered' = FALSE
           Counted == /\ redirectCount' \in 0 .. MaxRedirects + 1
                      /\ fetcherClass = "file" => redirectCount' = 0
           Answered == answers' \in [Asker -> Nat] /\ nilBlockCalled' \in BOOLEAN
<1>1. /\ fetchQueue \in Seq(F) /\ delegateQueue \in Seq(Block)
      /\ completionBlock \in Asker \cup {NoBlock}
      /\ remainingAttempts \in 0 .. MaxRetryCount /\ retryTimers \subseteq 0 .. MaxRetryCount
      /\ asked \subseteq Asker /\ answers \in [Asker -> Nat]
  BY DEF FetcherTypeInv, FetcherTypeOK, RuleFetcherBase
<1>2. isFetching \in BOOLEAN /\ cancelled \in BOOLEAN /\ nilBlockCalled \in BOOLEAN
  BY DEF FetcherTypeInv, FetcherTypeOK, RuleFetcherBase
<1>3. /\ \/ fetcherClass = "http" /\ fetcherUser \in {"manager", "resolver"}
         \/ fetcherClass = "file" /\ fetcherUser = "manager"
      /\ fetcherClass = "http" =>
            currentTask \in {"none", "running", "refused", "redirected", "cancelled"}
      /\ fetcherClass = "file" => currentTask \in {"none", "running"} /\ redirectCount = 0
      /\ redirectCount \in 0 .. MaxRedirects + 1
  BY FetcherAssumption DEF FetcherTypeInv, FetcherTypeOK, HTTPRuleFetcher, FileRuleFetcher
<1>4. /\ completionDelivered \in BOOLEAN
      /\ fetcherClass = "file" => completionDelivered = FALSE
  <2>1. completionDelivered \in BOOLEAN
    BY DEF FetcherTypeInv
  <2>2. HTTPRuleFetcher => fetcherClass = "http"
    BY DEF HTTPRuleFetcher
  <2>3. FileRuleFetcher => completionDelivered = FALSE
    BY <2>1 DEF FileRuleFetcher
  <2> QED  BY <2>1, <2>2, <2>3 DEF FetcherTypeInv, FetcherTypeOK
<1>5. F \subseteq Block /\ 0 \in 0 .. MaxRetryCount /\ NoBlock \in Asker \cup {NoBlock}
      /\ \A block \in Block : /\ block.asker \in Asker \cup {NoBlock}
                              /\ block.error \in Error \cup {NoError}
      /\ \A held \in F : held.attempts \in 0 .. MaxRetryCount
  BY ErrorsGiven DEF FetcherBlock, Block
<1>6. ASSUME asked' \subseteq Asker, UNCHANGED <<fetcherClass, fetcherUser>>,
             Flags, Held, Queues, Attempts, Task, Delivered, Counted, Answered
      PROVE  FetcherTypeInv'
  <2>1. fetchQueue' \in Seq(Block)
    BY <1>5, <1>6, SeqMonotonic
  <2>2. RuleFetcherBase'
    BY <1>6, <2>1 DEF RuleFetcherBase
  <2>3. CASE fetcherClass = "http"
    <3>1. HTTPRuleFetcher'
      BY <1>3, <1>6, <2>3 DEF HTTPRuleFetcher
    <3> QED  BY <1>6, <2>2, <3>1 DEF FetcherTypeInv, FetcherTypeOK
  <2>4. CASE fetcherClass = "file"
    <3>1. FileRuleFetcher'
      BY <1>3, <1>6, <2>4 DEF FileRuleFetcher
    <3> QED  BY <1>6, <2>2, <3>1 DEF FetcherTypeInv, FetcherTypeOK
  <2> QED  BY <1>3, <2>3, <2>4
\* What stays as it is stays in its type.
<1>7. /\ UNCHANGED <<isFetching, cancelled>> => Flags
      /\ UNCHANGED completionBlock => Held
      /\ UNCHANGED <<remainingAttempts, retryTimers>> => Attempts
      /\ UNCHANGED currentTask => Task
      /\ UNCHANGED completionDelivered => Delivered
      /\ UNCHANGED redirectCount => Counted
      /\ UNCHANGED <<answers, nilBlockCalled>> => Answered
  BY <1>1, <1>2, <1>3, <1>4
<1>8. ASSUME NEW what \in {"fetch", "cancel", "finish", "retry", "call", "clear"},
             NEW asker \in Asker \cup {NoBlock}, NEW error \in Error \cup {NoError},
             NEW attempts \in 0 .. MaxRetryCount
      PROVE  /\ Append(fetchQueue, Does(what, asker, error, attempts)) \in Seq(F)
             /\ fetchQueue # <<>> =>
                   Append(Tail(fetchQueue), Does(what, asker, error, attempts)) \in Seq(F)
             /\ Append(delegateQueue, Does(what, asker, error, attempts)) \in Seq(Block)
  <2>1. PICK block : block = Does(what, asker, error, attempts) /\ block \in F /\ block \in Block
    BY <1>5, BlockTypes
  <2> QED  BY <1>1, <2>1, BlocksLeft
<1>9. /\ Busy \in Error \cup {NoError} /\ FetchCancelled \in Error \cup {NoError}
      /\ NoError \in Error \cup {NoError}
      /\ FileError \cup {NoError} \subseteq Error \cup {NoError}
  BY ErrorsGiven
\* An attempt begins, or is found cancelled.
<1>10. ASSUME NEW attempts \in 0 .. MaxRetryCount, NEW queue \in Seq(F),
              PerformFetchWithRetry(attempts, queue), delegateQueue' \in Seq(Block),
              retryTimers' = retryTimers
       PROVE  Queues /\ Attempts /\ Task /\ Delivered /\ Counted
  <2>1. CASE cancelled'
    <3>1. /\ fetchQueue' = Append(queue, Does("finish", NoBlock, FetchCancelled, 0))
          /\ UNCHANGED <<currentTask, remainingAttempts, completionDelivered, redirectCount>>
      BY <1>10, <2>1 DEF PerformFetchWithRetry
    <3>2. Does("finish", NoBlock, FetchCancelled, 0) \in F
      BY <1>5, <1>9, BlockTypes
    <3>3. Queues
      BY <1>10, <3>1, <3>2, BlocksLeft
    <3>4. Task /\ Delivered /\ Counted
      BY <1>7, <3>1
    <3> QED  BY <1>1, <1>10, <3>1, <3>3, <3>4
  <2>2. CASE ~cancelled'
    <3>1. /\ currentTask' = "running" /\ remainingAttempts' = attempts
          /\ completionDelivered' = FALSE /\ redirectCount' = 0 /\ fetchQueue' = queue
      BY <1>10, <2>2 DEF PerformFetchWithRetry, PerformFetch
    <3>2. Delivered
      BY <3>1
    <3>3. Counted
      BY <3>1, FetcherAssumption
    <3> QED  BY <1>1, <1>10, <3>1, <3>2, <3>3
  <2> QED  BY <2>1, <2>2
<1>11. CASE \E a \in Asker : FetchRules(a)
  <2>1. PICK a \in Asker : FetchRules(a)
    BY <1>11
  <2>2. /\ asked' = asked \cup {a}
        /\ fetchQueue' = Append(fetchQueue, Does("fetch", a, NoError, 0))
        /\ UNCHANGED <<fetcherClass, fetcherUser, isFetching, cancelled, completionBlock,
                       delegateQueue, completionDelivered, redirectCount, currentTask,
                       remainingAttempts, retryTimers, answers, nilBlockCalled>>
    BY <2>1 DEF FetchRules
  <2>3. Queues
    BY <1>1, <1>5, <1>8, <1>9, <2>2
  <2> QED  BY <1>1, <1>6, <1>7, <2>2, <2>3
<1>12. CASE CancelFetch
  <2>1. /\ fetchQueue' = Append(fetchQueue, Does("cancel", NoBlock, NoError, 0))
        /\ UNCHANGED <<fetcherClass, fetcherUser, asked, isFetching, cancelled, completionBlock,
                       delegateQueue, completionDelivered, redirectCount, currentTask,
                       remainingAttempts, retryTimers, answers, nilBlockCalled>>
    BY <1>12 DEF CancelFetch
  <2>2. Queues
    BY <1>1, <1>5, <1>8, <1>9, <2>1
  <2> QED  BY <1>1, <1>6, <1>7, <2>1, <2>2
<1>13. CASE BeginFetch
  <2>1. /\ fetchQueue # <<>>
        /\ UNCHANGED <<fetcherClass, fetcherUser, asked, answers, nilBlockCalled>>
    BY <1>13 DEF BeginFetch
  <2>2. PICK asker : asker = Head(fetchQueue).asker
    OBVIOUS
  <2>3. asker \in Asker \cup {NoBlock} /\ Tail(fetchQueue) \in Seq(F)
    BY <1>1, <1>5, <2>1, <2>2, BlocksLeft
  <2>4. CASE isFetching
    <3>1. /\ delegateQueue' = Append(delegateQueue, Does("call", asker, Busy, 0))
          /\ fetchQueue' = Tail(fetchQueue)
          /\ UNCHANGED <<isFetching, cancelled, completionBlock, currentTask, remainingAttempts,
                         retryTimers, completionDelivered, redirectCount>>
      BY <1>13, <2>2, <2>4 DEF BeginFetch
    <3>2. Queues
      BY <1>1, <1>5, <1>8, <1>9, <2>3, <3>1
    <3> QED  BY <1>1, <1>6, <1>7, <2>1, <3>1, <3>2
  <2>5. CASE ~isFetching
    <3>1. /\ isFetching' = TRUE /\ cancelled' = FALSE
      BY <1>13, <2>5 DEF BeginFetch
    <3>2. /\ completionBlock' = asker
          /\ PerformFetchWithRetry(Retries, Tail(fetchQueue))
          /\ UNCHANGED <<delegateQueue, retryTimers>>
      BY <1>13, <2>2, <2>5 DEF BeginFetch
    <3>3. Retries \in 0 .. MaxRetryCount
      BY <1>5, FetcherAssumption DEF Retries
    <3>4. Queues /\ Attempts /\ Task /\ Delivered /\ Counted
      BY <1>1, <1>10, <2>3, <3>2, <3>3
    <3>5. Flags
      BY <3>1
    <3> QED  BY <1>1, <1>6, <1>7, <2>1, <2>3, <3>2, <3>4, <3>5
  <2> QED  BY <2>4, <2>5
<1>14. CASE DoCancel
  <2>1. /\ fetchQueue # <<>> /\ fetchQueue' = Tail(fetchQueue)
        /\ UNCHANGED <<fetcherClass, fetcherUser, asked, completionBlock, remainingAttempts,
                       retryTimers, completionDelivered, redirectCount, answers,
                       nilBlockCalled>>
    BY <1>14 DEF DoCancel
  <2>2. /\ delegateQueue' \in {delegateQueue,
               Append(delegateQueue, Does("call", NoBlock, FetchCancelled, 0))}
        /\ \/ currentTask' = currentTask
           \/ fetcherClass = "http" /\ currentTask' = "cancelled"
    BY <1>14 DEF DoCancel
  <2>3. Flags
    <3>1. CASE isFetching
      <4>1. cancelled' = TRUE /\ isFetching' = FALSE
        BY <1>14, <3>1 DEF DoCancel
      <4> QED  BY <4>1
    <3>2. CASE ~isFetching
      <4>1. cancelled' = cancelled /\ isFetching' = isFetching
        BY <1>14, <3>2 DEF DoCancel
      <4> QED  BY <1>2, <4>1
    <3> QED  BY <3>1, <3>2
  <2>4. Queues
    <3>1. Append(delegateQueue, Does("call", NoBlock, FetchCancelled, 0)) \in Seq(Block)
      BY <1>5, <1>8, <1>9
    <3>2. Tail(fetchQueue) \in Seq(F)
      BY <1>1, <2>1, BlocksLeft
    <3> QED  BY <1>1, <2>1, <2>2, <3>1, <3>2
  <2>5. Task
    BY <1>3, <2>2
  <2> QED  BY <1>1, <1>6, <1>7, <2>1, <2>3, <2>4, <2>5
<1>15. CASE HandleFetchCompletion
  <2>1. /\ fetchQueue # <<>> /\ fetchQueue' = Tail(fetchQueue)
        /\ UNCHANGED <<fetcherClass, fetcherUser, asked, cancelled, completionBlock,
                       currentTask, remainingAttempts, retryTimers, completionDelivered,
                       redirectCount, answers, nilBlockCalled>>
    BY <1>15 DEF HandleFetchCompletion
  <2>2. Flags
    <3>1. isFetching' = FALSE
      BY <1>15 DEF HandleFetchCompletion
    <3> QED  BY <1>2, <2>1, <3>1
  <2>3. PICK error : error = Head(fetchQueue).error
    OBVIOUS
  <2>4. error \in Error \cup {NoError} /\ Tail(fetchQueue) \in Seq(F)
    BY <1>1, <1>5, <2>1, <2>3, BlocksLeft
  <2>5. delegateQueue' \in {delegateQueue,
            Append(delegateQueue, Does("call", NoBlock, error, 0))}
    BY <1>15, <2>3 DEF HandleFetchCompletion
  <2>6. Queues
    BY <1>1, <1>5, <1>8, <2>1, <2>4, <2>5
  <2> QED  BY <1>1, <1>6, <1>7, <2>1, <2>2, <2>6
<1>16. CASE Retry
  <2>1. /\ fetchQueue # <<>>
        /\ PerformFetchWithRetry(Head(fetchQueue).attempts, Tail(fetchQueue))
        /\ UNCHANGED <<fetcherClass, fetcherUser, asked, isFetching, cancelled,
                       completionBlock, delegateQueue, retryTimers, answers, nilBlockCalled>>
    BY <1>16 DEF Retry
  <2>2. Head(fetchQueue) \in F /\ Tail(fetchQueue) \in Seq(F)
    BY <1>1, <2>1, BlocksLeft
  <2>3. Head(fetchQueue).attempts \in 0 .. MaxRetryCount
    BY <1>5, <2>2
  <2>4. Queues /\ Attempts /\ Task /\ Delivered /\ Counted
    BY <1>1, <1>10, <2>1, <2>2, <2>3
  <2> QED  BY <1>1, <1>6, <1>7, <2>1, <2>4
<1>17. CASE RetryDue
  <2>1. PICK n \in retryTimers :
            /\ retryTimers' = retryTimers \ {n}
            /\ fetchQueue' = Append(fetchQueue, Does("retry", NoBlock, NoError, n))
    BY <1>17 DEF RetryDue
  <2>2. UNCHANGED <<fetcherClass, fetcherUser, asked, isFetching, cancelled, completionBlock,
                    delegateQueue, currentTask, remainingAttempts, completionDelivered,
                    redirectCount, answers, nilBlockCalled>>
    BY <1>17 DEF RetryDue
  <2>3. Queues /\ Attempts
    BY <1>1, <1>5, <1>8, <1>9, <2>1, <2>2
  <2> QED  BY <1>1, <1>6, <1>7, <2>2, <2>3
<1>18. CASE DelegateBlock
  <2>1. PICK next : next = Head(delegateQueue)
    OBVIOUS
  <2>2. /\ delegateQueue # <<>>
        /\ UNCHANGED <<fetcherClass, fetcherUser, asked, isFetching, cancelled, fetchQueue,
                       currentTask, remainingAttempts, retryTimers, completionDelivered,
                       redirectCount>>
    BY <1>18 DEF DelegateBlock
  <2>3. next \in Block /\ Tail(delegateQueue) \in Seq(Block)
    BY <1>1, <2>1, <2>2, BlocksLeft
  <2>4. CASE next.does = "clear"
    <3>1. /\ completionBlock' = NoBlock /\ delegateQueue' = Tail(delegateQueue)
          /\ UNCHANGED <<answers, nilBlockCalled>>
      BY <1>18, <2>1, <2>4 DEF DelegateBlock
    <3>2. Queues /\ Held
      BY <1>1, <2>2, <2>3, <3>1
    <3> QED  BY <1>1, <1>6, <1>7, <2>2, <3>1, <3>2
  <2>5. CASE next.does # "clear"
    <3>1. PICK block : block = IF next.asker # NoBlock THEN next.asker ELSE completionBlock
      OBVIOUS
    <3>2. block \in Asker \cup {NoBlock}
      BY <1>1, <1>5, <2>3, <3>1
    <3>3. CallBlock(block) /\ completionBlock' = completionBlock
          /\ delegateQueue' = IF next.asker # NoBlock THEN Tail(delegateQueue)
                              ELSE <<[next EXCEPT !.does = "clear"]>> \o Tail(delegateQueue)
      BY <1>18, <2>1, <2>5, <3>1 DEF DelegateBlock
    <3>4. Answered
      BY <1>1, <1>2, <3>2, <3>3, CallTypes
    <3>5. [next EXCEPT !.does = "clear"] \in Block
      BY <2>3 DEF Block
    <3>6. <<[next EXCEPT !.does = "clear"]>> \in Seq(Block)
      BY <3>5
    <3>7. delegateQueue' \in Seq(Block)
      BY <2>3, <3>3, <3>6, ConcatProperties
    <3> QED  BY <1>1, <1>6, <1>7, <2>2, <3>3, <3>4, <3>7
  <2> QED  BY <2>4, <2>5
<1>19. CASE ReadFile
  <2>1. /\ fetcherClass = "file" /\ currentTask' = "none"
        /\ UNCHANGED <<fetcherClass, fetcherUser, asked, isFetching, cancelled, completionBlock,
                       delegateQueue, remainingAttempts, completionDelivered, redirectCount,
                       answers, nilBlockCalled>>
    BY <1>19 DEF ReadFile
  <2>2. PICK e \in FileError \cup {NoError} : AttemptEnds(e)
    BY <1>19 DEF ReadFile
  <2>3. \/ /\ remainingAttempts > 0 /\ retryTimers' = retryTimers \cup {remainingAttempts - 1}
           /\ fetchQueue' = fetchQueue
        \/ /\ fetchQueue' = Append(fetchQueue, Does("finish", NoBlock, e, 0))
           /\ retryTimers' = retryTimers
    BY <2>2 DEF AttemptEnds
  <2>4. remainingAttempts > 0 => remainingAttempts - 1 \in 0 .. MaxRetryCount
    BY <1>1, FetcherAssumption
  <2>5. Attempts
    BY <1>1, <2>1, <2>3, <2>4
  <2>6. e \in Error \cup {NoError}
    BY <1>9, <2>2
  <2>7. Queues
    BY <1>1, <1>5, <1>8, <2>1, <2>3, <2>6
  <2> QED  BY <1>1, <1>6, <1>7, <2>1, <2>5, <2>7
<1>20. CASE SessionStep
  <2>1. /\ fetcherClass = "http" /\ HttpUnchanged
        /\ currentTask' \in {"none", "running", "refused", "redirected", "cancelled"}
    BY <1>3, <1>20
       DEF SessionStep, ReceiveRefusal, CompleteWithData, CompleteWithError, PerformRedirection
  <2>2. UNCHANGED <<fetcherClass, fetcherUser, asked, isFetching, cancelled, completionBlock,
                    fetchQueue, delegateQueue, remainingAttempts, retryTimers>>
    BY <2>1 DEF HttpUnchanged
  <2>3. Delivered
    <3>1. completionDelivered' = TRUE \/ completionDelivered' = completionDelivered
      BY <1>20 DEF SessionStep, ReceiveRefusal, CompleteWithData, CompleteWithError,
                   PerformRedirection, DeliverOnce
    <3> QED  BY <1>4, <2>1, <3>1
  <2>4. Counted
    <3>1. \/ redirectCount' = redirectCount
          \/ redirectCount <= MaxRedirects /\ redirectCount' = redirectCount + 1
      BY <1>20 DEF SessionStep, ReceiveRefusal, CompleteWithData, CompleteWithError,
                   PerformRedirection
    <3> QED  BY <1>3, <2>1, <3>1, FetcherAssumption
  <2>5. Answered
    <3>1. CallBlock(completionBlock) \/ UNCHANGED <<answers, nilBlockCalled>>
      BY <1>20 DEF SessionStep, ReceiveRefusal, CompleteWithData, CompleteWithError,
                   PerformRedirection, DeliverOnce
    <3>2. CASE CallBlock(completionBlock)
      BY <1>1, <1>2, <3>2, CallTypes
    <3> QED  BY <1>7, <3>1, <3>2
  <2>6. Task
    BY <2>1
  <2> QED  BY <1>1, <1>6, <1>7, <2>2, <2>3, <2>4, <2>5, <2>6
<1>21. CASE UNCHANGED fetcherVars
  <2>1. UNCHANGED <<fetcherClass, fetcherUser, asked, isFetching, cancelled, completionBlock,
                    fetchQueue, delegateQueue, currentTask, remainingAttempts, retryTimers,
                    completionDelivered, redirectCount, answers, nilBlockCalled>>
    BY <1>21 DEF fetcherVars, baseState
  <2> QED  BY <1>1, <1>6, <1>7, <2>1
<1> QED  BY <1>11, <1>12, <1>13, <1>14, <1>15, <1>16, <1>17, <1>18, <1>19, <1>20, <1>21
         DEF FetcherNext, FetchQueueStep

\* A fetcher's state stays in its types: in particular a file fetcher never has anything
\* of a session's, and no attempt is counted below zero or above the retries
\* (RuleFetcher!FetcherTypeOK).
THEOREM FetcherTypeCorrect == FetcherSpec => []FetcherTypeOK
<1>1. FetcherInit => FetcherTypeInv
  <2> SUFFICES ASSUME FetcherInit PROVE FetcherTypeInv
    OBVIOUS
  <2>1. /\ fetchQueue = <<>> /\ delegateQueue = <<>> /\ completionBlock = NoBlock
        /\ remainingAttempts = 0 /\ retryTimers = {} /\ asked = {}
        /\ answers = [a \in Asker |-> 0] /\ redirectCount = 0 /\ currentTask = "none"
    BY DEF FetcherInit
  <2>2. /\ <<>> \in Seq(FetcherBlock) /\ <<>> \in Seq(Block) /\ 0 \in 0 .. MaxRetryCount
        /\ 0 \in 0 .. MaxRedirects + 1
    BY EmptySeq, ErrorsGiven, FetcherAssumption
  <2>3. isFetching \in BOOLEAN /\ cancelled \in BOOLEAN /\ nilBlockCalled \in BOOLEAN
    BY DEF FetcherInit
  <2>4. RuleFetcherBase
    BY <2>1, <2>2, <2>3 DEF RuleFetcherBase
  <2>5. completionDelivered \in BOOLEAN /\ ~completionDelivered
    BY DEF FetcherInit
  <2>6. HTTPRuleFetcher \/ FileRuleFetcher
    <3>1. CASE fetcherClass = "http"
      BY <2>1, <2>2, <2>5, <3>1 DEF FetcherInit, HTTPRuleFetcher
    <3>2. CASE fetcherClass = "file"
      BY <2>1, <2>2, <2>5, <3>2 DEF FetcherInit, FileRuleFetcher
    <3> QED  BY <3>1, <3>2 DEF FetcherInit
  <2> QED  BY <2>1, <2>2, <2>3, <2>4, <2>5, <2>6 DEF FetcherTypeInv, FetcherTypeOK
<1>2. FetcherTypeInv => FetcherTypeOK
  BY DEF FetcherTypeInv
<1> QED  BY <1>1, <1>2, FetcherTypeStep, PTL DEF FetcherSpec

-----------------------------------------------------------------------------
(* CommandProcessor: commands are carried out once *)

ListBlock == ToDo("list", NoCommand)
NoRepeats(q) == \A i, j \in DOMAIN q : q[i] = q[j] => i = j

\* A file that is still to come has left no trace.
Untouched(c) ==
    /\ incoming[c] = "none" /\ c \notin unreported /\ c \notin processedCommands
    /\ ~Has(deduplicationQueue, c) /\ ~Has(processingQueue, ToDo("process", c))
    /\ ~Has(commandsForMain, c) /\ carriedOut[c] = 0

\* A command is where its file is, or on its way to the provider, or carried out; and
\* what the set knows and is still there will be read.
CommandAt(c) ==
    /\ carriedOut[c] \in {0, 1}
    /\ ~Has(created, c) => Untouched(c)
    /\ incoming[c] # "none" => carriedOut[c] = 0 /\ ~Has(commandsForMain, c)
    /\ Has(commandsForMain, c) => carriedOut[c] = 0
    /\ incoming[c] # "none" /\ c \in processedCommands
       => Has(processingQueue, ToDo("process", c))
    /\ incoming[c] # "none" /\ c \notin overlooked
       => \/ c \in unreported \/ Has(deduplicationQueue, c)
          \/ Has(processingQueue, ListBlock) \/ Has(processingQueue, ToDo("process", c))

CommandQueues ==
    /\ IsQueue(processingQueue) /\ IsQueue(deduplicationQueue) /\ IsQueue(commandsForMain)
    /\ IsQueue(created) /\ NoRepeats(commandsForMain)
    /\ \A b : Has(processingQueue, b) => b \in CommandBlock
    /\ \A c : Has(deduplicationQueue, c) => c \in Command
    /\ DOMAIN incoming = Command /\ DOMAIN carriedOut = Command

CommandInv == CommandQueues /\ \A c \in Command : CommandAt(c)

LEMMA HasAppended ==
    ASSUME NEW q, IsQueue(q), NEW y
    PROVE  IsQueue(Append(q, y)) /\ \A x : Has(Append(q, y), x) <=> Has(q, x) \/ x = y
<1> DEFINE r == Append(q, y)
<1>1. /\ IsQueue(r) /\ Len(q) \in Nat
      /\ DOMAIN r = 1 .. Len(q) + 1 /\ DOMAIN q = 1 .. Len(q)
      /\ \A i \in 1 .. Len(q) : r[i] = q[i]
      /\ r[Len(q) + 1] = y
  BY AppendedQueue
<1> HIDE DEF r
<1>2. /\ \A i \in DOMAIN q : i \in DOMAIN r /\ r[i] = q[i]
      /\ Len(q) + 1 \in DOMAIN r
      /\ \A i \in DOMAIN r : i \in DOMAIN q \/ i = Len(q) + 1
  BY <1>1
<1>3. \A x : Has(r, x) <=> Has(q, x) \/ x = y
  BY <1>1, <1>2 DEF Has
<1> QED  BY <1>1, <1>3 DEF r

\* What a queue without repeats keeps being.
LEMMA RepeatsAppended ==
    ASSUME NEW q, IsQueue(q), NoRepeats(q), NEW y, ~Has(q, y)
    PROVE  NoRepeats(Append(q, y))
<1> DEFINE r == Append(q, y)
<1>1. /\ Len(q) \in Nat
      /\ DOMAIN r = 1 .. Len(q) + 1 /\ DOMAIN q = 1 .. Len(q)
      /\ \A i \in 1 .. Len(q) : r[i] = q[i]
      /\ r[Len(q) + 1] = y
  BY AppendedQueue
<1> HIDE DEF r
<1>2. \A i \in DOMAIN r : (i \in DOMAIN q /\ r[i] = q[i]) \/ (i = Len(q) + 1 /\ r[i] = y)
  BY <1>1
<1>3. NoRepeats(r)
  BY <1>2 DEF NoRepeats, Has
<1> QED  BY <1>3 DEF r

LEMMA RepeatsTaken ==
    ASSUME NEW q, IsQueue(q), NoRepeats(q), q # <<>>
    PROVE  NoRepeats(Tail(q)) /\ ~Has(Tail(q), Head(q))
<1> DEFINE r == Tail(q)
<1>1. /\ Len(q) \in Nat \ {0}
      /\ DOMAIN r = 1 .. Len(q) - 1 /\ DOMAIN q = 1 .. Len(q)
      /\ \A i \in 1 .. Len(q) - 1 : r[i] = q[i + 1]
      /\ Head(q) = q[1]
  BY TailOfQueue
<1> HIDE DEF r
<1>2. \A i \in DOMAIN r : i \in Nat /\ i + 1 \in DOMAIN q /\ i + 1 # 1 /\ r[i] = q[i + 1]
  BY <1>1
<1>3. 1 \in DOMAIN q
  BY <1>1
<1>4. ~Has(r, Head(q))
  BY <1>1, <1>2, <1>3 DEF NoRepeats, Has
<1>5. ASSUME NEW i \in DOMAIN r, NEW j \in DOMAIN r, r[i] = r[j]
      PROVE  i = j
  <2>1. i + 1 = j + 1
    BY <1>2, <1>5 DEF NoRepeats
  <2> QED  BY <1>2, <2>1
<1>6. NoRepeats(r)
  BY <1>5 DEF NoRepeats
<1> QED  BY <1>4, <1>6 DEF r

LEMMA CommandBlocks ==
    /\ ListBlock \in CommandBlock /\ ListBlock.does = "list"
    /\ \A c \in Command : ToDo("process", c) \in CommandBlock
    /\ \A c : /\ ToDo("process", c).does = "process" /\ ToDo("process", c).command = c
              /\ ListBlock # ToDo("process", c)
    /\ \A b \in CommandBlock :
          \/ b = ListBlock
          \/ b.command \in Command /\ b = ToDo("process", b.command)
<1>1. ListBlock \in CommandBlock /\ ListBlock.does = "list"
  BY DEF ListBlock, ToDo, CommandBlock
<1>2. \A c \in Command : ToDo("process", c) \in CommandBlock
  BY DEF ToDo, CommandBlock
<1>3. \A c : /\ ToDo("process", c).does = "process" /\ ToDo("process", c).command = c
             /\ ListBlock # ToDo("process", c)
  BY <1>1 DEF ToDo
<1>4. ASSUME NEW b \in CommandBlock
      PROVE  b = ListBlock \/ (b.command \in Command /\ b = ToDo("process", b.command))
  BY DEF ListBlock, ToDo, CommandBlock
<1> QED  BY <1>1, <1>2, <1>3, <1>4

\* What taking processingQueue's next block, of this kind, leaves.
LEMMA BlockIsTaken ==
    ASSUME CommandQueues, NEW what, TakeBlock(what)
    PROVE  /\ IsQueue(processingQueue')
           /\ \A x : Has(processingQueue, x)
                     <=> x = Head(processingQueue) \/ Has(processingQueue', x)
           /\ Head(processingQueue) \in CommandBlock /\ Head(processingQueue).does = what
<1>1. /\ processingQueue' = Tail(processingQueue) /\ processingQueue # <<>>
      /\ Head(processingQueue).does = what /\ IsQueue(processingQueue)
  BY DEF TakeBlock, CommandQueues
<1>2. \A x : Has(processingQueue, x)
             <=> x = Head(processingQueue) \/ Has(processingQueue', x)
  BY <1>1, HasTail
<1> QED  BY <1>1, <1>2, HasTail DEF CommandQueues

LEMMA CreateFileKeeps ==
    ASSUME CommandInv, NEW c \in Command, CreateFile(c)
    PROVE  CommandInv'
<1>1. /\ ~Has(created, c) /\ Untouched(c)
  BY DEF CreateFile, Has, CommandInv, CommandAt
<1>2. /\ created' = Append(created, c) /\ IsQueue(created')
      /\ \A x : Has(created', x) <=> Has(created, x) \/ x = c
  BY HasAppended DEF CreateFile, CommandInv, CommandQueues
<1>3. /\ DOMAIN incoming' = Command /\ \A d \in Command \ {c} : incoming'[d] = incoming[d]
  BY DEF CreateFile, CommandInv, CommandQueues
<1>4. /\ unreported' = unreported \/ unreported' = unreported \cup {c}
      /\ overlooked' = overlooked \/ overlooked' = overlooked \cup {c}
      /\ c \in unreported' \/ c \in overlooked' \/ Has(processingQueue, ListBlock)
  BY DEF CreateFile, Reported, WillBeNoticed, OnProcessingQueue, Has, ListBlock
<1>5. /\ processingQueue' = processingQueue /\ deduplicationQueue' = deduplicationQueue
      /\ commandsForMain' = commandsForMain /\ processedCommands' = processedCommands
      /\ carriedOut' = carriedOut
  BY DEF CreateFile
<1>6. CommandQueues'
  BY <1>2, <1>3, <1>5 DEF CommandInv, CommandQueues
<1>7. CommandAt(c)'
  BY <1>1, <1>2, <1>4, <1>5 DEF CommandAt, Untouched
<1>8. ASSUME NEW d \in Command \ {c}
      PROVE  CommandAt(d)'
  <2>1. CommandAt(d)
    BY DEF CommandInv
  <2>2. /\ incoming'[d] = incoming[d] /\ (Has(created', d) <=> Has(created, d))
        /\ (d \in unreported' <=> d \in unreported) /\ (d \in overlooked' <=> d \in overlooked)
    BY <1>2, <1>3, <1>4
  <2> QED  BY <1>5, <2>1, <2>2 DEF CommandAt, Untouched
<1> QED  BY <1>6, <1>7, <1>8 DEF CommandInv

\* Steps that leave queues and what became of the commands alone, and at most end or
\* report a file that is there.
LEMMA FilesMove ==
    ASSUME CommandInv, UNCHANGED <<created, overlooked, processingQueue, deduplicationQueue,
                                   commandsForMain, processedCommands, carriedOut>>,
           DOMAIN incoming' = Command, unreported \subseteq unreported',
           \A c \in Command : /\ incoming'[c] # "none" => incoming[c] # "none"
                              /\ c \in unreported' \ unreported => incoming[c] # "none"
    PROVE  CommandInv'
<1>1. CommandQueues'
  BY DEF CommandInv, CommandQueues
<1>2. ASSUME NEW c \in Command
      PROVE  CommandAt(c)'
  <2>1. CommandAt(c)
    BY DEF CommandInv
  <2> QED  BY <2>1 DEF CommandAt, Untouched
<1> QED  BY <1>1, <1>2 DEF CommandInv

LEMMA CompleteFileKeeps ==
    ASSUME CommandInv, NEW c \in Command, CompleteFile(c)
    PROVE  CommandInv'
<1>1. /\ DOMAIN incoming' = Command /\ incoming[c] # "none"
      /\ \A d \in Command \ {c} : incoming'[d] = incoming[d]
  BY DEF CompleteFile, CommandInv, CommandQueues
<1>2. unreported' = unreported \/ unreported' = unreported \cup {c}
  BY DEF CompleteFile, Reported
<1> QED  BY <1>1, <1>2, FilesMove DEF CompleteFile

LEMMA CleanupKeeps == ASSUME CommandInv, CleanupOldFiles PROVE CommandInv'
<1>1. /\ DOMAIN incoming' = Command
      /\ \A c \in Command : incoming'[c] = "none" \/ incoming'[c] = incoming[c]
  BY DEF CleanupOldFiles
<1> QED  BY <1>1, FilesMove DEF CleanupOldFiles

LEMMA MonitorKeeps == ASSUME CommandInv, MonitorCommands PROVE CommandInv'
<1>1. /\ incoming' = incoming /\ created' = created /\ unreported' = unreported
      /\ deduplicationQueue' = deduplicationQueue /\ commandsForMain' = commandsForMain
      /\ processedCommands' = processedCommands /\ carriedOut' = carriedOut
  BY DEF MonitorCommands
<1>2. CASE monitoring = "on"
  <2>1. overlooked' = overlooked /\ processingQueue' = processingQueue
    BY <1>2 DEF MonitorCommands
  <2> QED  BY <1>1, <2>1, FilesMove DEF CommandInv, CommandQueues
<1>3. CASE monitoring = "off"
  <2>1. processingQueue' = Append(processingQueue, ListBlock)
    BY <1>3 DEF MonitorCommands, ListBlock
  <2>2. /\ IsQueue(processingQueue')
        /\ \A x : Has(processingQueue', x) <=> Has(processingQueue, x) \/ x = ListBlock
    BY <2>1, HasAppended DEF CommandInv, CommandQueues
  <2>3. CommandQueues'
    BY <1>1, <2>2, CommandBlocks DEF CommandInv, CommandQueues
  <2>4. ASSUME NEW c \in Command
        PROVE  CommandAt(c)'
    <3>1. CommandAt(c) /\ ListBlock # ToDo("process", c)
      BY CommandBlocks DEF CommandInv
    <3> QED  BY <1>1, <2>2, <3>1 DEF CommandAt, Untouched
  <2> QED  BY <2>3, <2>4 DEF CommandInv
<1> QED  BY <1>2, <1>3 DEF MonitorCommands

LEMMA CrashKeeps == ASSUME CommandInv, CrashProcessor PROVE CommandInv'
<1>1. /\ incoming' = incoming /\ created' = created /\ unreported' = {}
      /\ overlooked' = Present /\ processingQueue' = <<>> /\ deduplicationQueue' = <<>>
      /\ commandsForMain' = <<>> /\ processedCommands' = {} /\ carriedOut' = carriedOut
  BY DEF CrashProcessor
<1>2. CommandQueues'
  BY <1>1, NothingInQueue DEF CommandInv, CommandQueues, NoRepeats
<1>3. ASSUME NEW c \in Command
      PROVE  CommandAt(c)'
  <2>1. CommandAt(c)
    BY DEF CommandInv
  <2> QED  BY <1>1, <2>1, NothingInQueue DEF CommandAt, Untouched, Present
<1> QED  BY <1>2, <1>3 DEF CommandInv

LEMMA FSEventKeeps ==
    ASSUME CommandInv, NEW c \in Command, FSEventCallback(c)
    PROVE  CommandInv'
<1>1. /\ incoming' = incoming /\ created' = created /\ overlooked' = overlooked
      /\ processingQueue' = processingQueue /\ commandsForMain' = commandsForMain
      /\ processedCommands' = processedCommands /\ carriedOut' = carriedOut
      /\ c \in unreported /\ (unreported' = unreported \/ unreported' = unreported \ {c})
      /\ deduplicationQueue' = Append(deduplicationQueue, c)
  BY DEF FSEventCallback
<1>2. /\ IsQueue(deduplicationQueue')
      /\ \A x : Has(deduplicationQueue', x) <=> Has(deduplicationQueue, x) \/ x = c
  BY <1>1, HasAppended DEF CommandInv, CommandQueues
<1>3. CommandQueues'
  BY <1>1, <1>2 DEF CommandInv, CommandQueues
<1>4. ASSUME NEW d \in Command
      PROVE  CommandAt(d)'
  <2>1. CommandAt(d)
    BY DEF CommandInv
  <2>2. d # c => (d \in unreported' <=> d \in unreported)
    BY <1>1
  <2>3. d = c => Has(created, d)
    BY <1>1, <2>1 DEF CommandAt, Untouched
  <2>4. d \in unreported' => d \in unreported
    BY <1>1
  <2> QED  BY <1>1, <1>2, <2>1, <2>2, <2>3, <2>4 DEF CommandAt, Untouched
<1> QED  BY <1>3, <1>4 DEF CommandInv

LEMMA ListKeeps == ASSUME CommandInv, ProcessExistingCommands PROVE CommandInv'
<1>1. PICK q \in [1 .. Cardinality(Present) -> Present] :
         ListOfFiles(q) /\ deduplicationQueue' = deduplicationQueue \o q
  BY DEF ProcessExistingCommands
<1>2. /\ incoming' = incoming /\ created' = created /\ overlooked' = overlooked
      /\ unreported' = unreported /\ commandsForMain' = commandsForMain
      /\ processedCommands' = processedCommands /\ carriedOut' = carriedOut
  BY DEF ProcessExistingCommands, commandFiles
<1>3. IsQueue(q) /\ \A c : Has(q, c) <=> c \in Present
  <2>1. IsFiniteSet(Present)
    BY CommandAssumption, FS_Subset DEF Present
  <2>2. Cardinality(Present) \in Nat
    BY <2>1, FS_CardinalityType
  <2>3. q \in Seq(Present)
    BY <2>2, SeqDef
  <2>4. \A c : Has(q, c) => c \in Present
    BY DEF Has
  <2>5. \A c \in Present : Has(q, c)
    BY <1>1 DEF ListOfFiles, Has
  <2> QED  BY <2>3, <2>4, <2>5 DEF IsQueue
<1>4. /\ IsQueue(deduplicationQueue')
      /\ \A x : Has(deduplicationQueue', x) <=> Has(deduplicationQueue, x) \/ x \in Present
  BY <1>1, <1>3, HasConcat DEF CommandInv, CommandQueues
<1>5. /\ IsQueue(processingQueue') /\ Head(processingQueue) = ListBlock
      /\ \A x : Has(processingQueue, x) <=> x = ListBlock \/ Has(processingQueue', x)
  <2>1. /\ Head(processingQueue) \in CommandBlock /\ Head(processingQueue).does = "list"
        /\ IsQueue(processingQueue')
        /\ \A x : Has(processingQueue, x)
                  <=> x = Head(processingQueue) \/ Has(processingQueue', x)
    BY BlockIsTaken DEF ProcessExistingCommands, CommandInv
  <2>2. Head(processingQueue) = ListBlock
    BY <2>1, CommandBlocks
  <2> QED  BY <2>1, <2>2
<1>6. CommandQueues'
  BY <1>2, <1>4, <1>5 DEF CommandInv, CommandQueues, Present
<1>7. ASSUME NEW c \in Command
      PROVE  CommandAt(c)'
  <2>1. CommandAt(c) /\ ListBlock # ToDo("process", c) /\ (c \in Present <=> incoming[c] # "none")
    BY CommandBlocks DEF CommandInv, Present
  <2> QED  BY <1>2, <1>4, <1>5, <2>1 DEF CommandAt, Untouched
<1> QED  BY <1>6, <1>7 DEF CommandInv

LEMMA DeduplicateKeeps == ASSUME CommandInv, Deduplicate PROVE CommandInv'
<1> DEFINE c == Head(deduplicationQueue)
<1>1. /\ incoming' = incoming /\ created' = created /\ overlooked' = overlooked
      /\ unreported' = unreported /\ commandsForMain' = commandsForMain
      /\ carriedOut' = carriedOut /\ deduplicationQueue # <<>>
      /\ deduplicationQueue' = Tail(deduplicationQueue)
  BY DEF Deduplicate, commandFiles
<1>2. /\ IsQueue(deduplicationQueue') /\ c \in Command
      /\ \A x : Has(deduplicationQueue, x) <=> x = c \/ Has(deduplicationQueue', x)
  BY <1>1, HasTail DEF CommandInv, CommandQueues
<1>3. Has(created, c)
  BY <1>2 DEF CommandInv, CommandAt, Untouched
<1>4. CASE c \in processedCommands
  <2>1. processedCommands' = processedCommands /\ processingQueue' = processingQueue
    BY <1>4 DEF Deduplicate
  <2>2. CommandQueues'
    BY <1>1, <1>2, <2>1 DEF CommandInv, CommandQueues
  <2>3. ASSUME NEW d \in Command
        PROVE  CommandAt(d)'
    <3>1. CommandAt(d)
      BY DEF CommandInv
    <3> QED  BY <1>1, <1>2, <1>4, <2>1, <3>1 DEF CommandAt, Untouched
  <2> QED  BY <2>2, <2>3 DEF CommandInv
<1>5. CASE c \notin processedCommands
  <2>1. /\ processingQueue' = Append(processingQueue, ToDo("process", c))
        /\ processedCommands' \subseteq processedCommands \cup {c}
    BY <1>5 DEF Deduplicate, Remembered
  <2>2. /\ IsQueue(processingQueue')
        /\ \A x : Has(processingQueue', x)
                  <=> Has(processingQueue, x) \/ x = ToDo("process", c)
    BY <2>1, HasAppended DEF CommandInv, CommandQueues
  <2>3. CommandQueues'
    BY <1>1, <1>2, <2>2, CommandBlocks DEF CommandInv, CommandQueues
  <2>4. ASSUME NEW d \in Command
        PROVE  CommandAt(d)'
    <3>1. CommandAt(d) /\ (ToDo("process", d) = ToDo("process", c) => d = c)
      BY CommandBlocks DEF CommandInv
    <3>2. d \in processedCommands' => d \in processedCommands \/ d = c
      BY <2>1
    <3> HIDE DEF c
    <3> QED  BY <1>1, <1>2, <1>3, <2>2, <3>1, <3>2 DEF CommandAt, Untouched
  <2> QED  BY <2>3, <2>4 DEF CommandInv
<1> QED  BY <1>4, <1>5

LEMMA ProcessFileKeeps == ASSUME CommandInv, ProcessCommandFile PROVE CommandInv'
<1>0. PICK c : c = Head(processingQueue).command
  OBVIOUS
<1>1. /\ created' = created /\ overlooked' = overlooked /\ unreported' = unreported
      /\ deduplicationQueue' = deduplicationQueue /\ carriedOut' = carriedOut
      /\ processedCommands' = processedCommands
      /\ incoming' = [incoming EXCEPT ![c] = "none"]
      /\ \/ commandsForMain' = commandsForMain
         \/ incoming[c] = "whole" /\ commandsForMain' = Append(commandsForMain, c)
  BY <1>0 DEF ProcessCommandFile, FileRead
<1>2. /\ IsQueue(processingQueue') /\ c \in Command
      /\ \A x : Has(processingQueue, x)
                <=> x = ToDo("process", c) \/ Has(processingQueue', x)
  <2>1. /\ Head(processingQueue) \in CommandBlock /\ Head(processingQueue).does = "process"
        /\ IsQueue(processingQueue')
        /\ \A x : Has(processingQueue, x)
                  <=> x = Head(processingQueue) \/ Has(processingQueue', x)
    BY BlockIsTaken DEF ProcessCommandFile, CommandInv
  <2>2. c \in Command /\ Head(processingQueue) = ToDo("process", c)
    BY <1>0, <2>1, CommandBlocks
  <2> QED  BY <2>1, <2>2
<1>3. CommandAt(c) /\ Has(created, c)
  BY <1>2 DEF CommandInv, CommandAt, Untouched
<1>4. /\ DOMAIN incoming' = Command /\ incoming'[c] = "none"
      /\ \A d \in Command \ {c} : incoming'[d] = incoming[d]
  BY <1>1, <1>2 DEF CommandInv, CommandQueues
<1>5. /\ IsQueue(commandsForMain') /\ NoRepeats(commandsForMain')
      /\ \A d \in Command \ {c} : Has(commandsForMain', d) <=> Has(commandsForMain, d)
      /\ Has(commandsForMain', c) => carriedOut[c] = 0
  <2>1. CASE commandsForMain' = commandsForMain
    BY <1>3, <2>1 DEF CommandInv, CommandQueues, CommandAt
  <2>2. CASE incoming[c] = "whole" /\ commandsForMain' = Append(commandsForMain, c)
    <3>1. carriedOut[c] = 0 /\ ~Has(commandsForMain, c)
      BY <1>3, <2>2 DEF CommandAt
    <3>2. IsQueue(commandsForMain) /\ NoRepeats(commandsForMain)
      BY DEF CommandInv, CommandQueues
    <3>3. NoRepeats(commandsForMain')
      BY <2>2, <3>1, <3>2, RepeatsAppended
    <3>4. /\ IsQueue(commandsForMain')
          /\ \A x : Has(commandsForMain', x) <=> Has(commandsForMain, x) \/ x = c
      BY <2>2, <3>2, HasAppended
    <3> QED  BY <3>1, <3>3, <3>4
  <2> QED  BY <1>1, <2>1, <2>2
<1>6. CommandQueues'
  BY <1>1, <1>2, <1>4, <1>5 DEF CommandInv, CommandQueues
<1>7. CommandAt(c)'
  BY <1>1, <1>3, <1>4, <1>5 DEF CommandAt
<1>8. ASSUME NEW d \in Command \ {c}
      PROVE  CommandAt(d)'
  <2>1. CommandAt(d) /\ ToDo("process", d) # ToDo("process", c)
        /\ ListBlock # ToDo("process", c)
    BY CommandBlocks DEF CommandInv
  <2>2. /\ incoming'[d] = incoming[d]
        /\ (Has(commandsForMain', d) <=> Has(commandsForMain, d))
        /\ (Has(processingQueue', ToDo("process", d))
            <=> Has(processingQueue, ToDo("process", d)))
        /\ (Has(processingQueue', ListBlock) <=> Has(processingQueue, ListBlock))
    BY <1>2, <1>4, <1>5, <2>1
  <2> QED  BY <1>1, <2>1, <2>2 DEF CommandAt, Untouched
<1> QED  BY <1>6, <1>7, <1>8 DEF CommandInv

LEMMA ProcessCommandKeeps == ASSUME CommandInv, ProcessCommand PROVE CommandInv'
<1>0. PICK c : c = Head(commandsForMain)
  OBVIOUS
<1>1. /\ incoming' = incoming /\ created' = created /\ overlooked' = overlooked
      /\ unreported' = unreported /\ processingQueue' = processingQueue
      /\ deduplicationQueue' = deduplicationQueue
      /\ processedCommands' = processedCommands /\ commandsForMain # <<>>
      /\ commandsForMain' = Tail(commandsForMain)
      /\ carriedOut' = carriedOut \/ carriedOut' = [carriedOut EXCEPT ![c] = @ + 1]
  BY <1>0 DEF ProcessCommand, commandFiles
<1>2. /\ IsQueue(commandsForMain') /\ NoRepeats(commandsForMain')
      /\ ~Has(commandsForMain', c)
      /\ \A x : Has(commandsForMain, x) <=> x = c \/ Has(commandsForMain', x)
  <2>1. IsQueue(commandsForMain) /\ NoRepeats(commandsForMain)
    BY DEF CommandInv, CommandQueues
  <2>2. NoRepeats(commandsForMain') /\ ~Has(commandsForMain', c)
    BY <1>0, <1>1, <2>1, RepeatsTaken
  <2> QED  BY <1>0, <1>1, <2>1, <2>2, HasTail
<1>3. /\ DOMAIN carriedOut' = Command
      /\ \A d \in Command \ {c} : carriedOut'[d] = carriedOut[d]
      /\ c \in Command => carriedOut'[c] \in {carriedOut[c], carriedOut[c] + 1}
  BY <1>1 DEF CommandInv, CommandQueues
<1>4. CommandQueues'
  BY <1>1, <1>2, <1>3 DEF CommandInv, CommandQueues
<1>5. ASSUME c \in Command
      PROVE  CommandAt(c)'
  <2>1. CommandAt(c) /\ Has(commandsForMain, c)
    BY <1>2, <1>5 DEF CommandInv
  <2>2. carriedOut[c] = 0 /\ incoming[c] = "none" /\ Has(created, c)
    BY <2>1 DEF CommandAt, Untouched
  <2>3. carriedOut'[c] \in {0, 1}
    BY <1>3, <1>5, <2>2
  <2> QED  BY <1>1, <1>2, <2>2, <2>3 DEF CommandAt
<1>6. ASSUME NEW d \in Command \ {c}
      PROVE  CommandAt(d)'
  <2>1. CommandAt(d)
    BY DEF CommandInv
  <2>2. carriedOut'[d] = carriedOut[d] /\ (Has(commandsForMain', d) <=> Has(commandsForMain, d))
    BY <1>2, <1>3
  <2> QED  BY <1>1, <2>1, <2>2 DEF CommandAt, Untouched
<1> QED  BY <1>4, <1>5, <1>6 DEF CommandInv

LEMMA CommandStep == CommandInv /\ [CommandNext]_commandVars => CommandInv'
<1> SUFFICES ASSUME CommandInv, [CommandNext]_commandVars PROVE CommandInv'
  OBVIOUS
<1>1. ASSUME NEW c \in Command, CreateFile(c) \/ CompleteFile(c) \/ FSEventCallback(c)
      PROVE  CommandInv'
  BY <1>1, CreateFileKeeps, CompleteFileKeeps, FSEventKeeps
<1>2. CASE MonitorCommands
  BY <1>2, MonitorKeeps
<1>3. CASE StartEventStream \/ ReleaseDelegate \/ UNCHANGED commandVars
  <2>1. /\ incoming' = incoming /\ created' = created /\ overlooked' = overlooked
        /\ unreported' = unreported /\ processingQueue' = processingQueue
        /\ deduplicationQueue' = deduplicationQueue /\ commandsForMain' = commandsForMain
        /\ processedCommands' = processedCommands /\ carriedOut' = carriedOut
    BY <1>3 DEF StartEventStream, ReleaseDelegate, commandVars, commandFiles
  <2>2. DOMAIN incoming = Command
    BY DEF CommandInv, CommandQueues
  <2> QED  BY <2>1, <2>2, FilesMove
<1>4. CASE CrashProcessor
  BY <1>4, CrashKeeps
<1>5. CASE ProcessExistingCommands
  BY <1>5, ListKeeps
<1>6. CASE Deduplicate
  BY <1>6, DeduplicateKeeps
<1>7. CASE ProcessCommandFile
  BY <1>7, ProcessFileKeeps
<1>8. CASE ProcessCommand
  BY <1>8, ProcessCommandKeeps
<1>9. CASE CleanupOldFiles
  BY <1>9, CleanupKeeps
<1> QED  BY <1>1, <1>2, <1>3, <1>4, <1>5, <1>6, <1>7, <1>8, <1>9 DEF CommandNext

\* No command is carried out twice, and once the queues are at rest only overlooked files
\* are left, for any commands, names remembered and processes that end
\* (DNSCommandProcessor.m:217-287).
THEOREM CommandsOnceHolds == CommandSpec => []CommandsOnce
<1>1. CommandInit => CommandInv
  <2> SUFFICES ASSUME CommandInit PROVE CommandInv
    OBVIOUS
  <2>1. CommandQueues
    BY NothingInQueue DEF CommandInit, CommandQueues, NoRepeats
  <2>2. ASSUME NEW c \in Command
        PROVE  CommandAt(c)
    BY NothingInQueue DEF CommandInit, CommandAt, Untouched
  <2> QED  BY <2>1, <2>2 DEF CommandInv
<1>2. CommandInv => CommandsOnce
  <2> SUFFICES ASSUME CommandInv PROVE CommandsOnce
    OBVIOUS
  <2>1. ASSUME NEW c \in Command
        PROVE  carriedOut[c] <= 1
    <3>1. carriedOut[c] \in {0, 1}
      BY DEF CommandInv, CommandAt
    <3> QED  BY <3>1
  <2>2. ASSUME AtRest, NEW c \in Present
        PROVE  c \in overlooked
    <3>1. c \in Command /\ CommandAt(c) /\ incoming[c] # "none"
      BY DEF CommandInv, Present
    <3> QED  BY <2>2, <3>1, NothingInQueue DEF AtRest, CommandAt
  <2> QED  BY <2>1, <2>2 DEF CommandsOnce
<1> QED  BY <1>1, <1>2, CommandStep, PTL DEF CommandSpec

-----------------------------------------------------------------------------
(* CommandProcessor: types *)

LEMMA CommandTypeStep == CommandTypeOK /\ [CommandNext]_commandVars => CommandTypeOK'
<1> SUFFICES ASSUME CommandTypeOK, [CommandNext]_commandVars
             PROVE  CommandTypeOK'
  OBVIOUS
<1> USE DEF commandFiles, monitor
\* What is left to show of each step.
<1> DEFINE Files == incoming' \in [Command -> {"none", "partial", "whole"}]
           Names == /\ created' \in Seq(Command)
                    /\ unreported' \subseteq Command /\ overlooked' \subseteq Command
                    /\ processedCommands' \subseteq Command
           Monitored == monitoring' \in {"off", "listing", "on"} /\ hasDelegate' \in BOOLEAN
           Queues == /\ processingQueue' \in Seq(CommandBlock)
                     /\ deduplicationQueue' \in Seq(Command) /\ commandsForMain' \in Seq(Command)
           Counted == /\ carriedOut' \in [Command -> Nat]
                      /\ commandStarts' \in 0 .. MaxCommandStarts
                      /\ fileEvents' \in 0 .. MaxFileEvents
<1>1. /\ incoming \in [Command -> {"none", "partial", "whole"}]
      /\ created \in Seq(Command) /\ unreported \subseteq Command /\ overlooked \subseteq Command
      /\ processedCommands \subseteq Command
      /\ processingQueue \in Seq(CommandBlock)
      /\ deduplicationQueue \in Seq(Command) /\ commandsForMain \in Seq(Command)
      /\ carriedOut \in [Command -> Nat]
      /\ commandStarts \in 0 .. MaxCommandStarts /\ fileEvents \in 0 .. MaxFileEvents
  BY DEF CommandTypeOK
<1>2. monitoring \in {"off", "listing", "on"} /\ hasDelegate \in BOOLEAN
  BY DEF CommandTypeOK
<1>3. ASSUME Files, Names, Monitored, Queues, Counted
      PROVE  CommandTypeOK'
  BY <1>3 DEF CommandTypeOK
\* What stays as it is stays in its type.
<1>4. /\ UNCHANGED incoming => Files
      /\ UNCHANGED <<created, unreported, overlooked, processedCommands>> => Names
      /\ UNCHANGED <<monitoring, hasDelegate>> => Monitored
      /\ UNCHANGED <<processingQueue, deduplicationQueue, commandsForMain>> => Queues
      /\ UNCHANGED <<carriedOut, commandStarts, fileEvents>> => Counted
  BY <1>1, <1>2
<1>5. /\ ToDo("list", NoCommand) \in CommandBlock
      /\ \A c \in Command : ToDo("process", c) \in CommandBlock
  BY DEF ToDo, CommandBlock
<1>6. ASSUME NEW c \in Command, NEW form \in {"none", "partial", "whole"},
             incoming' = [incoming EXCEPT ![c] = form]
      PROVE  Files
  BY <1>1, <1>6
<1>7. ASSUME NEW c \in Command, CreateFile(c) \/ CompleteFile(c) \/ FSEventCallback(c)
      PROVE  CommandTypeOK'
  <2>1. CASE CreateFile(c)
    <3>1. PICK form \in {"partial", "whole"} : incoming' = [incoming EXCEPT ![c] = form]
      BY <2>1 DEF CreateFile
    <3>2. /\ created' = Append(created, c) /\ unreported' \in {unreported, unreported \cup {c}}
          /\ overlooked' \in {overlooked, overlooked \cup {c}}
          /\ UNCHANGED <<monitoring, hasDelegate, commandStarts, fileEvents, processingQueue,
                         deduplicationQueue, commandsForMain, processedCommands, carriedOut>>
      BY <2>1 DEF CreateFile, Reported
    <3>3. Names
      BY <1>1, <3>2, BlocksLeft
    <3> QED  BY <1>3, <1>4, <1>6, <3>1, <3>2, <3>3
  <2>2. CASE CompleteFile(c)
    <3>1. /\ incoming' = [incoming EXCEPT ![c] = "whole"]
          /\ unreported' \in {unreported, unreported \cup {c}}
          /\ UNCHANGED <<created, overlooked, monitoring, hasDelegate, commandStarts, fileEvents,
                         processingQueue, deduplicationQueue, commandsForMain,
                         processedCommands, carriedOut>>
      BY <2>2 DEF CompleteFile, Reported
    <3>2. Names
      BY <1>1, <3>1
    <3> QED  BY <1>3, <1>4, <1>6, <3>1, <3>2
  <2>3. CASE FSEventCallback(c)
    <3>1. /\ unreported' \in {unreported, unreported \ {c}}
          /\ \/ fileEvents' = fileEvents
             \/ fileEvents < MaxFileEvents /\ fileEvents' = fileEvents + 1
          /\ deduplicationQueue' = Append(deduplicationQueue, c)
          /\ UNCHANGED <<incoming, created, overlooked, monitoring, hasDelegate, commandStarts,
                         processingQueue, commandsForMain, processedCommands, carriedOut>>
      BY <2>3 DEF FSEventCallback
    <3>2. Names
      BY <1>1, <3>1
    <3>3. Counted
      BY <1>1, <3>1, CommandAssumption
    <3>4. Queues
      BY <1>1, <3>1, BlocksLeft
    <3> QED  BY <1>3, <1>4, <3>1, <3>2, <3>3, <3>4
  <2> QED  BY <1>7, <2>1, <2>2, <2>3
<1>8. CASE MonitorCommands
  <2>1. /\ commandStarts < MaxCommandStarts /\ commandStarts' = commandStarts + 1
        /\ hasDelegate' = TRUE
    BY <1>8 DEF MonitorCommands
  <2>2. \/ UNCHANGED <<monitoring, overlooked, processingQueue>>
        \/ /\ monitoring' = "listing" /\ overlooked' = {}
           /\ processingQueue' = Append(processingQueue, ToDo("list", NoCommand))
    BY <1>8 DEF MonitorCommands
  <2>3. UNCHANGED <<incoming, created, unreported, fileEvents, deduplicationQueue,
                    commandsForMain, processedCommands, carriedOut>>
    BY <1>8 DEF MonitorCommands
  <2>4. Monitored
    BY <1>2, <2>1, <2>2
  <2>5. Counted
    BY <1>1, <2>1, <2>3, CommandAssumption
  <2>6. Names
    BY <1>1, <2>2, <2>3
  <2>7. Queues
    <3>1. Append(processingQueue, ToDo("list", NoCommand)) \in Seq(CommandBlock)
      BY <1>1, <1>5, BlocksLeft
    <3> QED  BY <1>1, <2>2, <2>3, <3>1
  <2> QED  BY <1>3, <1>4, <2>3, <2>4, <2>5, <2>6, <2>7
<1>9. CASE StartEventStream
  <2>1. /\ monitoring' \in {"on", "off"}
        /\ UNCHANGED <<incoming, created, unreported, overlooked, hasDelegate, commandStarts,
                       fileEvents, processingQueue, deduplicationQueue, commandsForMain,
                       processedCommands, carriedOut>>
    BY <1>9 DEF StartEventStream
  <2>2. Monitored
    BY <1>2, <2>1
  <2> QED  BY <1>3, <1>4, <2>1, <2>2
<1>10. CASE ReleaseDelegate
  <2>1. /\ hasDelegate' = FALSE
        /\ UNCHANGED <<incoming, created, unreported, overlooked, monitoring, commandStarts,
                       fileEvents, processingQueue, deduplicationQueue, commandsForMain,
                       processedCommands, carriedOut>>
    BY <1>10 DEF ReleaseDelegate
  <2>2. Monitored
    BY <1>2, <2>1
  <2> QED  BY <1>3, <1>4, <2>1, <2>2
<1>11. CASE CrashProcessor
  <2>1. /\ monitoring' = "off" /\ hasDelegate' = FALSE
        /\ unreported' = {} /\ overlooked' = Present /\ processedCommands' = {}
        /\ processingQueue' = <<>> /\ deduplicationQueue' = <<>> /\ commandsForMain' = <<>>
        /\ UNCHANGED <<incoming, created, commandStarts, fileEvents, carriedOut>>
    BY <1>11 DEF CrashProcessor
  <2>2. Names
    BY <1>1, <2>1 DEF Present
  <2>3. Queues
    BY <2>1, EmptySeq
  <2>4. Monitored
    BY <2>1
  <2> QED  BY <1>3, <1>4, <2>1, <2>2, <2>3, <2>4
<1>12. CASE ProcessExistingCommands
  <2>1. PICK q \in [1 .. Cardinality(Present) -> Present] :
            deduplicationQueue' = deduplicationQueue \o q
    BY <1>12 DEF ProcessExistingCommands
  <2>2. /\ processingQueue # <<>> /\ processingQueue' = Tail(processingQueue)
        /\ UNCHANGED <<incoming, created, unreported, overlooked, monitoring, hasDelegate,
                       commandStarts, fileEvents, commandsForMain, processedCommands,
                       carriedOut>>
    BY <1>12 DEF ProcessExistingCommands, TakeBlock
  <2>3. Present \subseteq Command
    BY DEF Present
  <2>4. Cardinality(Present) \in Nat
    BY <2>3, CommandAssumption, FS_Subset, FS_CardinalityType
  <2>5. q \in Seq(Command)
    <3>1. PICK n : n = Cardinality(Present)
      OBVIOUS
    <3>2. n \in Nat /\ q \in [1 .. n -> Command]
      BY <2>3, <2>4, <3>1
    <3> QED  BY <3>2, SeqDef
  <2>6. Queues
    BY <1>1, <2>1, <2>2, <2>5, BlocksLeft, ConcatProperties
  <2> QED  BY <1>3, <1>4, <2>2, <2>6
<1>13. CASE Deduplicate
  <2>1. PICK c : c = Head(deduplicationQueue)
    OBVIOUS
  <2>2. /\ deduplicationQueue # <<>> /\ deduplicationQueue' = Tail(deduplicationQueue)
        /\ UNCHANGED <<incoming, created, unreported, overlooked, monitoring, hasDelegate,
                       commandStarts, fileEvents, commandsForMain, carriedOut>>
    BY <1>13 DEF Deduplicate
  <2>3. \/ UNCHANGED <<processedCommands, processingQueue>>
        \/ /\ processedCommands' = Remembered(processedCommands \cup {c})
           /\ processingQueue' = Append(processingQueue, ToDo("process", c))
    BY <1>13, <2>1 DEF Deduplicate
  <2>4. c \in Command /\ Tail(deduplicationQueue) \in Seq(Command)
    BY <1>1, <2>1, <2>2, BlocksLeft
  <2>5. Remembered(processedCommands \cup {c}) \subseteq Command
    BY <1>1, <2>4 DEF Remembered
  <2>6. Names
    BY <1>1, <2>2, <2>3, <2>5
  <2>7. Queues
    <3>1. Append(processingQueue, ToDo("process", c)) \in Seq(CommandBlock)
      BY <1>1, <1>5, <2>4, BlocksLeft
    <3> QED  BY <1>1, <2>2, <2>3, <2>4, <3>1
  <2> QED  BY <1>3, <1>4, <2>2, <2>6, <2>7
<1>14. CASE ProcessCommandFile
  <2>1. PICK b : b = Head(processingQueue)
    OBVIOUS
  <2>2. /\ processingQueue # <<>> /\ b.does = "process"
        /\ processingQueue' = Tail(processingQueue)
    BY <1>14, <2>1 DEF ProcessCommandFile, TakeBlock
  <2>3. /\ incoming' = [incoming EXCEPT ![b.command] = "none"]
        /\ commandsForMain' \in {commandsForMain, Append(commandsForMain, b.command)}
        /\ UNCHANGED <<created, unreported, overlooked, monitoring, hasDelegate, commandStarts,
                       fileEvents, deduplicationQueue, processedCommands, carriedOut>>
    BY <1>14, <2>1 DEF ProcessCommandFile, FileRead
  <2>4. b \in CommandBlock /\ Tail(processingQueue) \in Seq(CommandBlock)
    BY <1>1, <2>1, <2>2, BlocksLeft
  <2>5. b.command \in Command
    BY <2>2, <2>4 DEF CommandBlock
  <2>6. Queues
    <3>1. Append(commandsForMain, b.command) \in Seq(Command)
      BY <1>1, <2>5, BlocksLeft
    <3> QED  BY <1>1, <2>2, <2>3, <2>4, <3>1
  <2>7. Files
    BY <1>6, <2>3, <2>5
  <2> QED  BY <1>3, <1>4, <2>3, <2>6, <2>7
<1>15. CASE ProcessCommand
  <2>1. PICK c : c = Head(commandsForMain)
    OBVIOUS
  <2>2. /\ commandsForMain # <<>> /\ commandsForMain' = Tail(commandsForMain)
        /\ carriedOut' \in {carriedOut, [carriedOut EXCEPT ![c] = @ + 1]}
        /\ UNCHANGED <<incoming, created, unreported, overlooked, monitoring, hasDelegate,
                       commandStarts, fileEvents, processingQueue, deduplicationQueue,
                       processedCommands>>
    BY <1>15, <2>1 DEF ProcessCommand
  <2>3. c \in Command /\ Tail(commandsForMain) \in Seq(Command)
    BY <1>1, <2>1, <2>2, BlocksLeft
  <2>4. carriedOut[c] + 1 \in Nat
    BY <1>1, <2>3
  <2>5. carriedOut' \in [Command -> Nat]
    BY <1>1, <2>2, <2>4
  <2>6. Queues /\ Counted
    BY <1>1, <2>2, <2>3, <2>5
  <2> QED  BY <1>3, <1>4, <2>2, <2>6
<1>16. CASE CleanupOldFiles
  <2>1. PICK n \in 0 .. Len(created) :
            incoming' = [c \in Command |->
                IF \E i \in 1 .. n : created[i] = c THEN "none" ELSE incoming[c]]
    BY <1>16 DEF CleanupOldFiles
  <2>2. Files
    BY <1>1, <2>1
  <2>3. UNCHANGED <<created, unreported, overlooked, monitoring, hasDelegate, commandStarts,
                    fileEvents, processingQueue, deduplicationQueue, commandsForMain,
                    processedCommands, carriedOut>>
    BY <1>16 DEF CleanupOldFiles
  <2> QED  BY <1>3, <1>4, <2>2, <2>3
<1>17. CASE UNCHANGED commandVars
  <2>1. UNCHANGED <<incoming, created, unreported, overlooked, monitoring, hasDelegate,
                    commandStarts, fileEvents, processingQueue, deduplicationQueue,
                    commandsForMain, processedCommands, carriedOut>>
    BY <1>17 DEF commandVars
  <2> QED  BY <1>3, <1>4, <2>1
<1> QED  BY <1>7, <1>8, <1>9, <1>10, <1>11, <1>12, <1>13, <1>14, <1>15, <1>16, <1>17
         DEF CommandNext

\* The state of the commands stays in its types: whatever ends, comes twice or is
\* forgotten, only commands stand in the queues and sets
\* (CommandProcessor!CommandTypeOK).
THEOREM CommandTypeCorrect == CommandSpec => []CommandTypeOK
<1>1. CommandInit => CommandTypeOK
  <2> SUFFICES ASSUME CommandInit PROVE CommandTypeOK
    OBVIOUS
  <2>1. hasDelegate \in BOOLEAN
    BY DEF CommandInit
  <2>2. /\ <<>> \in Seq(Command) /\ <<>> \in Seq(CommandBlock)
        /\ 0 \in 0 .. MaxCommandStarts /\ 0 \in 0 .. MaxFileEvents
    BY EmptySeq, CommandAssumption
  <2> QED  BY <2>1, <2>2 DEF CommandInit, CommandTypeOK
<1> QED  BY <1>1, CommandTypeStep, PTL DEF CommandSpec

=============================================================================
