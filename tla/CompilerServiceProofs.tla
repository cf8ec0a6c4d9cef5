------------------------ MODULE CompilerServiceProofs ------------------------
(* What CompilerService guarantees for any files, imports, number of requests  *)
(* and of compiler versions, with workers and without.                         *)
EXTENDS CompilerServiceRefinement, FiniteSetTheorems, TLAPS

-----------------------------------------------------------------------------
(* The operators on sources.                                                   *)

\* A `sources` object is a function from some names to texts.
LEMMA SourcesIntro ==
  ASSUME NEW S, DOMAIN S \subseteq Names, S = [n \in DOMAIN S |-> S[n]],
         \A n \in DOMAIN S : S[n] \in Texts
  PROVE  S \in Sources
BY DEF Sources

LEMMA SourcesElim ==
  ASSUME NEW S \in Sources
  PROVE  /\ DOMAIN S \subseteq Names
         /\ \A n \in DOMAIN S : S[n] \in Texts
BY DEF Sources

LEMMA NoSources == <<>> \in Sources
<1>1. DOMAIN <<>> = {} /\ <<>> = [n \in {} |-> <<>>[n]]
  OBVIOUS
<1> QED BY <1>1, SourcesIntro

LEMMA OnlySources ==
  ASSUME NEW d \in Docs
  PROVE  /\ Only(d) \in Sources
         /\ d.name \in DOMAIN Only(d)
         /\ Only(d)[d.name] = d.text
BY SourcesIntro DEF Only, Docs

\* Gathering imports adds files, and changes none of those there are.
LEMMA GatherSources ==
  ASSUME NEW S \in Sources, NEW missing, NEW saved \in Sources
  PROVE  LET G == GatherImports(S, missing, saved)
         IN /\ G \in Sources
            /\ \A n \in DOMAIN S : n \in DOMAIN G /\ G[n] = S[n]
<1> DEFINE found == (missing \cup LedBy(S)) \cap DOMAIN saved
           G == GatherImports(S, missing, saved)
<1>1. /\ DOMAIN G = DOMAIN S \cup found
      /\ G = [n \in DOMAIN G |-> G[n]]
      /\ \A n \in DOMAIN G : G[n] = IF n \in DOMAIN S THEN S[n] ELSE saved[n]
  BY DEF GatherImports, With
<1> HIDE DEF G
<1>2. DOMAIN G \subseteq Names /\ \A n \in DOMAIN G : G[n] \in Texts
  BY <1>1, SourcesElim
<1>3. G \in Sources
  BY <1>1, <1>2, SourcesIntro
<1> QED BY <1>1, <1>3 DEF G

LEMMA ParsedType ==
  ASSUME latest \in [errors : Sources, contracts : Sources], NEW S \in Sources
  PROVE  Parsed(S) \in [errors : Sources, contracts : Sources]
BY NoSources DEF Parsed

-----------------------------------------------------------------------------
(* Types, and the numbers of requests and calls.                               *)

LessThan == {pair \in Nat \X Nat : pair[1] < pair[2]}

\* Of some numbers, one is the least.
LEMMA LeastNumber ==
  ASSUME NEW S \in SUBSET Nat, S # {}
  PROVE  \E n \in S : \A m \in S : n <= m
<1>1. IsWellFoundedOn(LessThan, Nat)
  BY NatLessThanWellFounded DEF OpToRel, LessThan
<1>2. PICK n \in S : \A m \in S : <<m, n>> \notin LessThan
  BY <1>1, WFMin
<1>3. \A m \in S : ~(m < n)
  BY <1>2 DEF LessThan
<1> QED BY <1>3

\* Of some calls, one is the oldest.
LEMMA OldestCall ==
  ASSUME NEW cs, cs # {}, \A c \in cs : c.id \in Nat
  PROVE  Oldest(cs) \in cs /\ \A c \in cs : Oldest(cs).id <= c.id
<1>1. PICK n \in {c.id : c \in cs} : \A m \in {c.id : c \in cs} : n <= m
  BY LeastNumber
<1>2. \E c \in cs : \A d \in cs : c.id <= d.id
  BY <1>1
<1> QED BY <1>2 DEF Oldest

\* The first calls that wait have the last numbers given, and each number is that
\* of one request and of one call at most.
Numbered ==
  /\ IsFiniteSet(calls)
  /\ IsFiniteSet(requests)
  /\ {c.id : c \in Firsts} = (nextId - Cardinality(Firsts)) .. (nextId - 1)
  /\ \A c \in calls : c.id < nextId
  /\ \A c, d \in calls : c.id = d.id => c = d
  /\ \A r \in requests : r.id < nextId
  /\ \A q, r \in requests : q.id = r.id => q = r

TypeInv == TypeOK /\ versions # <<>> /\ Numbered

\* compile() keeps it, whatever the step does to the last version.
LEMMA CompileTyped ==
  ASSUME TypeInv, NEW d \in Docs \cup {None}, Compile(d), library' \in Sources,
         versions' \in Seq(Version), Len(versions') = Len(versions)
  PROVE  /\ requests' \subseteq Request
         /\ calls' \subseteq Call
         /\ nextId' \in Nat
         /\ latest' \in [errors : Sources, contracts : Sources]
         /\ tabCompiling' \in BOOLEAN
         /\ runCompiling' \in BOOLEAN
         /\ versions' # <<>>
         /\ Numbered'
<1>0. /\ requests \subseteq Request /\ calls \subseteq Call
      /\ nextId \in Nat /\ latest \in [errors : Sources, contracts : Sources]
      /\ tabCompiling \in BOOLEAN /\ runCompiling \in BOOLEAN
      /\ Len(versions) \in Nat /\ versions' # <<>>
  BY DEF TypeInv, TypeOK
<1>1. CASE UNCHANGED compiling
  <2>1. Numbered'
    BY <1>1 DEF compiling, asked, TypeInv, Numbered, Firsts
  <2> QED BY <1>0, <1>1, <2>1 DEF compiling, asked
<1>2. CASE d # None /\ mode # "worker" /\ CompileSync(d)
  <2>1. UNCHANGED <<requests, calls, nextId>>
    BY <1>2 DEF CompileSync, asked
  <2>2. Numbered'
    BY <2>1 DEF TypeInv, Numbered, Firsts
  <2> DEFINE G == GatherImports(Only(d), MissingInputs(Only(d)), library')
  <2>3. G \in Sources
    BY <1>2, OnlySources, GatherSources
  <2>4. latest' \in {latest, Parsed(G)} /\ tabCompiling' \in BOOLEAN /\ runCompiling' \in BOOLEAN
    BY <1>2 DEF CompileSync
  <2>5. Parsed(G) \in [errors : Sources, contracts : Sources]
    BY <1>0, <2>3, ParsedType
  <2> QED BY <1>0, <2>1, <2>2, <2>4, <2>5
<1>3. CASE d # None /\ mode = "worker" /\ CompileWebWorker(d)
  <2> DEFINE call == [id |-> nextId, sources |-> Only(d), retry |-> TRUE]
             request == [id |-> nextId, version |-> Len(versions), sources |-> Only(d)]
  <2>1. /\ requests' = requests \cup RequestsOf({call})
        /\ calls' = calls \cup {call}
        /\ nextId' = nextId + 1
        /\ tabCompiling' = TRUE
        /\ runCompiling' = TRUE
        /\ latest' = latest
    BY <1>3 DEF CompileWebWorker
  <2>2. requests' = requests \cup {request}
    BY <2>1 DEF RequestsOf
  <2>3. Only(d) \in Sources
    BY <1>3, OnlySources
  <2>4. call \in Call /\ request \in Request
    BY <1>0, <2>3 DEF Call, Request
  <2>5. Numbered'
    <3>0. (\A c \in calls : c.id \in Nat) /\ (\A r \in requests : r.id \in Nat)
      BY <1>0 DEF Call, Request
    <3>1. call \notin calls /\ call.id = nextId /\ call.retry = TRUE
      BY <1>0 DEF TypeInv, Numbered
    <3>2. Firsts' = Firsts \cup {call} /\ call \notin Firsts
      BY <2>1, <3>1 DEF Firsts
    <3>3. IsFiniteSet(Firsts) /\ IsFiniteSet(calls') /\ IsFiniteSet(requests')
      <4>1. IsFiniteSet(calls) /\ IsFiniteSet(requests)
        BY DEF TypeInv, Numbered
      <4>2. Firsts \subseteq calls
        BY DEF Firsts
      <4> HIDE DEF call, request
      <4> QED BY <2>1, <2>2, <4>1, <4>2, FS_Subset, FS_AddElement
    <3>4. Cardinality(Firsts)' = Cardinality(Firsts) + 1 /\ Cardinality(Firsts) \in Nat
      BY <3>2, <3>3, FS_AddElement, FS_CardinalityType
    <3>5. {c.id : c \in Firsts}' = {c.id : c \in Firsts} \cup {nextId}
      BY <3>1, <3>2
    <3>6. {c.id : c \in Firsts}' = (nextId' - Cardinality(Firsts)') .. (nextId' - 1)
      <4> DEFINE k == Cardinality(Firsts)
      <4>1. {c.id : c \in Firsts} = (nextId - k) .. (nextId - 1) /\ k \in Nat
        BY <3>4 DEF TypeInv, Numbered
      <4>2. {c.id : c \in Firsts}' = ((nextId - k) .. (nextId - 1)) \cup {nextId}
        BY <3>5, <4>1
      <4> HIDE DEF k
      <4>3. ((nextId - k) .. (nextId - 1)) \cup {nextId} = (nextId + 1 - (k + 1)) .. (nextId + 1 - 1)
        BY <1>0, <4>1
      <4> QED BY <2>1, <3>4, <4>2, <4>3 DEF k
    <3>7. request.id = nextId
      OBVIOUS
    <3> HIDE DEF call, request
    <3>8. /\ \A c \in calls' : c.id < nextId'
          /\ \A c, b \in calls' : c.id = b.id => c = b
      BY <1>0, <2>1, <3>0, <3>1 DEF TypeInv, Numbered
    <3>9. /\ \A r \in requests' : r.id < nextId'
          /\ \A q, r \in requests' : q.id = r.id => q = r
      <4>1. nextId' = nextId + 1
        BY <2>1
      <4> QED BY <1>0, <2>2, <3>0, <3>7, <4>1 DEF TypeInv, Numbered
    <3> QED BY <3>3, <3>6, <3>8, <3>9 DEF Numbered
  <2> HIDE DEF call, request
  <2>6. requests' \subseteq Request
    BY <1>0, <2>2, <2>4
  <2>7. calls' \subseteq Call
    BY <1>0, <2>1, <2>4
  <2>8. /\ nextId' \in Nat
        /\ latest' \in [errors : Sources, contracts : Sources]
        /\ tabCompiling' \in BOOLEAN
        /\ runCompiling' \in BOOLEAN
    BY <1>0, <2>1
  <2> QED BY <1>0, <2>5, <2>6, <2>7, <2>8
<1> QED BY <1>1, <1>2, <1>3 DEF Compile

\* The numbers of the second rounds follow on the last one given.
LEMMA RetriesTyped ==
  ASSUME TypeInv, NEW r \in requests
  PROVE  \A c \in Firsts :
           /\ Retry(c, r) \in Call
           /\ ~Retry(c, r).retry
           /\ nextId <= Retry(c, r).id
           /\ Retry(c, r).id < nextId + Cardinality(Firsts)
           /\ \A d \in Firsts : Retry(c, r).id = Retry(d, r).id => c = d
<1> SUFFICES ASSUME NEW c \in Firsts
             PROVE  /\ Retry(c, r) \in Call
                    /\ ~Retry(c, r).retry
                    /\ nextId <= Retry(c, r).id
                    /\ Retry(c, r).id < nextId + Cardinality(Firsts)
                    /\ \A d \in Firsts : Retry(c, r).id = Retry(d, r).id => c = d
  OBVIOUS
<1> DEFINE first == Oldest(Firsts)
<1>1. /\ Firsts \subseteq calls /\ calls \subseteq Call /\ nextId \in Nat
      /\ library \in Libraries /\ IsFiniteSet(Firsts)
  BY FS_Subset DEF TypeInv, TypeOK, Numbered, Firsts
<1>2. \A d \in Firsts : d.id \in Nat /\ d.sources \in Sources
  BY <1>1 DEF Call
<1>3. first \in Firsts /\ \A d \in Firsts : first.id <= d.id
  BY <1>2, OldestCall
<1>4. Cardinality(Firsts) \in Nat
  BY <1>1, FS_CardinalityType
<1>5. \A n \in (nextId - Cardinality(Firsts)) .. (nextId - 1) : first.id <= n /\ n < nextId
  <2>1. \A n \in {d.id : d \in Firsts} : first.id <= n
    BY <1>3
  <2> QED BY <1>1, <1>4, <2>1 DEF TypeInv, Numbered
<1>6. first.id = nextId - Cardinality(Firsts)
  <2>1. first.id \in (nextId - Cardinality(Firsts)) .. (nextId - 1)
    BY <1>3 DEF TypeInv, Numbered
  <2>2. nextId - Cardinality(Firsts) \in (nextId - Cardinality(Firsts)) .. (nextId - 1)
    BY <1>1, <1>4, <2>1
  <2> QED BY <1>1, <1>4, <1>5, <2>1, <2>2
<1>7. PICK missing : Retry(c, r) = [id      |-> nextId + (c.id - first.id),
                                    sources |-> GatherImports(c.sources, missing, library),
                                    retry   |-> FALSE]
  BY DEF Retry
<1>8. \A d \in Firsts : Retry(d, r).id = nextId + (d.id - first.id)
  BY DEF Retry
<1>9. library \in Sources
  BY <1>1, CompilerAssumption
<1>10. GatherImports(c.sources, missing, library) \in Sources
  BY <1>2, <1>9, GatherSources
<1>11. c.id \in Nat /\ first.id \in Nat /\ first.id <= c.id /\ c.id < nextId
  BY <1>1, <1>2, <1>3 DEF TypeInv, Numbered
<1>12. Retry(c, r) \in Call
  BY <1>1, <1>7, <1>10, <1>11 DEF Call
<1>13. \A d \in Firsts : Retry(c, r).id = Retry(d, r).id => c = d
  <2> SUFFICES ASSUME NEW d \in Firsts, Retry(c, r).id = Retry(d, r).id PROVE c.id = d.id
    BY <1>1 DEF TypeInv, Numbered
  <2> QED BY <1>1, <1>2, <1>8, <1>11
<1> QED BY <1>1, <1>4, <1>6, <1>7, <1>11, <1>12, <1>13

\* There is one second round, and one request for it, for each first one.
LEMMA RetriesCount ==
  ASSUME TypeInv, NEW r \in requests
  PROVE  LET retries == {Retry(c, r) : c \in Firsts}
         IN /\ IsFiniteSet(retries)
            /\ IsFiniteSet(RequestsOf(retries))
            /\ Cardinality(RequestsOf(retries)) = Cardinality(Firsts)
<1> DEFINE retries == {Retry(c, r) : c \in Firsts}
           request(c) == [id |-> c.id, version |-> Len(versions), sources |-> c.sources]
           f == [c \in Firsts |-> Retry(c, r)]
           g == [c \in Firsts |-> request(Retry(c, r))]
<1>1. IsFiniteSet(Firsts)
  BY FS_Subset DEF TypeInv, Numbered, Firsts
<1>2. f \in Surjection(Firsts, retries)
  BY DEF Surjection
<1>3. RequestsOf(retries) = {request(Retry(c, r)) : c \in Firsts}
  BY DEF RequestsOf
<1>4. g \in Surjection(Firsts, RequestsOf(retries))
  BY <1>3 DEF Surjection
<1>5. \A c, d \in Firsts : g[c] = g[d] => c = d
  <2>1. \A c, d \in Firsts : Retry(c, r).id = Retry(d, r).id => c = d
    BY RetriesTyped
  <2>2. \A c \in Firsts : g[c].id = Retry(c, r).id
    OBVIOUS
  <2> HIDE DEF g
  <2> QED BY <2>1, <2>2
<1> HIDE DEF f, g, retries
<1>6. g \in Injection(Firsts, RequestsOf(retries))
  <2>1. g \in [Firsts -> RequestsOf(retries)]
    BY <1>4 DEF Surjection
  <2> QED BY <1>5, <2>1 DEF Injection, IsInjective
<1>7. IsFiniteSet(retries)
  BY <1>1, <1>2, FS_Surjection
<1>8. IsFiniteSet(RequestsOf(retries)) /\ Cardinality(RequestsOf(retries)) = Cardinality(Firsts)
  BY <1>1, <1>4, <1>6, FS_Surjection
<1> QED BY <1>7, <1>8 DEF retries

LEMMA AnswerTyped ==
  ASSUME TypeInv, NEW r \in requests, Answer(r)
  PROVE  TypeInv'
<1> DEFINE retries == {Retry(c, r) : c \in Firsts}
           k == Cardinality(Firsts)
           parsed == Finals # {} /\ versions[r.version] = "ready"
<1>0. /\ requests \subseteq Request /\ nextId \in Nat /\ Len(versions) \in Nat
      /\ latest \in [errors : Sources, contracts : Sources]
      /\ tabCompiling \in BOOLEAN /\ runCompiling \in BOOLEAN
      /\ IsFiniteSet(Firsts)
  BY FS_Subset DEF TypeInv, TypeOK, Numbered, Firsts
<1>1. /\ calls' = retries
      /\ requests' = (requests \ {r}) \cup RequestsOf(retries)
      /\ nextId' = nextId + k
      /\ latest' = IF parsed THEN Parsed(r.sources) ELSE latest
      /\ tabCompiling' = (tabCompiling /\ ~parsed)
      /\ runCompiling' = (retries # {} \/ (runCompiling /\ ~parsed))
      /\ UNCHANGED <<files, loading>>
  BY DEF Answer
<1>2. \A c \in retries : /\ c \in Call
                         /\ ~c.retry
                         /\ nextId <= c.id /\ c.id < nextId + k
                         /\ \A d \in retries : c.id = d.id => c = d
  BY RetriesTyped
<1>3. k \in Nat
  BY <1>0, FS_CardinalityType
<1>4. IsFiniteSet(retries) /\ IsFiniteSet(requests')
  <2>1. IsFiniteSet(retries) /\ IsFiniteSet(RequestsOf(retries))
    BY <1>0, RetriesCount
  <2> QED BY <1>1, <2>1, FS_RemoveElement, FS_Union DEF TypeInv, Numbered
<1>5. r.sources \in Sources
  BY <1>0 DEF Request
<1>6. Parsed(r.sources) \in [errors : Sources, contracts : Sources]
  BY <1>0, <1>5, ParsedType
<1> HIDE DEF retries, k
<1>7. \A q \in RequestsOf(retries) :
        /\ q \in Request
        /\ nextId <= q.id /\ q.id < nextId + k
        /\ \A p \in RequestsOf(retries) : p.id = q.id => p = q
  BY <1>0, <1>2 DEF RequestsOf, Request, Call
<1>8. /\ requests' \subseteq Request
      /\ calls' \subseteq Call
      /\ nextId' \in Nat
  BY <1>0, <1>1, <1>2, <1>3, <1>7
<1>9. /\ latest' \in [errors : Sources, contracts : Sources]
      /\ tabCompiling' \in BOOLEAN
      /\ runCompiling' \in BOOLEAN
  <2> HIDE DEF parsed
  <2> QED BY <1>0, <1>1, <1>6
<1>10. TypeOK' /\ versions' # <<>>
  BY <1>1, <1>8, <1>9 DEF files, loading, TypeInv, TypeOK
<1>11. {c.id : c \in Firsts}' = (nextId' - Cardinality(Firsts)') .. (nextId' - 1)
  <2>1. Firsts' = {}
    BY <1>1, <1>2 DEF Firsts
  <2>2. Cardinality(Firsts)' = 0
    BY <2>1, FS_EmptySet
  <2>3. nextId' \in Nat
    BY <1>8
  <2>4. (nextId' - 0) .. (nextId' - 1) = {}
    <3>1. \A n \in Nat : \A x \in (n - 0) .. (n - 1) : FALSE
      OBVIOUS
    <3> QED BY <2>3, <3>1
  <2> QED BY <2>1, <2>2, <2>4
<1>12. /\ \A c \in calls' : c.id < nextId'
       /\ \A c, d \in calls' : c.id = d.id => c = d
  BY <1>1, <1>2
<1>13. \A q \in requests : q.id \in Nat /\ q.id < nextId
  BY <1>0 DEF TypeInv, Numbered, Request
<1>14. \A q \in RequestsOf(retries) : q.id \in Nat
  BY <1>7 DEF Request
<1>15. \A q \in requests' : q.id < nextId'
  BY <1>0, <1>1, <1>3, <1>7, <1>13
<1>16. \A p, q \in requests' : p.id = q.id => p = q
  <2> SUFFICES ASSUME NEW p \in requests', NEW q \in requests', p.id = q.id PROVE p = q
    OBVIOUS
  <2>1. CASE p \in requests /\ q \in requests
    BY <2>1 DEF TypeInv, Numbered
  <2>2. CASE p \in RequestsOf(retries) /\ q \in RequestsOf(retries)
    BY <1>7, <2>2
  <2>3. CASE p \in requests /\ q \in RequestsOf(retries)
    BY <1>0, <1>7, <1>13, <1>14, <2>3
  <2>4. CASE q \in requests /\ p \in RequestsOf(retries)
    BY <1>0, <1>7, <1>13, <1>14, <2>4
  <2> QED BY <1>1, <2>1, <2>2, <2>3, <2>4
<1> QED BY <1>1, <1>4, <1>10, <1>11, <1>12, <1>15, <1>16 DEF TypeInv, Numbered

LEMMA TypeInit == Init => TypeInv
<1> SUFFICES ASSUME Init PROVE TypeInv
  OBVIOUS
<1>1. latest \in [errors : Sources, contracts : Sources]
  BY NoSources DEF Init
<1>2. TypeOK /\ versions # <<>>
  <2>1. versions \in Seq(Version) /\ versions # <<>>
    BY DEF Init, Version
  <2>2. requests \subseteq Request /\ calls \subseteq Call
    BY DEF Init
  <2> QED BY <1>1, <2>1, <2>2 DEF Init, TypeOK
<1>3. /\ IsFiniteSet(calls) /\ IsFiniteSet(requests)
      /\ Firsts = {} /\ Cardinality(Firsts) = 0 /\ nextId = 1
  BY FS_EmptySet DEF Init, Firsts
<1>4. {c.id : c \in Firsts} = (nextId - Cardinality(Firsts)) .. (nextId - 1)
  BY <1>3
<1> QED BY <1>2, <1>3, <1>4 DEF Init, TypeInv, Numbered

LEMMA TypeStep == TypeInv /\ [Next]_vars => TypeInv'
<1> SUFFICES ASSUME TypeInv, [Next]_vars PROVE TypeInv'
  OBVIOUS
<1>0. /\ doc \in Selections \cup {None} /\ library \in Libraries
      /\ versions \in Seq(Version) /\ Len(versions) \in Nat \ {0}
      /\ {"loading", "ready", "dead"} \subseteq Version
  BY DEF TypeInv, TypeOK, Version
<1>1. ASSUME NEW d \in Selections \cup {None}, Compile(d),
             doc' \in Selections \cup {None}, library' \in Libraries, mode' = mode,
             versions' \in Seq(Version), Len(versions') = Len(versions),
             tabLoading' \in BOOLEAN, subscribed' \in BOOLEAN, timers' \in Nat
      PROVE  TypeInv'
  <2>1. d \in Docs \cup {None} /\ library' \in Sources
    BY <1>1, CompilerAssumption
  <2>2. /\ requests' \subseteq Request
        /\ calls' \subseteq Call
        /\ nextId' \in Nat
        /\ latest' \in [errors : Sources, contracts : Sources]
        /\ tabCompiling' \in BOOLEAN
        /\ runCompiling' \in BOOLEAN
        /\ versions' # <<>>
        /\ Numbered'
    BY <1>1, <2>1, CompileTyped
  <2> QED BY <1>1, <2>2 DEF TypeInv, TypeOK
<1>2. ASSUME UNCHANGED compiling,
             doc' \in Selections \cup {None}, library' \in Libraries, mode' = mode,
             versions' \in Seq(Version) \ {<<>>},
             tabLoading' \in BOOLEAN, subscribed' \in BOOLEAN, timers' \in Nat
      PROVE  TypeInv'
  BY <1>2 DEF compiling, asked, TypeInv, TypeOK, Numbered, Firsts
<1>3. CASE AnswerArrives
  BY <1>3, AnswerTyped DEF AnswerArrives
<1>4. CASE LoadCompiler
  <2>1. versions' \in Seq(Version) \ {<<>>}
    BY <1>0, <1>4 DEF LoadCompiler
  <2> QED BY <1>2, <1>4, <2>1 DEF LoadCompiler, files, TypeInv, TypeOK
<1>5. CASE VersionLoaded
  <2>1. versions' \in Seq(Version) /\ Len(versions') = Len(versions)
    BY <1>0, <1>5 DEF VersionLoaded
  <2>2. timers' \in Nat
    BY <1>5 DEF VersionLoaded, TypeInv, TypeOK
  <2> QED BY <1>0, <1>1, <1>5, <2>1, <2>2 DEF VersionLoaded, files
<1>6. CASE LoadFails
  <2>1. versions' \in Seq(Version) \ {<<>>}
    BY <1>0, <1>6 DEF LoadFails
  <2> QED BY <1>2, <1>6, <2>1 DEF LoadFails, files, TypeInv, TypeOK
<1>7. CASE TimerFires
  <2>1. timers' \in Nat
    BY <1>7 DEF TimerFires, TypeInv, TypeOK
  <2> QED BY <1>0, <1>1, <1>7, <2>1 DEF TimerFires, files, TypeInv, TypeOK
<1>8. CASE SaveFile \/ AskCompile
  BY <1>0, <1>1, <1>8 DEF SaveFile, AskCompile, files, loading, TypeInv, TypeOK
<1>9. CASE FilesChange \/ UNCHANGED vars
  BY <1>0, <1>2, <1>9 DEF FilesChange, vars, files, loading, TypeInv, TypeOK
<1>10. ASSUME NEW d \in Selections, SelectFile(d)
       PROVE  TypeInv'
  BY <1>0, <1>1, <1>2, <1>10 DEF SelectFile, loading, TypeInv, TypeOK
<1> QED BY <1>3, <1>4, <1>5, <1>6, <1>7, <1>8, <1>9, <1>10 DEF Next

\* However compilations overlap, whatever is loaded or fails to load: the state
\* keeps its types; above all, what is compiled is always texts under file names.
THEOREM TypeCorrect == Spec => []TypeOK
<1>1. TypeInv => TypeOK
  BY DEF TypeInv
<1> QED BY TypeInit, TypeStep, <1>1, PTL DEF Spec

\* No two requests have one number, and none has a number yet to be given: the
\* order of each worker's queue, which is read off the numbers, is total, however
\* many calls one answer resolves.
THEOREM NumbersAreGivenOnce ==
  Spec => [](\A q, r \in requests : (q.id = r.id => q = r) /\ q.id < nextId)
<1>1. TypeInv => \A q, r \in requests : (q.id = r.id => q = r) /\ q.id < nextId
  BY DEF TypeInv, Numbered
<1> QED BY TypeInit, TypeStep, <1>1, PTL DEF Spec

-----------------------------------------------------------------------------
(* No call waits in vain.                                                      *)

\* What the calls cs post is a request for each of them, with their sources.
LEMMA RequestsOfCalls ==
  ASSUME NEW cs, NEW c \in cs
  PROVE  \E r \in RequestsOf(cs) : r.id = c.id /\ r.sources = c.sources
<1> DEFINE r == [id |-> c.id, version |-> Len(versions), sources |-> c.sources]
<1>1. r \in RequestsOf(cs)
  BY DEF RequestsOf
<1> QED BY <1>1

\* compile() asks a worker, or leaves the requests and calls as they are.
LEMMA CompileCases ==
  ASSUME NEW d, Compile(d)
  PROVE  \/ UNCHANGED asked
         \/ mode = "worker" /\ CompileWebWorker(d)
BY DEF Compile, CompileSync, compiling, asked

LEMMA CompileOutstanding ==
  ASSUME WaitingIsOutstanding, NEW d, Compile(d)
  PROVE  WaitingIsOutstanding'
<1>1. CASE UNCHANGED asked
  BY <1>1 DEF asked, WaitingIsOutstanding
<1>2. CASE CompileWebWorker(d)
  <2> DEFINE call == [id |-> nextId, sources |-> Only(d), retry |-> TRUE]
  <2>1. /\ requests' = requests \cup RequestsOf({call})
        /\ calls' = calls \cup {call}
    BY <1>2 DEF CompileWebWorker
  <2>2. \E r \in RequestsOf({call}) : r.id = call.id /\ r.sources = call.sources
    BY RequestsOfCalls
  <2> QED BY <2>1, <2>2 DEF WaitingIsOutstanding
<1> QED BY <1>1, <1>2, CompileCases

LEMMA AnswerOutstanding ==
  ASSUME NEW r \in requests, Answer(r)
  PROVE  WaitingIsOutstanding'
<1> DEFINE retries == {Retry(c, r) : c \in Firsts}
<1>1. /\ calls' = retries
      /\ requests' = (requests \ {r}) \cup RequestsOf(retries)
  BY DEF Answer
<1>2. \A c \in retries : \E q \in RequestsOf(retries) : q.id = c.id /\ q.sources = c.sources
  BY RequestsOfCalls
<1> HIDE DEF retries
<1> QED BY <1>1, <1>2 DEF WaitingIsOutstanding

\* The request of every call that still waits has yet to be answered, however
\* many calls overlap, versions are loaded or loads fail.
THEOREM NoCallWaitsInVain == Spec => []WaitingIsOutstanding
<1>1. Init => WaitingIsOutstanding
  BY DEF Init, WaitingIsOutstanding
<1>2. WaitingIsOutstanding /\ [Next]_vars => WaitingIsOutstanding'
  <2> SUFFICES ASSUME WaitingIsOutstanding, [Next]_vars
               PROVE  WaitingIsOutstanding'
    OBVIOUS
  <2>1. CASE UNCHANGED compiling
    BY <2>1 DEF compiling, asked, WaitingIsOutstanding
  <2>2. CASE AnswerArrives
    BY <2>2, AnswerOutstanding DEF AnswerArrives
  <2>3. CASE VersionLoaded \/ TimerFires \/ SaveFile \/ AskCompile
    BY <2>3, CompileOutstanding DEF VersionLoaded, TimerFires, SaveFile, AskCompile
  <2>4. ASSUME NEW d \in Selections, SelectFile(d)
        PROVE  WaitingIsOutstanding'
    BY <2>1, <2>4, CompileOutstanding DEF SelectFile
  <2>5. CASE LoadCompiler \/ LoadFails \/ FilesChange \/ UNCHANGED vars
    BY <2>1, <2>5 DEF LoadCompiler, LoadFails, FilesChange, vars
  <2> QED BY <2>2, <2>3, <2>4, <2>5 DEF Next
<1> QED BY <1>1, <1>2, PTL DEF Spec

-----------------------------------------------------------------------------
(* Every answer brings the end nearer: what liveness needs besides fairness.   *)

\* The answers still to come if nobody asks any more: one for each request, and
\* one more for the second round of each first call.
Left == Cardinality(requests) + Cardinality(Firsts)

LEMMA LeftType == TypeInv => Left \in Nat /\ IsFiniteSet(requests) /\ IsFiniteSet(Firsts)
<1> SUFFICES ASSUME TypeInv PROVE Left \in Nat /\ IsFiniteSet(requests) /\ IsFiniteSet(Firsts)
  OBVIOUS
<1>1. IsFiniteSet(requests) /\ IsFiniteSet(Firsts)
  BY FS_Subset DEF TypeInv, Numbered, Firsts
<1>2. Cardinality(requests) \in Nat /\ Cardinality(Firsts) \in Nat
  BY <1>1, FS_CardinalityType
<1> QED BY <1>1, <1>2 DEF Left

\* An answer takes one request away; the first calls become as many requests.
LEMMA AnswerLeft ==
  ASSUME TypeInv, NEW r \in requests, Answer(r)
  PROVE  Left' = Left - 1
<1> DEFINE retries == {Retry(c, r) : c \in Firsts}
           others == requests \ {r}
           second == RequestsOf(retries)
<1>1. IsFiniteSet(requests) /\ IsFiniteSet(Firsts)
  BY LeftType
<1>2. IsFiniteSet(second) /\ Cardinality(second) = Cardinality(Firsts)
  BY RetriesCount
<1>3. IsFiniteSet(others) /\ Cardinality(others) = Cardinality(requests) - 1
  BY <1>1, FS_RemoveElement
<1>4. others \cap second = {}
  <2>1. \A c \in retries : nextId <= c.id /\ c.id \in Nat
    BY RetriesTyped DEF Call
  <2>2. \A q \in second : nextId <= q.id /\ q.id \in Nat
    BY <2>1 DEF RequestsOf
  <2>3. \A q \in others : q.id < nextId /\ q.id \in Nat
    BY DEF TypeInv, TypeOK, Numbered, Request
  <2>4. nextId \in Nat
    BY DEF TypeInv, TypeOK
  <2> HIDE DEF others, second
  <2> QED BY <2>2, <2>3, <2>4
<1>5. requests' = others \cup second /\ calls' = retries
  BY DEF Answer
<1>6. Firsts' = {}
  BY <1>5, RetriesTyped DEF Firsts
<1>7. Cardinality(Firsts)' = 0
  BY <1>6, FS_EmptySet
<1>8. /\ Cardinality(requests) \in Nat
      /\ Cardinality(Firsts) \in Nat
      /\ Cardinality(others) \in Nat
  BY <1>1, <1>3, FS_CardinalityType
<1> HIDE DEF others, second
<1>9. Cardinality(requests)' = Cardinality(others) + Cardinality(second)
  <2>1. Cardinality(others \cup second)
          = Cardinality(others) + Cardinality(second) - Cardinality(others \cap second)
    BY <1>2, <1>3, FS_Union
  <2>2. Cardinality(others \cap second) = 0
    BY <1>4, FS_EmptySet
  <2> QED BY <1>2, <1>5, <1>8, <2>1, <2>2
<1> QED BY <1>2, <1>3, <1>7, <1>8, <1>9 DEF Left

\* compile() adds two answers to come, or none.
LEMMA CompileLeft ==
  ASSUME TypeInv, NEW d, Compile(d)
  PROVE  Left' \in {Left, Left + 2}
<1>1. CASE UNCHANGED asked
  BY <1>1 DEF asked, Left, Firsts
<1>2. CASE CompileWebWorker(d)
  <2> DEFINE call == [id |-> nextId, sources |-> Only(d), retry |-> TRUE]
             request == [id |-> nextId, version |-> Len(versions), sources |-> Only(d)]
  <2>1. requests' = requests \cup RequestsOf({call}) /\ calls' = calls \cup {call}
    BY <1>2 DEF CompileWebWorker
  <2>2. requests' = requests \cup {request}
    BY <2>1 DEF RequestsOf
  <2>3. nextId \in Nat /\ call.id = nextId /\ call.retry = TRUE /\ request.id = nextId
    BY DEF TypeInv, TypeOK
  <2>4. call \notin calls /\ request \notin requests
    BY <2>3 DEF TypeInv, Numbered
  <2>5. Firsts' = Firsts \cup {call} /\ call \notin Firsts
    BY <2>1, <2>3, <2>4 DEF Firsts
  <2> HIDE DEF call, request
  <2>6. IsFiniteSet(requests) /\ IsFiniteSet(Firsts)
    BY LeftType
  <2>7. /\ Cardinality(requests)' = Cardinality(requests) + 1
        /\ Cardinality(Firsts)' = Cardinality(Firsts) + 1
    BY <2>2, <2>4, <2>5, <2>6, FS_AddElement
  <2>8. Cardinality(requests) \in Nat /\ Cardinality(Firsts) \in Nat
    BY <2>6, FS_CardinalityType
  <2> QED BY <2>7, <2>8 DEF Left
<1> QED BY <1>1, <1>2, CompileCases

\* However compilations overlap, an answer, be it of a failed version or resolve
\* calls it was not meant for, leaves one answer less to come, the second rounds
\* it sets off included; nothing else leaves fewer, and only compile() more, by
\* two; and none is left exactly when nothing is being compiled.  So once nobody
\* asks, compiling ends if answers keep arriving.
THEOREM AnswersGetThere ==
  Spec => /\ [](Left \in Nat /\ (Left = 0 <=> Settled))
          /\ [][IF AnswerArrives THEN Left' = Left - 1 ELSE Left' \in {Left, Left + 2}]_vars
<1>1. TypeInv /\ WaitingIsOutstanding => Left \in Nat /\ (Left = 0 <=> Settled)
  <2> SUFFICES ASSUME TypeInv, WaitingIsOutstanding
               PROVE  Left \in Nat /\ (Left = 0 <=> Settled)
    OBVIOUS
  <2>1. Left \in Nat /\ IsFiniteSet(requests) /\ IsFiniteSet(Firsts)
    BY LeftType
  <2>2. Cardinality(requests) \in Nat /\ Cardinality(Firsts) \in Nat
    BY <2>1, FS_CardinalityType
  <2>3. Left = 0 <=> requests = {} /\ Firsts = {}
    BY <2>1, <2>2, FS_EmptySet DEF Left
  <2>4. requests = {} => calls = {}
    BY DEF WaitingIsOutstanding
  <2> QED BY <2>1, <2>3, <2>4 DEF Settled, Firsts
<1>2. TypeInv /\ [Next]_vars
        => [IF AnswerArrives THEN Left' = Left - 1 ELSE Left' \in {Left, Left + 2}]_vars
  <2> SUFFICES ASSUME TypeInv, Next
               PROVE  IF AnswerArrives THEN Left' = Left - 1 ELSE Left' \in {Left, Left + 2}
    OBVIOUS
  <2>1. CASE AnswerArrives
    BY <2>1, AnswerLeft DEF AnswerArrives
  <2>2. ASSUME UNCHANGED compiling
        PROVE  Left' = Left
    BY <2>2 DEF compiling, asked, Left, Firsts
  <2>3. ASSUME NEW d \in Selections, SelectFile(d)
        PROVE  Left' \in {Left, Left + 2}
    BY <2>2, <2>3, CompileLeft DEF SelectFile
  <2>4. CASE VersionLoaded \/ TimerFires \/ SaveFile \/ AskCompile
    <3>1. Left' \in {Left, Left + 2}
      BY <2>4, CompileLeft DEF VersionLoaded, TimerFires, SaveFile, AskCompile
    <3> QED BY <2>1, <3>1
  <2>5. CASE LoadCompiler \/ LoadFails \/ FilesChange
    <3>1. Left' \in {Left, Left + 2}
      BY <2>2, <2>5 DEF LoadCompiler, LoadFails, FilesChange
    <3> QED BY <2>1, <3>1
  <2> QED BY <2>1, <2>3, <2>4, <2>5 DEF Next
<1> QED BY <1>1, <1>2, TypeInit, TypeStep, NoCallWaitsInVain, PTL DEF Spec

-----------------------------------------------------------------------------
(* RunTab's progress bar.                                                      *)

\* The bar is right as long as every version has loaded or is loading; a page
\* without workers has no calls.
BarInv ==
  /\ versions \in Seq(Version)
  /\ versions # <<>>
  /\ \A r \in requests : r.version \in 1 .. Len(versions)
  /\ runCompiling \in BOOLEAN
  /\ IsFiniteSet(calls)
  /\ nextId \in Nat \ {0}
  /\ nextId = 1 => calls = {} /\ requests = {}
  /\ mode # "worker" => nextId = 1
  /\ RunTabTracksCalls

\* compile() keeps the bar right, whatever the step does to the last version.
LEMMA CompileBar ==
  ASSUME BarInv, NEW d, Compile(d), UNCHANGED mode,
         versions' \in Seq(Version), Len(versions') = Len(versions), AllLoad' => AllLoad
  PROVE  BarInv'
<1>1. Len(versions) \in Nat \ {0} /\ versions' # <<>>
  BY DEF BarInv
<1>2. CASE UNCHANGED compiling
  BY <1>1, <1>2 DEF compiling, asked, BarInv, RunTabTracksCalls
<1>3. CASE mode # "worker" /\ CompileSync(d)
  <2>1. UNCHANGED asked /\ runCompiling' \in BOOLEAN
    BY <1>3 DEF CompileSync
  <2>2. nextId' = 1
    BY <1>3, <2>1 DEF asked, BarInv
  <2> QED BY <1>1, <2>1, <2>2 DEF asked, BarInv, RunTabTracksCalls
<1>4. CASE mode = "worker" /\ CompileWebWorker(d)
  <2> DEFINE call == [id |-> nextId, sources |-> Only(d), retry |-> TRUE]
  <2>1. /\ requests' = requests \cup RequestsOf({call})
        /\ calls' = calls \cup {call}
        /\ nextId' = nextId + 1
        /\ runCompiling' = TRUE
    BY <1>4 DEF CompileWebWorker
  <2>2. IsFiniteSet(calls')
    BY <2>1, FS_AddElement DEF BarInv
  <2>3. \A q \in RequestsOf({call}) : q.version \in 1 .. Len(versions')
    BY <1>1 DEF RequestsOf
  <2>4. \A q \in requests' : q.version \in 1 .. Len(versions')
    BY <2>1, <2>3 DEF BarInv
  <2>5. nextId' \in Nat \ {0} /\ nextId' # 1
    BY <2>1 DEF BarInv
  <2>6. RunTabTracksCalls'
    BY <2>1 DEF RunTabTracksCalls
  <2> QED BY <1>1, <1>4, <2>1, <2>2, <2>4, <2>5, <2>6 DEF BarInv
<1> QED BY <1>2, <1>3, <1>4 DEF Compile

LEMMA AnswerBar ==
  ASSUME BarInv, NEW r \in requests, Answer(r)
  PROVE  BarInv'
<1> DEFINE retries == {Retry(c, r) : c \in Firsts}
           parsed == Finals # {} /\ versions[r.version] = "ready"
<1>1. /\ calls' = retries
      /\ requests' = (requests \ {r}) \cup RequestsOf(retries)
      /\ nextId' = nextId + Cardinality(Firsts)
      /\ runCompiling' = (retries # {} \/ (runCompiling /\ ~parsed))
      /\ UNCHANGED <<mode, versions>>
      /\ versions[r.version] # "loading"
  BY DEF Answer, MayAnswer, loading
<1>2. IsFiniteSet(Firsts)
  BY FS_Subset DEF BarInv, Firsts
<1>3. IsFiniteSet(retries)
  <2> DEFINE f == [c \in Firsts |-> Retry(c, r)]
  <2>1. f \in Surjection(Firsts, retries)
    BY DEF Surjection
  <2> HIDE DEF f, retries
  <2> QED BY <1>2, <2>1, FS_Surjection
<1>4. nextId > 1 /\ nextId' \in Nat /\ nextId' > 1
  <2>1. Cardinality(Firsts) \in Nat
    BY <1>2, FS_CardinalityType
  <2>2. nextId \in Nat /\ nextId # 0 /\ nextId # 1
    BY DEF BarInv
  <2> QED BY <1>1, <2>1, <2>2
<1>5. mode' = "worker"
  BY <1>1, <1>4 DEF BarInv
<1>6. \A q \in RequestsOf(retries) : q.version \in 1 .. Len(versions')
  <2>1. Len(versions) \in Nat \ {0}
    BY DEF BarInv
  <2> QED BY <1>1, <2>1 DEF RequestsOf
<1>7. ASSUME AllLoad
      PROVE  runCompiling' = (retries # {})
  <2>1. versions[r.version] = "ready"
    <3>1. r.version \in 1 .. Len(versions)
      BY DEF BarInv
    <3>2. versions[r.version] \in Version
      BY <3>1 DEF BarInv
    <3> QED BY <1>1, <1>7, <3>1, <3>2 DEF AllLoad, Version
  <2>2. CASE Firsts # {}
    <3>1. retries # {}
      BY <2>2
    <3> QED BY <1>1, <3>1
  <2>3. CASE Firsts = {} /\ Finals # {}
    BY <1>1, <2>1, <2>3
  <2>4. CASE Firsts = {} /\ Finals = {}
    <3>1. calls = {} /\ retries = {}
      BY <2>4 DEF Firsts, Finals
    <3>2. ~runCompiling
      BY <1>4, <1>7, <3>1 DEF BarInv, RunTabTracksCalls
    <3> QED BY <1>1, <3>1, <3>2
  <2> QED BY <2>2, <2>3, <2>4
<1>8. AllLoad' = AllLoad
  BY <1>1 DEF AllLoad
<1> HIDE DEF retries
<1>9. RunTabTracksCalls'
  BY <1>1, <1>7, <1>8 DEF RunTabTracksCalls
<1>10. runCompiling' \in BOOLEAN
  BY <1>1 DEF BarInv
<1>11. \A q \in requests' : q.version \in 1 .. Len(versions')
  BY <1>1, <1>6 DEF BarInv
<1>12. nextId' \in Nat \ {0} /\ nextId' # 1
  BY <1>4
<1> QED BY <1>1, <1>3, <1>5, <1>9, <1>10, <1>11, <1>12 DEF BarInv

\* A version that failed stays failed.
LEMMA LastVersionChanges ==
  ASSUME BarInv, NEW v \in Version, versions' = [versions EXCEPT ![Len(versions)] = v],
         versions[Len(versions)] = "loading"
  PROVE  /\ versions' \in Seq(Version)
         /\ Len(versions') = Len(versions)
         /\ AllLoad' => AllLoad
<1>1. versions \in Seq(Version) /\ Len(versions) \in Nat \ {0}
  BY DEF BarInv
<1>2. versions' \in Seq(Version) /\ Len(versions') = Len(versions)
  BY <1>1
<1>3. \A k \in 1 .. Len(versions) : k # Len(versions) => versions'[k] = versions[k]
  BY <1>1
<1> QED BY <1>2, <1>3 DEF AllLoad

\* RunTab's bar, for which no one counts, shows exactly while a call waits,
\* however many overlap, with any number of versions, as long as none has failed.
THEOREM RunTabBar == Spec => []RunTabTracksCalls
<1>1. Init => BarInv
  BY FS_EmptySet DEF Init, BarInv, RunTabTracksCalls, Version
<1>2. BarInv /\ [Next]_vars => BarInv'
  <2> SUFFICES ASSUME BarInv, [Next]_vars PROVE BarInv'
    OBVIOUS
  <2>1. CASE AnswerArrives
    BY <2>1, AnswerBar DEF AnswerArrives
  <2>2. CASE LoadCompiler
    <3>1. /\ versions' = Append(versions, "loading")
          /\ UNCHANGED <<mode, compiling>>
      BY <2>2 DEF LoadCompiler
    <3>2. /\ versions' \in Seq(Version)
          /\ versions' # <<>>
          /\ Len(versions') = Len(versions) + 1
          /\ Len(versions) \in Nat
          /\ \A k \in 1 .. Len(versions) : versions'[k] = versions[k]
      BY <3>1 DEF BarInv, Version
    <3>3. AllLoad' => AllLoad
      BY <3>2 DEF AllLoad
    <3>4. \A r \in requests' : r.version \in 1 .. Len(versions')
      BY <3>1, <3>2 DEF BarInv, compiling, asked
    <3> QED BY <3>1, <3>2, <3>3, <3>4 DEF BarInv, compiling, asked, RunTabTracksCalls
  <2>3. CASE VersionLoaded
    <3>1. PICK v \in Version : versions' = [versions EXCEPT ![Len(versions)] = v]
      BY <2>3 DEF VersionLoaded, Version
    <3>2. versions[Len(versions)] = "loading" /\ Compile(doc) /\ UNCHANGED mode
      BY <2>3 DEF VersionLoaded
    <3> QED BY <3>1, <3>2, LastVersionChanges, CompileBar
  <2>4. CASE LoadFails
    <3>1. "dead" \in Version /\ versions' = [versions EXCEPT ![Len(versions)] = "dead"]
      BY <2>4 DEF LoadFails, Version
    <3>2. versions[Len(versions)] = "loading" /\ UNCHANGED <<mode, compiling>>
      BY <2>4 DEF LoadFails
    <3>3. /\ versions' \in Seq(Version)
          /\ Len(versions') = Len(versions)
          /\ AllLoad' => AllLoad
      BY <3>1, <3>2, LastVersionChanges
    <3>4. versions' # <<>>
      BY <3>3 DEF BarInv
    <3> QED BY <3>2, <3>3, <3>4 DEF BarInv, compiling, asked, RunTabTracksCalls
  <2>5. ASSUME NEW d, Compile(d), UNCHANGED <<mode, versions>>
        PROVE  BarInv'
    BY <2>5, CompileBar DEF BarInv, AllLoad
  <2>6. CASE TimerFires \/ SaveFile \/ AskCompile
    BY <2>5, <2>6 DEF TimerFires, SaveFile, AskCompile, loading
  <2>7. ASSUME UNCHANGED <<mode, versions, compiling>>
        PROVE  BarInv'
    BY <2>7 DEF compiling, asked, BarInv, RunTabTracksCalls, AllLoad
  <2>8. CASE FilesChange \/ UNCHANGED vars
    BY <2>7, <2>8 DEF FilesChange, vars, loading
  <2>9. ASSUME NEW d \in Selections, SelectFile(d)
        PROVE  BarInv'
    BY <2>5, <2>7, <2>9 DEF SelectFile, loading
  <2> QED BY <2>1, <2>2, <2>3, <2>4, <2>6, <2>8, <2>9 DEF Next
<1>3. BarInv => RunTabTracksCalls
  BY DEF BarInv
<1> QED BY <1>1, <1>2, <1>3, PTL DEF Spec

-----------------------------------------------------------------------------
(* Compilations that do not overlap.                                           *)

\* At most one call waits, its request is the one that is out, and nothing is
\* being compiled while a version is being loaded.
OneAtATime ==
  Settled \/ \E n, k, S, b :
    /\ calls = {[id |-> n, sources |-> S, retry |-> b]}
    /\ requests = {[id |-> n, version |-> k, sources |-> S]}

SerialInv ==
  /\ OneAtATime
  /\ tabLoading \in BOOLEAN
  /\ tabLoading => Settled /\ timers = 0
  /\ versions \in Seq(Version) \ {<<>>}
  /\ versions[Len(versions)] = "loading" => tabLoading

LEMMA RequestsOfOne ==
  ASSUME NEW n, NEW S, NEW b
  PROVE  RequestsOf({[id |-> n, sources |-> S, retry |-> b]})
           = {[id |-> n, version |-> Len(versions), sources |-> S]}
BY DEF RequestsOf

LEMMA OneAtATimeIntro ==
  ASSUME NEW n, NEW k, NEW S, NEW b,
         calls' = {[id |-> n, sources |-> S, retry |-> b]},
         requests' = {[id |-> n, version |-> k, sources |-> S]}
  PROVE  OneAtATime'
BY DEF OneAtATime

\* A call made while nothing is being compiled is the only one.
LEMMA CompileAlone ==
  ASSUME Settled, NEW d, Compile(d)
  PROVE  OneAtATime' /\ calls \subseteq calls'
<1>1. CASE UNCHANGED asked
  BY <1>1 DEF asked, OneAtATime, Settled
<1>2. CASE CompileWebWorker(d)
  <2> DEFINE call == [id |-> nextId, sources |-> Only(d), retry |-> TRUE]
  <2>1. /\ requests' = RequestsOf({call})
        /\ calls' = {call}
    BY <1>2 DEF CompileWebWorker, Settled
  <2>2. RequestsOf({call}) = {[id |-> nextId, version |-> Len(versions), sources |-> Only(d)]}
    BY RequestsOfOne
  <2>3. OneAtATime'
    BY <2>1, <2>2, OneAtATimeIntro
  <2> QED BY <2>1, <2>3 DEF Settled
<1> QED BY <1>1, <1>2, CompileCases

\* The answer to the only request leaves at most its call's retry.
LEMMA AnswerAlone ==
  ASSUME OneAtATime, NEW r \in requests, Answer(r)
  PROVE  OneAtATime'
<1>1. PICK n, k, S, b : /\ calls = {[id |-> n, sources |-> S, retry |-> b]}
                        /\ requests = {[id |-> n, version |-> k, sources |-> S]}
  BY DEF OneAtATime, Settled
<1> DEFINE c == [id |-> n, sources |-> S, retry |-> b]
           retries == {Retry(d, r) : d \in Firsts}
<1>2. /\ calls' = retries
      /\ requests' = (requests \ {r}) \cup RequestsOf(retries)
  BY DEF Answer
<1>3. requests' = RequestsOf(retries)
  BY <1>1, <1>2
<1>4. CASE Firsts = {}
  <2>1. retries = {} /\ RequestsOf({}) = {}
    BY <1>4 DEF RequestsOf
  <2> HIDE DEF retries
  <2> QED BY <1>2, <1>3, <2>1 DEF OneAtATime, Settled
<1>5. CASE Firsts = {c}
  <2>1. retries = {Retry(c, r)}
    BY <1>5
  <2>2. PICK m, T : Retry(c, r) = [id |-> m, sources |-> T, retry |-> FALSE]
    BY DEF Retry
  <2>3. RequestsOf({[id |-> m, sources |-> T, retry |-> FALSE]})
          = {[id |-> m, version |-> Len(versions), sources |-> T]}
    BY RequestsOfOne
  <2>4. /\ calls' = {[id |-> m, sources |-> T, retry |-> FALSE]}
        /\ requests' = {[id |-> m, version |-> Len(versions), sources |-> T]}
    BY <1>2, <1>3, <2>1, <2>2, <2>3
  <2> QED BY <2>4, OneAtATimeIntro
<1>6. Firsts \in {{}, {c}}
  BY <1>1 DEF Firsts
<1> QED BY <1>4, <1>5, <1>6

LEMMA SerialInit == Init => SerialInv
BY DEF Init, SerialInv, OneAtATime, Settled, Version

\* The result a call receives is the answer to its own request.
Own ==
  \A c \in calls \ calls' : \A r \in requests \ requests' : r.id = c.id /\ r.sources = c.sources

LEMMA SerialStep ==
  ASSUME ~Overlap, SerialInv, [Next]_vars
  PROVE  SerialInv' /\ [Own]_vars
<1> USE DEF Own
<1>1. ASSUME UNCHANGED compiling
      PROVE  OneAtATime' /\ Own
  <2>1. requests' = requests /\ calls' = calls
    BY <1>1 DEF compiling, asked
  <2>2. CASE Settled
    BY <2>1, <2>2 DEF OneAtATime, Settled
  <2>3. CASE ~Settled
    <3>1. PICK n, k, S, b : /\ calls = {[id |-> n, sources |-> S, retry |-> b]}
                            /\ requests = {[id |-> n, version |-> k, sources |-> S]}
      BY <2>3 DEF SerialInv, OneAtATime
    <3>2. OneAtATime'
      BY <2>1, <3>1, OneAtATimeIntro
    <3> QED BY <2>1, <3>2
  <2> QED BY <2>2, <2>3
<1>2. ASSUME NEW r \in requests, Answer(r)
      PROVE  SerialInv' /\ Own
  <2>1. OneAtATime'
    BY <1>2, AnswerAlone DEF SerialInv
  <2>2. ~tabLoading
    BY DEF SerialInv, Settled
  <2>3. Own
    BY DEF SerialInv, OneAtATime, Settled
  <2> QED BY <1>2, <2>1, <2>2, <2>3 DEF Answer, loading, SerialInv
<1>3. CASE VersionLoaded
  <2>1. Settled
    BY <1>3 DEF VersionLoaded, SerialInv
  <2>2. OneAtATime' /\ Own
    BY <1>3, <2>1, CompileAlone DEF VersionLoaded
  <2>3. /\ versions' \in Seq(Version) \ {<<>>}
        /\ versions'[Len(versions')] # "loading"
    BY <1>3 DEF VersionLoaded, SerialInv, Version
  <2> QED BY <1>3, <2>2, <2>3 DEF VersionLoaded, SerialInv
<1>4. CASE TimerFires
  <2>1. Settled /\ ~tabLoading
    BY <1>4 DEF TimerFires, SerialInv
  <2>2. OneAtATime' /\ Own
    BY <1>4, <2>1, CompileAlone DEF TimerFires
  <2> QED BY <1>4, <2>1, <2>2 DEF TimerFires, SerialInv
<1>5. CASE SaveFile \/ AskCompile
  BY <1>5, CompileAlone DEF SaveFile, AskCompile, MayAsk, SerialInv, loading
<1>6. ASSUME NEW d \in Selections, SelectFile(d)
      PROVE  SerialInv' /\ Own
  <2>1. UNCHANGED loading
    BY <1>6 DEF SelectFile
  <2>2. CASE UNCHANGED compiling
    BY <1>1, <2>1, <2>2 DEF SerialInv, Settled, loading, compiling, asked
  <2>3. CASE MayAsk /\ Compile(d)
    BY <2>1, <2>3, CompileAlone DEF MayAsk, SerialInv, loading
  <2> QED BY <1>6, <2>2, <2>3 DEF SelectFile
<1>7. CASE LoadCompiler
  <2>1. /\ Settled /\ timers = 0
        /\ versions' = Append(versions, "loading")
        /\ tabLoading' = TRUE
        /\ UNCHANGED <<timers, compiling>>
    BY <1>7 DEF LoadCompiler
  <2>2. versions' \in Seq(Version) \ {<<>>}
    BY <2>1 DEF SerialInv, Version
  <2> QED BY <1>1, <2>1, <2>2 DEF SerialInv, Settled, compiling, asked
<1>8. CASE LoadFails
  <2>1. versions' \in Seq(Version) \ {<<>>}
    BY <1>8 DEF LoadFails, SerialInv, Version
  <2>2. tabLoading /\ UNCHANGED <<tabLoading, timers, compiling>>
    BY <1>8 DEF LoadFails, SerialInv
  <2> QED BY <1>1, <2>1, <2>2 DEF SerialInv, Settled, compiling, asked
<1>9. CASE FilesChange \/ UNCHANGED vars
  BY <1>1, <1>9 DEF FilesChange, vars, loading, compiling, asked, SerialInv, Settled
<1> QED BY <1>2, <1>3, <1>4, <1>5, <1>6, <1>7, <1>8, <1>9 DEF Next, AnswerArrives

\* When nobody asks for a compilation while one is under way, the answer a call
\* receives is that to its own request, although no answer names its request.
THEOREM SerialAnswers == ~Overlap => (Spec => AnsweredForItsFiles)
<1> SUFFICES ASSUME ~Overlap PROVE Spec => [][Own]_vars
  BY DEF AnsweredForItsFiles, Own
<1>1. SerialInv /\ [Next]_vars => SerialInv' /\ [Own]_vars
  BY SerialStep
<1> QED BY SerialInit, <1>1, PTL DEF Spec

-----------------------------------------------------------------------------
(* One compilation at a time, with versions that load: the steps of Compilation. *)

\* Nobody asks while a compilation is under way, and every version loads.
Serially == ~Overlap /\ ~LoadsMayFail /\ Modes \subseteq {"worker", "page"}

\* The operators on sources mean the same in both specifications.
LEMMA SameData ==
  /\ InTurn!Docs = Docs
  /\ InTurn!Sources = Sources
  /\ \A d : InTurn!Only(d) = Only(d)
  /\ \A S : InTurn!MissingInputs(S) = MissingInputs(S)
  /\ \A S, m, g : InTurn!GatherImports(S, m, g) = GatherImports(S, m, g)
BY DEF InTurn!Docs, Docs, InTurn!Sources, Sources, InTurn!Only, Only,
       InTurn!MissingInputs, MissingInputs, InTurn!ImportedBy, ImportedBy,
       InTurn!GatherImports, GatherImports, InTurn!With, With, InTurn!LedBy, LedBy

\* What of one call there is left to do.
LEMMA JobOfOne ==
  ASSUME NEW n, NEW S, NEW b \in BOOLEAN
  PROVE  {[sources |-> c.sources, complete |-> ~c.retry] : c \in {[id |-> n, sources |-> S, retry |-> b]}}
           = {[sources |-> S, complete |-> ~b]}
<1>1. CASE b = TRUE
  BY <1>1
<1>2. CASE b = FALSE
  BY <1>2
<1> QED BY <1>1, <1>2

-----------------------------------------------------------------------------
(* The invariant: the bar shows while a call waits, and whoever is asked to     *)
(* compile has a compiler.                                                      *)

\* What compile() and the answers keep.
TurnCore ==
  /\ tabCompiling \in BOOLEAN
  /\ tabCompiling <=> calls # {}
  /\ \A c \in calls : c.retry \in BOOLEAN
  /\ mode # "worker" => Settled
  /\ \A r \in requests : versions[r.version] = "ready" /\ r.version \in 1 .. Len(versions)

TurnInv ==
  /\ SerialInv
  /\ TurnCore
  /\ doc \in Selections \cup {None}
  /\ library \in Libraries
  /\ mode \in {"worker", "page"}
  /\ AllLoad

LEMMA TurnStart == Serially /\ Init => TurnInv /\ InTurn!Init
<1> SUFFICES ASSUME Serially, Init PROVE TurnInv /\ InTurn!Init
  OBVIOUS
<1>1. SerialInv
  BY SerialInit
<1>2. TurnCore
  BY DEF Init, TurnCore, Settled
<1>3. AllLoad
  BY DEF Init, AllLoad
<1>4. TurnInv
  BY <1>1, <1>2, <1>3 DEF Init, TurnInv, Serially
<1>5. Jobs = {}
  BY DEF Init, Jobs
<1>6. library \in Sources
  BY CompilerAssumption DEF Init
<1>7. latest.errors = <<>> /\ tabCompiling = FALSE
  BY DEF Init
<1>8. InTurn!Init
  BY <1>5, <1>6, <1>7, SameData DEF InTurn!Init
<1> QED BY <1>4, <1>8

\* compile(), with nothing under way and a compiler to ask, asks or is done at
\* once, or has nothing to compile.
LEMMA CompileTurn ==
  ASSUME TurnInv, Settled, NEW d \in Selections \cup {None}, Compile(d),
         library' \in Libraries, mode' = mode,
         Len(versions') = Len(versions),
         versions'[Len(versions)] = "ready" \/ mode # "worker",
         \E k \in 1 .. Len(versions) : versions'[k] = "ready"
  PROVE  TurnCore' /\ [InTurn!Next]_(InTurn!vars)
<1>1. /\ calls = {} /\ requests = {} /\ tabCompiling = FALSE
      /\ Len(versions) \in Nat \ {0} /\ Jobs = {}
  BY DEF Settled, TurnInv, TurnCore, SerialInv, Jobs
<1>2. library' \in Sources
  BY CompilerAssumption
<1>3. CASE d = None \/ UNCHANGED compiling
  <2>1. UNCHANGED compiling
    BY <1>3, CompilerAssumption DEF Compile
  <2>2. TurnCore'
    BY <1>1, <2>1 DEF compiling, asked, TurnCore, Settled
  <2>3. UNCHANGED <<Jobs, tabCompiling, latest>>
    BY <2>1 DEF compiling, asked, Jobs
  <2>4. InTurn!FilesChange
    BY <1>2, <2>3, SameData DEF InTurn!FilesChange
  <2> QED BY <2>2, <2>4 DEF InTurn!Next
<1>4. CASE d # None /\ mode = "worker" /\ CompileWebWorker(d)
  <2> DEFINE call == [id |-> nextId, sources |-> Only(d), retry |-> TRUE]
  <2>1. /\ calls' = {call}
        /\ requests' = RequestsOf({call})
        /\ tabCompiling' = TRUE
        /\ latest' = latest
    BY <1>1, <1>4 DEF CompileWebWorker
  <2>2. requests' = {[id |-> nextId, version |-> Len(versions), sources |-> Only(d)]}
    BY <2>1, RequestsOfOne
  <2>3. TurnCore'
    <3>1. versions'[Len(versions)] = "ready" /\ Len(versions) \in 1 .. Len(versions')
      BY <1>1, <1>4
    <3>2. \A r \in requests' : versions'[r.version] = "ready" /\ r.version \in 1 .. Len(versions')
      BY <2>2, <3>1
    <3>3. calls' # {} /\ \A c \in calls' : c.retry \in BOOLEAN
      BY <2>1
    <3> QED BY <1>4, <2>1, <3>2, <3>3 DEF TurnCore
  <2>4. Jobs' = {[sources |-> Only(d), complete |-> FALSE]}
    <3>1. Jobs' = {[sources |-> Only(d), complete |-> ~TRUE]}
      BY <2>1, JobOfOne, Zenon DEF Jobs
    <3> QED BY <3>1
  <2>5. d \in Docs
    BY <1>4, CompilerAssumption
  <2>6. InTurn!Ask(d)
    BY <1>1, <1>2, <2>1, <2>4, SameData DEF InTurn!Ask
  <2> QED BY <2>3, <2>5, <2>6, SameData DEF InTurn!Next
<1>5. CASE d # None /\ mode # "worker" /\ CompileSync(d)
  <2>1. /\ latest' = Parsed(GatherImports(Only(d), MissingInputs(Only(d)), library'))
        /\ tabCompiling' = FALSE
        /\ UNCHANGED asked
    BY <1>5 DEF CompileSync
  <2>2. TurnCore'
    BY <1>1, <2>1 DEF TurnCore, Settled, asked
  <2>3. Jobs' = Jobs
    BY <2>1 DEF Jobs, asked
  <2>4. latest'.errors = GatherImports(Only(d), MissingInputs(Only(d)), library')
    BY <2>1 DEF Parsed
  <2>5. InTurn!CompileAtOnce(d)
    BY <1>1, <1>2, <2>1, <2>3, <2>4, SameData DEF InTurn!CompileAtOnce
  <2>6. d \in Docs
    BY <1>5, CompilerAssumption
  <2> QED BY <2>2, <2>5, <2>6, SameData DEF InTurn!Next
<1> QED BY <1>3, <1>4, <1>5 DEF Compile

\* The answer to the one call looks its imports up, or finishes it.
LEMMA AnswerTurn ==
  ASSUME TurnInv, NEW r \in requests, Answer(r)
  PROVE  TurnCore' /\ [InTurn!Next]_(InTurn!vars)
<1>1. PICK n, k, S, b : /\ calls = {[id |-> n, sources |-> S, retry |-> b]}
                        /\ requests = {[id |-> n, version |-> k, sources |-> S]}
  BY DEF TurnInv, SerialInv, OneAtATime, Settled
<1>2. b \in BOOLEAN
  BY <1>1 DEF TurnInv, TurnCore
<1> DEFINE c == [id |-> n, sources |-> S, retry |-> b]
           retries == {Retry(q, r) : q \in Firsts}
           parsed == Finals # {} /\ versions[r.version] = "ready"
<1>3. /\ calls' = retries
      /\ requests' = (requests \ {r}) \cup RequestsOf(retries)
      /\ latest' = IF parsed THEN Parsed(r.sources) ELSE latest
      /\ tabCompiling' = (tabCompiling /\ ~parsed)
      /\ UNCHANGED <<files, loading>>
  BY DEF Answer
<1>4. /\ r.sources = S /\ versions[r.version] = "ready"
      /\ requests' = RequestsOf(retries)
      /\ mode' = mode /\ mode = "worker" /\ versions' = versions /\ library' = library
      /\ tabCompiling = TRUE
  BY <1>1, <1>3 DEF TurnInv, TurnCore, Settled, files, loading
<1>5. Jobs = {[sources |-> S, complete |-> ~b]}
  BY <1>1, <1>2, JobOfOne DEF Jobs
<1>6. versions[Len(versions)] = "ready" /\ Len(versions) \in 1 .. Len(versions)
  <2>1. ~tabLoading /\ versions \in Seq(Version) /\ Len(versions) \in Nat \ {0}
    BY DEF TurnInv, SerialInv, Settled
  <2>2. versions[Len(versions)] \in Version
    BY <2>1
  <2> QED BY <2>1, <2>2 DEF TurnInv, SerialInv, AllLoad, Version
<1>7. CASE b = TRUE
  <2>1. Firsts = {c} /\ Finals = {}
    <3>1. calls = {c} /\ c.retry = TRUE
      BY <1>1, <1>7
    <3> QED BY <3>1 DEF Firsts, Finals
  <2>2. c = Oldest(calls)
    BY <1>1 DEF Oldest
  <2> DEFINE G == GatherImports(S, MissingInputs(S), library)
  <2>3. /\ Retry(c, r).sources = G /\ Retry(c, r).retry = FALSE
    BY <1>4, <2>2 DEF Retry
  <2>4. calls' = {Retry(c, r)}
    BY <1>3, <2>1
  <2>5. requests' = {[id |-> Retry(c, r).id, version |-> Len(versions), sources |-> Retry(c, r).sources]}
    BY <1>4, <2>1 DEF RequestsOf
  <2>6. tabCompiling' = TRUE /\ latest' = latest
    BY <1>3, <1>4, <2>1
  <2>7. TurnCore'
    <3>1. calls' # {} /\ \A q \in calls' : q.retry \in BOOLEAN
      BY <2>3, <2>4
    <3>2. \A q \in requests' : versions'[q.version] = "ready" /\ q.version \in 1 .. Len(versions')
      BY <1>4, <1>6, <2>5
    <3> QED BY <1>4, <2>6, <3>1, <3>2 DEF TurnCore
  <2>8. Jobs' = {[sources |-> G, complete |-> TRUE]}
    BY <2>3, <2>4 DEF Jobs
  <2>9. InTurn!Gather
    BY <1>4, <1>5, <1>7, <2>6, <2>8, SameData DEF InTurn!Gather
  <2> QED BY <2>7, <2>9 DEF InTurn!Next
<1>8. CASE b = FALSE
  <2>1. Firsts = {} /\ Finals = {c}
    <3>1. calls = {c} /\ c.retry = FALSE
      BY <1>1, <1>8
    <3> QED BY <3>1 DEF Firsts, Finals
  <2>2. calls' = {} /\ requests' = {}
    BY <1>3, <1>4, <2>1 DEF RequestsOf
  <2>3. tabCompiling' = FALSE /\ latest' = Parsed(S)
    BY <1>3, <1>4, <2>1
  <2>4. latest'.errors = S
    BY <2>3 DEF Parsed
  <2>5. TurnCore'
    BY <1>4, <2>2, <2>3 DEF TurnCore, Settled
  <2>6. Jobs' = {}
    BY <2>2 DEF Jobs
  <2>7. InTurn!Finish
    BY <1>4, <1>5, <1>8, <2>3, <2>4, <2>6 DEF InTurn!Finish
  <2> QED BY <2>5, <2>7 DEF InTurn!Next
<1> QED BY <1>2, <1>7, <1>8

\* The version that a tab which is not loading one has, it has for good.
LEMMA LoadedIsReady ==
  ASSUME TurnInv, ~tabLoading
  PROVE  /\ Len(versions) \in 1 .. Len(versions)
         /\ versions[Len(versions)] = "ready"
<1>1. versions \in Seq(Version) /\ Len(versions) \in Nat \ {0}
  BY DEF TurnInv, SerialInv
<1>2. versions[Len(versions)] \in Version
  BY <1>1
<1> QED BY <1>1, <1>2 DEF TurnInv, SerialInv, AllLoad, Version

\* Every step of the compilation is one of Compilation, or changes nothing of it.
LEMMA TurnStep ==
  ASSUME Serially, TurnInv, [Next]_vars
  PROVE  TurnInv' /\ [InTurn!Next]_(InTurn!vars)
<1>1. SerialInv'
  BY SerialStep DEF Serially, TurnInv
<1>2. ASSUME ~tabLoading
      PROVE  /\ Len(versions) \in 1 .. Len(versions)
             /\ versions[Len(versions)] = "ready"
  BY <1>2, LoadedIsReady
<1>3. ASSUME NEW d \in Selections \cup {None}, Compile(d), Settled, ~tabLoading,
             UNCHANGED <<mode, versions>>, doc' \in Selections \cup {None},
             library' \in Libraries
      PROVE  TurnInv' /\ [InTurn!Next]_(InTurn!vars)
  <2>1. TurnCore' /\ [InTurn!Next]_(InTurn!vars)
    BY <1>2, <1>3, CompileTurn
  <2> QED BY <1>1, <1>3, <2>1 DEF TurnInv, AllLoad
<1>4. ASSUME UNCHANGED <<mode, compiling>>,
             AllLoad', doc' \in Selections \cup {None}, library' \in Libraries,
             \A k \in 1 .. Len(versions) :
               k \in 1 .. Len(versions') /\ (versions[k] = "ready" => versions'[k] = "ready")
      PROVE  TurnInv' /\ [InTurn!Next]_(InTurn!vars)
  <2>1. TurnCore'
    BY <1>4 DEF compiling, asked, TurnInv, TurnCore, Settled
  <2>2. UNCHANGED <<Jobs, tabCompiling, latest>>
    BY <1>4 DEF compiling, asked, Jobs
  <2>3. library' \in InTurn!Sources
    BY <1>4, CompilerAssumption, SameData
  <2>4. InTurn!FilesChange
    BY <2>2, <2>3 DEF InTurn!FilesChange
  <2> QED BY <1>1, <1>4, <2>1, <2>4 DEF TurnInv, InTurn!Next
<1>5. CASE AnswerArrives
  <2>1. PICK r \in requests : Answer(r)
    BY <1>5 DEF AnswerArrives
  <2>2. TurnCore' /\ [InTurn!Next]_(InTurn!vars)
    BY <2>1, AnswerTurn
  <2>3. UNCHANGED <<files, loading>>
    BY <2>1 DEF Answer
  <2> QED BY <1>1, <2>2, <2>3 DEF files, loading, TurnInv, AllLoad
<1>6. CASE LoadCompiler
  <2>1. /\ versions' = Append(versions, "loading")
        /\ UNCHANGED <<files, mode, compiling>>
    BY <1>6 DEF LoadCompiler
  <2>2. /\ Len(versions) \in Nat /\ Len(versions') = Len(versions) + 1
        /\ \A k \in 1 .. Len(versions) : versions'[k] = versions[k]
        /\ versions'[Len(versions')] = "loading"
    BY <2>1 DEF TurnInv, SerialInv, Version
  <2>3. AllLoad'
    BY <2>2 DEF TurnInv, AllLoad
  <2>4. \A k \in 1 .. Len(versions) : k \in 1 .. Len(versions') /\ versions'[k] = versions[k]
    BY <2>2
  <2> QED BY <1>4, <2>1, <2>3, <2>4 DEF files, TurnInv
<1>7. CASE VersionLoaded
  <2> DEFINE last == Len(versions)
  <2>1. /\ versions[last] = "loading" /\ UNCHANGED <<files, mode>> /\ Compile(doc)
        /\ versions' = [versions EXCEPT ![last] = "ready"]
    BY <1>7 DEF VersionLoaded, TurnInv
  <2>2. Settled /\ versions \in Seq(Version) /\ last \in Nat \ {0}
    BY <2>1 DEF TurnInv, SerialInv
  <2>3. /\ Len(versions') = last /\ versions'[last] = "ready" /\ last \in 1 .. last
        /\ \A k \in 1 .. last : k # last => versions'[k] = versions[k]
    BY <2>1, <2>2
  <2>4. AllLoad'
    BY <2>3 DEF TurnInv, AllLoad
  <2>5. doc \in Selections \cup {None} /\ library' \in Libraries
    BY <2>1 DEF files, TurnInv
  <2>6. TurnCore' /\ [InTurn!Next]_(InTurn!vars)
    BY <2>1, <2>2, <2>3, <2>5, CompileTurn
  <2> QED BY <1>1, <2>1, <2>4, <2>6 DEF files, TurnInv
<1>8. CASE LoadFails
  BY <1>8 DEF LoadFails, Serially
<1>9. CASE TimerFires
  <2>1. Settled /\ ~tabLoading
    BY <1>9 DEF TimerFires, Serially, TurnInv, SerialInv
  <2> QED BY <1>3, <1>9, <2>1 DEF TimerFires, files, TurnInv
<1>10. CASE SaveFile \/ AskCompile
  <2>1. Settled /\ ~tabLoading
    BY <1>10 DEF SaveFile, AskCompile, MayAsk, Serially
  <2> QED BY <1>3, <1>10, <2>1 DEF SaveFile, AskCompile, files, loading, TurnInv
<1>11. ASSUME UNCHANGED <<loading, compiling>>, doc' \in Selections \cup {None}, library' \in Libraries
       PROVE  TurnInv' /\ [InTurn!Next]_(InTurn!vars)
  <2>1. UNCHANGED <<mode, versions>>
    BY <1>11 DEF loading
  <2>2. AllLoad'
    BY <2>1 DEF TurnInv, AllLoad
  <2> QED BY <1>4, <1>11, <2>1, <2>2
<1>12. CASE FilesChange \/ UNCHANGED vars
  BY <1>11, <1>12 DEF FilesChange, vars, files, TurnInv
<1>13. ASSUME NEW d \in Selections, SelectFile(d)
       PROVE  TurnInv' /\ [InTurn!Next]_(InTurn!vars)
  <2>1. doc' = d /\ library' = library /\ UNCHANGED loading
    BY <1>13 DEF SelectFile
  <2>2. CASE UNCHANGED compiling
    BY <1>11, <2>1, <2>2 DEF TurnInv
  <2>3. CASE MayAsk /\ Compile(d)
    <3>1. Settled /\ ~tabLoading
      BY <2>3 DEF MayAsk, Serially
    <3> QED BY <1>3, <2>1, <2>3, <3>1 DEF loading, TurnInv
  <2> QED BY <1>13, <2>2, <2>3 DEF SelectFile
<1> QED
  BY <1>5, <1>6, <1>7, <1>8, <1>9, <1>10, <1>12, <1>13 DEF Next

\* Compilations asked for one at a time, with versions that load, take the steps
\* that Compilation promises and no other, for any files, imports and versions:
\* what is shown while the bar is off is the result of the text last asked about,
\* with the imports that were there when they were looked up.
THEOREM CompilesOneByOne ==
  Serially => (Spec => InTurn!Init /\ [][InTurn!Next]_(InTurn!vars))
<1> SUFFICES ASSUME Serially PROVE Spec => InTurn!Init /\ [][InTurn!Next]_(InTurn!vars)
  OBVIOUS
<1>1. Init => TurnInv /\ InTurn!Init
  BY TurnStart
<1>2. TurnInv /\ [Next]_vars => TurnInv' /\ [InTurn!Next]_(InTurn!vars)
  BY TurnStep
<1> QED BY <1>1, <1>2, PTL DEF Spec

-----------------------------------------------------------------------------
(* What is compiled is what was asked about.                                   *)

\* The text of the file d is, under its name, among the sources S.
Holds(d, S) == d.name \in DOMAIN S /\ S[d.name] = d.text

\* Whoever is asked to compile has nothing else under way, and a compiler.
LEMMA AskedWhenReady ==
  ASSUME Serially, TurnInv,
         NEW d, (subscribed /\ SelectFile(d)) \/ SaveFile \/ AskCompile \/ TimerFires \/ VersionLoaded
  PROVE  Settled /\ \E k \in 1 .. Len(versions) : versions'[k] = "ready"
<1>1. ASSUME ~tabLoading, versions' = versions
      PROVE  \E k \in 1 .. Len(versions) : versions'[k] = "ready"
  BY <1>1, LoadedIsReady
<1>2. CASE (subscribed /\ SelectFile(d)) \/ SaveFile \/ AskCompile
  <2>1. Settled /\ ~tabLoading /\ versions' = versions
    BY <1>2 DEF SelectFile, SaveFile, AskCompile, MayAsk, Serially, loading
  <2> QED BY <1>1, <2>1
<1>3. CASE TimerFires
  <2>1. Settled /\ ~tabLoading /\ versions' = versions
    BY <1>3 DEF TimerFires, Serially, TurnInv, SerialInv
  <2> QED BY <1>1, <2>1
<1>4. CASE VersionLoaded
  <2> DEFINE last == Len(versions)
  <2>1. /\ versions[last] = "loading"
        /\ versions' = [versions EXCEPT ![last] = "ready"]
    BY <1>4 DEF VersionLoaded, TurnInv
  <2>2. Settled /\ versions \in Seq(Version) /\ last \in Nat \ {0}
    BY <2>1 DEF TurnInv, SerialInv
  <2>3. versions'[last] = "ready" /\ last \in 1 .. last
    BY <2>1, <2>2
  <2> QED BY <2>2, <2>3
<1> QED BY <1>2, <1>3, <1>4

\* A worker is sent a new request, for the file as it is.
LEMMA WorkerAsked ==
  ASSUME TypeInv, NEW d, CompileWebWorker(d)
  PROVE  \E c \in calls' \ calls : c.sources = Only(d)
<1> DEFINE call == [id |-> nextId, sources |-> Only(d), retry |-> TRUE]
<1>1. call \in calls' /\ call.sources = Only(d) /\ call.id = nextId
  BY DEF CompileWebWorker
<1>2. call \notin calls
  BY <1>1 DEF TypeInv, TypeOK, Numbered
<1> QED BY <1>1, <1>2

LEMMA CompiledAtOnce ==
  ASSUME NEW d \in Docs, CompileSync(d), library' \in Sources,
         \E k \in 1 .. Len(versions) : versions'[k] = "ready"
  PROVE  Holds(d, latest'.errors)
<1> DEFINE G == GatherImports(Only(d), MissingInputs(Only(d)), library')
<1>1. latest' = Parsed(G)
  BY DEF CompileSync
<1>2. latest'.errors = G
  BY <1>1 DEF Parsed
<1>3. Holds(d, G)
  BY OnlySources, GatherSources DEF Holds
<1> HIDE DEF G
<1> QED BY <1>2, <1>3

LEMMA CompileHolds ==
  ASSUME Settled, NEW d \in Docs, Compile(d), library' \in Sources,
         \E k \in 1 .. Len(versions) : versions'[k] = "ready"
  PROVE  /\ \A c \in calls' : Holds(d, c.sources)
         /\ Settled' => Holds(d, latest'.errors)
<1>1. calls = {} /\ d # None
  BY CompilerAssumption DEF Settled
<1>2. Only(d) \in Sources /\ Holds(d, Only(d))
  BY OnlySources DEF Holds
<1>3. CASE mode = "worker" /\ CompileWebWorker(d)
  <2> DEFINE call == [id |-> nextId, sources |-> Only(d), retry |-> TRUE]
  <2>1. calls' = {call} /\ call.sources = Only(d)
    BY <1>1, <1>3 DEF CompileWebWorker
  <2> HIDE DEF call
  <2> QED BY <1>2, <2>1 DEF Settled
<1>4. CASE mode # "worker" /\ CompileSync(d)
  BY <1>1, <1>4, CompiledAtOnce DEF CompileSync, asked
<1> QED BY <1>1, <1>3, <1>4 DEF Compile

\* The second round, and the result, are of the text that the call was given.
LEMMA AnswerHolds ==
  ASSUME TypeInv, TurnInv, NEW r \in requests, Answer(r),
         NEW d, \A c \in calls : Holds(d, c.sources)
  PROVE  /\ \A c \in calls' : Holds(d, c.sources)
         /\ Settled' => Holds(d, latest'.errors)
<1> DEFINE retries == {Retry(c, r) : c \in Firsts}
           parsed == Finals # {} /\ versions[r.version] = "ready"
<1>1. /\ calls' = retries
      /\ latest' = IF parsed THEN Parsed(r.sources) ELSE latest
  BY DEF Answer
<1>2. \A c \in calls : Holds(d, Retry(c, r).sources)
  <2> SUFFICES ASSUME NEW c \in calls PROVE Holds(d, Retry(c, r).sources)
    OBVIOUS
  <2>1. c.sources \in Sources /\ library \in Sources
    BY CompilerAssumption DEF TypeInv, TypeOK, Call
  <2>2. PICK missing : Retry(c, r).sources = GatherImports(c.sources, missing, library)
    BY DEF Retry
  <2> QED BY <2>1, <2>2, GatherSources DEF Holds
<1>3. \A c \in calls' : Holds(d, c.sources)
  BY <1>1, <1>2 DEF Firsts
<1>4. ASSUME Settled' PROVE Holds(d, latest'.errors)
  <2>1. Firsts = {}
    BY <1>1, <1>4 DEF Settled
  <2>2. PICK n, k, S, b : /\ calls = {[id |-> n, sources |-> S, retry |-> b]}
                          /\ requests = {[id |-> n, version |-> k, sources |-> S]}
    BY DEF TurnInv, SerialInv, OneAtATime, Settled
  <2>3. PICK c \in calls : c.sources = r.sources
    BY <2>2
  <2>4. parsed
    <3>1. c \in Finals
      BY <2>1 DEF Firsts, Finals
    <3>2. versions[r.version] = "ready"
      BY DEF TurnInv, TurnCore
    <3> QED BY <3>1, <3>2
  <2>5. latest'.errors = r.sources
    BY <1>1, <2>4 DEF Parsed
  <2> QED BY <2>3, <2>5
<1> QED BY <1>3, <1>4
=============================================================================
