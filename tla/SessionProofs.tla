---------------------------- MODULE SessionProofs ---------------------------
(* Proofs about Session and the modules it is composed of, for any programs *)
(* on both sides.                                                           *)
EXTENDS Session, FiniteSetTheorems, SequenceTheorems, TLAPS

-----------------------------------------------------------------------------
(* The registry (FeatureManager).                                           *)

\* A new handler has the mark its function has.
LEMMA WrapKeepsMarks ==
  ASSUME RegistryInv, NEW f \in program.funs, program' = program,
         Handlers' = Handlers \cup {WrapWithServer(f)}, UNCHANGED <<marked, decorated>>
  PROVE  MarksFollow'
<1> DEFINE h == WrapWithServer(f)
<1>1. /\ h \in [fun : program.funs, thread : BOOLEAN] /\ h.fun = f
      /\ h.thread <=> f \in ServerFuns /\ f \in marked
  BY DEF WrapWithServer, Handler
<1>2. Handlers' = Handlers \cup {h}
  OBVIOUS
<1> HIDE DEF h
<1>3. ServerFuns' = ServerFuns
  BY DEF ServerFuns
<1>4. marked' \subseteq decorated'
  BY DEF RegistryInv, MarksFollow
<1>5. ASSUME NEW k \in Handlers'
      PROVE  /\ k \in [fun : program'.funs, thread : BOOLEAN]
             /\ k.thread => k.fun \in decorated'
             /\ k.fun \in marked' \cap ServerFuns' => k.thread
  BY <1>1, <1>2, <1>3 DEF RegistryInv, MarksFollow
<1>6. ASSUME NEW g \in decorated'
      PROVE  \/ g \in marked'
             \/ g \in ServerFuns' /\ \E k \in Handlers' : k.fun = g /\ k.thread
  BY <1>1, <1>2, <1>3 DEF RegistryInv, MarksFollow
<1> QED
  BY <1>4, <1>5, <1>6 DEF MarksFollow

\* The feature decorator keeps the invariant, also when the options are refused.
LEMMA FeatureKeeps ==
  ASSUME RegistryInv, NEW f \in program.funs, NEW name, NEW opts,
         feature(f, name, opts), program' = program
  PROVE  RegistryInv'
<1> DEFINE h == WrapWithServer(f)
<1>1. /\ name \notin DOMAIN features /\ features' = Put(features, name, h)
      /\ attrs' = [attrs EXCEPT ![f] = <<"feature", name>>]
      /\ UNCHANGED <<commands, marked, decorated>>
  BY DEF feature
<1>2. h.fun = f
  BY DEF WrapWithServer, Handler
<1>m. Handlers' = Handlers \cup {h} => MarksFollow'
  BY <1>1, WrapKeepsMarks
<1> HIDE DEF h
<1>3. /\ DOMAIN features' = DOMAIN features \cup {name}
      /\ features'[name] = h
      /\ \A n \in DOMAIN features : features'[n] = features[n]
      /\ Range(features') = Range(features) \cup {h}
  BY <1>1 DEF Put, Range
<1>4. Handlers' = Handlers \cup {h}
  BY <1>1, <1>3 DEF Handlers
<1>5. IsFiniteSet(DOMAIN features') /\ IsFiniteSet(DOMAIN commands')
  BY <1>1, <1>3, FS_AddElement DEF RegistryInv
<1>6. DOMAIN attrs' = program'.funs
  BY <1>1 DEF RegistryInv
<1>7. AttributesLead'
  <2> SUFFICES ASSUME NEW g \in program.funs
               PROVE  \/ attrs'[g] = Unregistered /\ \A k \in Handlers' : k.fun # g
                      \/ \E n \in DOMAIN features' : attrs'[g] = <<"feature", n>>
                                                       /\ features'[n].fun = g
                      \/ \E n \in DOMAIN commands' : attrs'[g] = <<"command", n>>
                                                       /\ commands'[n].fun = g
    BY DEF AttributesLead, Unregistered
  <2>1. CASE g = f
    BY <1>1, <1>2, <1>3, <2>1 DEF RegistryInv
  <2>2. CASE g # f
    <3>1. attrs'[g] = attrs[g]
      BY <1>1, <2>2 DEF RegistryInv
    <3> QED
      BY <1>1, <1>2, <1>3, <1>4, <2>2, <3>1 DEF RegistryInv, AttributesLead
  <2> QED
    BY <2>1, <2>2
<1> QED
  BY <1>5, <1>6, <1>7, <1>m, <1>4 DEF RegistryInv

\* So does the command decorator.
LEMMA CommandKeeps ==
  ASSUME RegistryInv, NEW f \in program.funs, NEW name,
         command(f, name), program' = program
  PROVE  RegistryInv'
<1> DEFINE h == WrapWithServer(f)
<1>1. /\ name \notin DOMAIN commands /\ commands' = Put(commands, name, h)
      /\ attrs' = [attrs EXCEPT ![f] = <<"command", name>>]
      /\ UNCHANGED <<features, marked, decorated>>
  BY DEF command
<1>2. h.fun = f
  BY DEF WrapWithServer, Handler
<1>m. Handlers' = Handlers \cup {h} => MarksFollow'
  BY <1>1, WrapKeepsMarks
<1> HIDE DEF h
<1>3. /\ DOMAIN commands' = DOMAIN commands \cup {name}
      /\ commands'[name] = h
      /\ \A n \in DOMAIN commands : commands'[n] = commands[n]
      /\ Range(commands') = Range(commands) \cup {h}
  BY <1>1 DEF Put, Range
<1>4. Handlers' = Handlers \cup {h}
  BY <1>1, <1>3 DEF Handlers
<1>5. IsFiniteSet(DOMAIN features') /\ IsFiniteSet(DOMAIN commands')
  BY <1>1, <1>3, FS_AddElement DEF RegistryInv
<1>6. DOMAIN attrs' = program'.funs
  BY <1>1 DEF RegistryInv
<1>7. AttributesLead'
  <2> SUFFICES ASSUME NEW g \in program.funs
               PROVE  \/ attrs'[g] = Unregistered /\ \A k \in Handlers' : k.fun # g
                      \/ \E n \in DOMAIN features' : attrs'[g] = <<"feature", n>>
                                                       /\ features'[n].fun = g
                      \/ \E n \in DOMAIN commands' : attrs'[g] = <<"command", n>>
                                                       /\ commands'[n].fun = g
    BY DEF AttributesLead, Unregistered
  <2>1. CASE g = f
    BY <1>1, <1>2, <1>3, <2>1 DEF RegistryInv
  <2>2. CASE g # f
    <3>1. attrs'[g] = attrs[g]
      BY <1>1, <2>2 DEF RegistryInv
    <3> QED
      BY <1>1, <1>2, <1>3, <1>4, <2>2, <3>1 DEF RegistryInv, AttributesLead
  <2> QED
    BY <2>1, <2>2
<1> QED
  BY <1>5, <1>6, <1>7, <1>m, <1>4 DEF RegistryInv

\* assign_thread_attr changes the mark of one handler.
LEMMA Marked ==
  ASSUME NEW d, NEW F, NEW n \in DOMAIN d, d[n] \in [fun : F, thread : BOOLEAN],
         NEW e, e = [d EXCEPT ![n].thread = TRUE]
  PROVE  /\ DOMAIN e = DOMAIN d
         /\ e[n] \in [fun : F, thread : BOOLEAN] /\ e[n].fun = d[n].fun /\ e[n].thread = TRUE
         /\ \A k \in DOMAIN d : k # n => e[k] = d[k]
<1>1. DOMAIN e = DOMAIN d /\ e[n] = [d[n] EXCEPT !.thread = TRUE]
      /\ \A k \in DOMAIN d : k # n => e[k] = d[k]
  OBVIOUS
<1> QED
  BY <1>1

\* The thread decorator marks the function, or the handler its attributes lead to.
LEMMA ThreadKeeps ==
  ASSUME RegistryInv, NEW f \in program.funs, thread(f), program' = program
  PROVE  RegistryInv'
<1> DEFINE name == attrs[f][2]
<1>1. /\ features' = IF attrs[f][1] = "feature" THEN Mark(features, name) ELSE features
      /\ commands' = IF attrs[f][1] = "command" THEN Mark(commands, name) ELSE commands
      /\ marked' = IF attrs[f][1] = "none" \/ f \notin ServerFuns
                     THEN marked \cup {f} ELSE marked
      /\ decorated' = decorated \cup {f}
      /\ UNCHANGED attrs
  BY DEF thread
<1>2. ServerFuns' = ServerFuns
  BY DEF ServerFuns
<1>3. \/ /\ attrs[f] = Unregistered /\ \A h \in Handlers : h.fun # f
      \/ \E n \in DOMAIN features : attrs[f] = <<"feature", n>> /\ features[n].fun = f
      \/ \E n \in DOMAIN commands : attrs[f] = <<"command", n>> /\ commands[n].fun = f
  BY DEF RegistryInv, AttributesLead
<1>4. CASE attrs[f] = Unregistered /\ \A h \in Handlers : h.fun # f
  <2>1. UNCHANGED <<features, commands>> /\ marked' = marked \cup {f}
    BY <1>1, <1>4 DEF Unregistered
  <2>2. Handlers' = Handlers
    BY <2>1 DEF Handlers
  <2>3. MarksFollow'
    BY <1>1, <1>2, <1>4, <2>1, <2>2 DEF RegistryInv, MarksFollow
  <2>4. AttributesLead'
    BY <1>1, <2>1, <2>2 DEF RegistryInv, AttributesLead, Unregistered
  <2> QED
    BY <1>1, <2>1, <2>3, <2>4 DEF RegistryInv
<1>5. CASE attrs[f][1] # "none" /\ f \notin ServerFuns
  <2>1. UNCHANGED <<features, commands>> /\ marked' = marked \cup {f}
    BY <1>1, <1>3, <1>5 DEF Mark, Unregistered
  <2>2. Handlers' = Handlers
    BY <2>1 DEF Handlers
  <2>3. MarksFollow'
    BY <1>1, <1>2, <1>5, <2>1, <2>2 DEF RegistryInv, MarksFollow
  <2>4. AttributesLead'
    BY <1>1, <2>1, <2>2 DEF RegistryInv, AttributesLead, Unregistered
  <2> QED
    BY <1>1, <2>1, <2>3, <2>4 DEF RegistryInv
<1>6. ASSUME NEW n \in DOMAIN features, attrs[f] = <<"feature", n>>, features[n].fun = f,
              f \in ServerFuns
      PROVE  RegistryInv'
  <2>1. /\ features' = [features EXCEPT ![n].thread = TRUE]
        /\ UNCHANGED <<commands, marked>>
    BY <1>1, <1>6 DEF Mark
  <2>h. features[n] \in [fun : program.funs, thread : BOOLEAN]
    BY DEF RegistryInv, MarksFollow, Handlers, Range
  <2>2. /\ DOMAIN features' = DOMAIN features
        /\ features'[n] \in [fun : program.funs, thread : BOOLEAN]
        /\ features'[n].fun = features[n].fun /\ features'[n].thread = TRUE
        /\ \A k \in DOMAIN features : k # n => features'[k] = features[k]
    BY <2>1, <2>h, Marked
  <2>3. \A h \in Handlers' : \/ h \in Handlers
                             \/ /\ h \in [fun : program.funs, thread : BOOLEAN]
                                /\ h.fun = f /\ h.thread = TRUE
    BY <2>1, <2>2, <1>6 DEF Handlers, Range
  <2>4. \A h \in Handlers : h \in Handlers' \/ h.fun = f
    BY <2>1, <2>2, <1>6 DEF Handlers, Range
  <2>5. features'[n] \in Handlers' /\ features'[n].fun = f
    BY <2>2, <1>6 DEF Handlers, Range
  <2>6. marked' \subseteq decorated'
    BY <1>1, <2>1 DEF RegistryInv, MarksFollow
  <2>7. ASSUME NEW k \in Handlers'
        PROVE  /\ k \in [fun : program'.funs, thread : BOOLEAN]
               /\ k.thread => k.fun \in decorated'
               /\ k.fun \in marked' \cap ServerFuns' => k.thread
    BY <1>1, <1>2, <2>1, <2>3 DEF RegistryInv, MarksFollow
  <2>8. ASSUME NEW g \in decorated'
        PROVE  \/ g \in marked'
               \/ g \in ServerFuns' /\ \E k \in Handlers' : k.fun = g /\ k.thread
    <3>1. CASE g = f
      BY <1>2, <1>6, <2>2, <2>5, <3>1
    <3>2. CASE g # f
      BY <1>1, <1>2, <2>1, <2>4, <3>2 DEF RegistryInv, MarksFollow
    <3> QED
      BY <3>1, <3>2
  <2>9. MarksFollow'
    BY <2>6, <2>7, <2>8 DEF MarksFollow
  <2>10. AttributesLead'
    <3> SUFFICES ASSUME NEW g \in program.funs
                 PROVE  \/ attrs'[g] = Unregistered /\ \A k \in Handlers' : k.fun # g
                        \/ \E k \in DOMAIN features' : attrs'[g] = <<"feature", k>>
                                                         /\ features'[k].fun = g
                        \/ \E k \in DOMAIN commands' : attrs'[g] = <<"command", k>>
                                                         /\ commands'[k].fun = g
      BY DEF AttributesLead, Unregistered
    <3>1. attrs'[g] = attrs[g]
      BY <1>1
    <3>2. \/ attrs[g] = Unregistered /\ \A k \in Handlers : k.fun # g
          \/ \E k \in DOMAIN features : attrs[g] = <<"feature", k>> /\ features[k].fun = g
          \/ \E k \in DOMAIN commands : attrs[g] = <<"command", k>> /\ commands[k].fun = g
      BY DEF RegistryInv, AttributesLead
    <3>3. CASE attrs[g] = Unregistered /\ \A k \in Handlers : k.fun # g
      <4>1. g # f
        BY <1>6, <3>3 DEF Unregistered
      <4> QED
        BY <2>3, <3>1, <3>3, <4>1
    <3>4. CASE \E k \in DOMAIN features : attrs[g] = <<"feature", k>> /\ features[k].fun = g
      BY <2>1, <2>2, <3>1, <3>4
    <3>5. CASE \E k \in DOMAIN commands : attrs[g] = <<"command", k>> /\ commands[k].fun = g
      BY <2>1, <2>2, <3>1, <3>5
    <3> QED
      BY <3>2, <3>3, <3>4, <3>5
  <2> QED
    BY <1>1, <2>1, <2>2, <2>9, <2>10 DEF RegistryInv
<1>7. ASSUME NEW n \in DOMAIN commands, attrs[f] = <<"command", n>>, commands[n].fun = f,
              f \in ServerFuns
      PROVE  RegistryInv'
  <2>1. /\ commands' = [commands EXCEPT ![n].thread = TRUE]
        /\ UNCHANGED <<features, marked>>
    BY <1>1, <1>7 DEF Mark
  <2>h. commands[n] \in [fun : program.funs, thread : BOOLEAN]
    BY DEF RegistryInv, MarksFollow, Handlers, Range
  <2>2. /\ DOMAIN commands' = DOMAIN commands
        /\ commands'[n] \in [fun : program.funs, thread : BOOLEAN]
        /\ commands'[n].fun = commands[n].fun /\ commands'[n].thread = TRUE
        /\ \A k \in DOMAIN commands : k # n => commands'[k] = commands[k]
    BY <2>1, <2>h, Marked
  <2>3. \A h \in Handlers' : \/ h \in Handlers
                             \/ /\ h \in [fun : program.funs, thread : BOOLEAN]
                                /\ h.fun = f /\ h.thread = TRUE
    BY <2>1, <2>2, <1>7 DEF Handlers, Range
  <2>4. \A h \in Handlers : h \in Handlers' \/ h.fun = f
    BY <2>1, <2>2, <1>7 DEF Handlers, Range
  <2>5. commands'[n] \in Handlers' /\ commands'[n].fun = f
    BY <2>2, <1>7 DEF Handlers, Range
  <2>6. marked' \subseteq decorated'
    BY <1>1, <2>1 DEF RegistryInv, MarksFollow
  <2>7. ASSUME NEW k \in Handlers'
        PROVE  /\ k \in [fun : program'.funs, thread : BOOLEAN]
               /\ k.thread => k.fun \in decorated'
               /\ k.fun \in marked' \cap ServerFuns' => k.thread
    BY <1>1, <1>2, <2>1, <2>3 DEF RegistryInv, MarksFollow
  <2>8. ASSUME NEW g \in decorated'
        PROVE  \/ g \in marked'
               \/ g \in ServerFuns' /\ \E k \in Handlers' : k.fun = g /\ k.thread
    <3>1. CASE g = f
      BY <1>2, <1>7, <2>2, <2>5, <3>1
    <3>2. CASE g # f
      BY <1>1, <1>2, <2>1, <2>4, <3>2 DEF RegistryInv, MarksFollow
    <3> QED
      BY <3>1, <3>2
  <2>9. MarksFollow'
    BY <2>6, <2>7, <2>8 DEF MarksFollow
  <2>10. AttributesLead'
    <3> SUFFICES ASSUME NEW g \in program.funs
                 PROVE  \/ attrs'[g] = Unregistered /\ \A k \in Handlers' : k.fun # g
                        \/ \E k \in DOMAIN features' : attrs'[g] = <<"feature", k>>
                                                         /\ features'[k].fun = g
                        \/ \E k \in DOMAIN commands' : attrs'[g] = <<"command", k>>
                                                         /\ commands'[k].fun = g
      BY DEF AttributesLead, Unregistered
    <3>1. attrs'[g] = attrs[g]
      BY <1>1
    <3>2. \/ attrs[g] = Unregistered /\ \A k \in Handlers : k.fun # g
          \/ \E k \in DOMAIN features : attrs[g] = <<"feature", k>> /\ features[k].fun = g
          \/ \E k \in DOMAIN commands : attrs[g] = <<"command", k>> /\ commands[k].fun = g
      BY DEF RegistryInv, AttributesLead
    <3>3. CASE attrs[g] = Unregistered /\ \A k \in Handlers : k.fun # g
      <4>1. g # f
        BY <1>7, <3>3 DEF Unregistered
      <4> QED
        BY <2>3, <3>1, <3>3, <4>1
    <3>4. CASE \E k \in DOMAIN features : attrs[g] = <<"feature", k>> /\ features[k].fun = g
      BY <2>1, <2>2, <3>1, <3>4
    <3>5. CASE \E k \in DOMAIN commands : attrs[g] = <<"command", k>> /\ commands[k].fun = g
      BY <2>1, <2>2, <3>1, <3>5
    <3> QED
      BY <3>2, <3>3, <3>4, <3>5
  <2> QED
    BY <1>1, <2>1, <2>2, <2>9, <2>10 DEF RegistryInv
<1>8. attrs[f] = Unregistered => attrs[f][1] = "none"
  BY DEF Unregistered
<1> QED
  BY <1>3, <1>4, <1>5, <1>6, <1>7, <1>8

\* Two registrations of one function count as two.
LEMMA TwoRegistrations ==
  ASSUME RegistryInv, NEW f, Registrations(f) = 1,
         NEW h \in Handlers, NEW k \in Handlers, h.fun = f, k.fun = f
  PROVE  h = k
<1> DEFINE A == {n \in DOMAIN features : features[n].fun = f}
           B == {n \in DOMAIN commands : commands[n].fun = f}
<1>1. IsFiniteSet(A) /\ IsFiniteSet(B)
  BY FS_Subset DEF RegistryInv
<1>2. Cardinality(A) \in Nat /\ Cardinality(B) \in Nat /\ Cardinality(A) + Cardinality(B) = 1
  BY <1>1, FS_CardinalityType DEF Registrations
<1>3. /\ \/ \E n \in A : h = features[n]
         \/ \E n \in B : h = commands[n]
      /\ \/ \E n \in A : k = features[n]
         \/ \E n \in B : k = commands[n]
  BY DEF Handlers, Range
<1> HIDE DEF A, B
<1>4. CASE Cardinality(A) = 0
  <2>1. A = {}
    BY <1>1, <1>4, FS_EmptySet
  <2>2. PICK x : B = {x}
    <3>1. Cardinality(B) = 1
      BY <1>2, <1>4
    <3> QED
      BY <1>1, <3>1, FS_Singleton, Zenon
  <2> QED
    BY <1>3, <2>1, <2>2
<1>5. CASE Cardinality(B) = 0
  <2>1. B = {}
    BY <1>1, <1>5, FS_EmptySet
  <2>2. PICK x : A = {x}
    <3>1. Cardinality(A) = 1
      BY <1>2, <1>5
    <3> QED
      BY <1>1, <3>1, FS_Singleton, Zenon
  <2> QED
    BY <1>3, <2>1, <2>2
<1> QED
  BY <1>2, <1>4, <1>5

LEMMA RegistryThreads == RegistryInv => ThreadsAsDecorated
<1> SUFFICES ASSUME RegistryInv, NEW h \in Handlers
             PROVE  /\ IsThreadFunction(h) => h.fun \in decorated
                    /\ /\ h.fun \in decorated
                       /\ Registrations(h.fun) = 1 \/ h.fun \notin ServerFuns
                       => IsThreadFunction(h)
  BY DEF ThreadsAsDecorated, Handlers
<1>1. /\ h.thread => h.fun \in decorated
      /\ h.fun \in marked \cap ServerFuns => h.thread
      /\ marked \subseteq decorated
  BY DEF RegistryInv, MarksFollow
<1>2. ASSUME h.fun \in decorated, Registrations(h.fun) = 1 \/ h.fun \notin ServerFuns
      PROVE  IsThreadFunction(h)
  <2>1. \/ h.fun \in marked
        \/ h.fun \in ServerFuns /\ \E k \in Handlers : k.fun = h.fun /\ k.thread
    BY <1>2 DEF RegistryInv, MarksFollow
  <2>2. CASE h.fun \in marked
    BY <1>1, <2>2 DEF IsThreadFunction
  <2>3. ASSUME h.fun \in ServerFuns, NEW k \in Handlers, k.fun = h.fun, k.thread
        PROVE  IsThreadFunction(h)
    <3>1. h = k
      BY <1>2, <2>3, TwoRegistrations
    <3> QED
      BY <2>3, <3>1 DEF IsThreadFunction
  <2> QED
    BY <2>1, <2>2, <2>3
<1> QED
  BY <1>1, <1>2 DEF IsThreadFunction

-----------------------------------------------------------------------------
(* Exceptions (Errors).                                                     *)

\* The client reconstructs an exception with the code of the one that was
\* raised, and of its class if it knows the class and the class supports the code:
\* no two classes of _EXCEPTIONS support one code.
LEMMA ErrorReconstructed ==
  ASSUME NEW exc \in Exceptions, NEW seen \in FromError(exc.code)
  PROVE  /\ seen.code = exc.code
         /\ FromError(exc.code) = {seen}
         /\ seen.class # "JsonRpcException" => SupportsCode(seen.class, seen.code)
         /\ exc.class \in ReceivedClasses /\ SupportsCode(exc.class, exc.code) =>
              seen.class = exc.class
<1> DEFINE supporting == {c \in ReceivedClasses : SupportsCode(c, exc.code)}
           chosen == IF supporting = {} THEN {"JsonRpcException"} ELSE supporting
<1>1. exc.code \in Int /\ exc.code # 0
  BY DEF Exceptions
<1>2. PICK c \in chosen : seen = Raise(c, exc.code)
  BY DEF FromError
<1>3. seen.code = exc.code /\ seen.class = c
  BY <1>1, <1>2 DEF Raise
<1>4. ASSUME NEW a \in supporting, NEW b \in supporting PROVE a = b
  BY <1>1 DEF SupportsCode, ReceivedClasses, ClassCode, IsServerErrorCode
<1>5. exc.class \in ReceivedClasses /\ SupportsCode(exc.class, exc.code) => exc.class = c
  BY <1>2, <1>4
<1>6. c # "JsonRpcException" => SupportsCode(c, exc.code)
  BY <1>2
<1>7. chosen = {c}
  <2> HIDE DEF supporting
  <2> QED
    BY <1>2, <1>4
<1>8. FromError(exc.code) = {Raise(x, exc.code) : x \in chosen}
  BY DEF FromError
<1> HIDE DEF chosen, supporting
<1>9. FromError(exc.code) = {seen}
  BY <1>2, <1>7, <1>8
<1> QED
  BY <1>3, <1>5, <1>6, <1>9

\* The exceptions the framework itself sends.
LEMMA DefaultIsException ==
  /\ Default("JsonRpcRequestCancelled") \in Exceptions
  /\ Default("JsonRpcInternalError") \in Exceptions
  /\ Default("JsonRpcInvalidParams") \in Exceptions
  /\ Default("JsonRpcMethodNotFound") \in Exceptions
BY DEF Default, Raise, Exceptions, Classes, ClassCode

\* What the client got before stays as it was.
LEMMA ErrorStays ==
  ASSUME ErrorIsKept, UNCHANGED answer
  PROVE  ErrorIsKept'
BY DEF ErrorIsKept

-----------------------------------------------------------------------------
(* Paths (Uris).                                                            *)

\* unquote undoes quote, and leaves a drive as it is.
LEMMA QuoteUndone ==
  /\ \A t \in Tokens : Unquote(Quote(t)) = t
  /\ \A t \in Drives \cup {"/"} : Unquote(t) = t
BY DEF Tokens, Drives, Quote, Unquote

LEMMA MapUndone ==
  ASSUME NEW s \in Seq(Tokens)
  PROVE  /\ Map(Map(s, Quote), Unquote) = s
         /\ Len(Map(s, Quote)) = Len(s)
         /\ \A i \in 1 .. Len(s) : Map(s, Quote)[i] = Quote(s[i])
<1>1. /\ DOMAIN Map(s, Quote) = 1 .. Len(s) /\ Len(s) \in Nat
      /\ \A i \in 1 .. Len(s) : Map(s, Quote)[i] = Quote(s[i])
  BY DEF Map
<1>2. Len(Map(s, Quote)) = Len(s)
  BY <1>1 DEF Map
<1>3. Map(Map(s, Quote), Unquote) = [i \in 1 .. Len(s) |-> Unquote(Quote(s[i]))]
  BY <1>1, <1>2 DEF Map
<1>4. \A i \in 1 .. Len(s) : Unquote(Quote(s[i])) = s[i]
  BY QuoteUndone
<1>5. s = [i \in 1 .. Len(s) |-> s[i]]
  OBVIOUS
<1> QED
  BY <1>1, <1>2, <1>3, <1>4, <1>5

\* urlparse undoes urlunparse, with the drive whose colon is not quoted.
LEMMA UrlUndone ==
  ASSUME NEW path \in Seq(Tokens), NEW netloc \in Seq(Tokens),
         NEW parts, parts = [path |-> path, netloc |-> netloc]
  PROVE  /\ Urlparse(Urlunparse(parts)).path = path
         /\ Urlparse(Urlunparse(parts)).netloc = netloc
<1>1. /\ Urlparse(Urlunparse(parts)).netloc = Map(Map(netloc, Quote), Unquote)
      /\ Urlparse(Urlunparse(parts)).path =
           Map(IF HasDrive(path)
                 THEN SubSeq(path, 1, 2) \o Map(SubSeq(path, 3, Len(path)), Quote)
                 ELSE Map(path, Quote), Unquote)
  BY DEF Urlparse, Urlunparse
<1>2. CASE ~HasDrive(path)
  BY <1>1, <1>2, MapUndone
<1>3. CASE HasDrive(path)
  <2> DEFINE Quoted == Tokens \cup {Quote(t) : t \in Tokens}
             a == SubSeq(path, 1, 2)
             b == SubSeq(path, 3, Len(path))
             c == Map(b, Quote)
             q == a \o c
  <2>1. /\ Len(path) \in Nat /\ Len(path) >= 2
        /\ path[1] = "/" /\ path[2] \in Drives
        /\ \A i \in 1 .. Len(path) : path[i] \in Tokens
    BY <1>3 DEF HasDrive
  <2>2. a \in Seq(Quoted) /\ Len(a) = 2 /\ \A i \in 1 .. 2 : a[i] = path[i]
    BY <2>1, SubSeqProperties
  <2>3. /\ b \in Seq(Tokens) /\ Len(b) = Len(path) - 2
        /\ \A i \in 1 .. Len(path) - 2 : b[i] = path[i + 2]
    <3>1. \A i \in 3 .. Len(path) : path[i] \in Tokens
      BY <2>1
    <3>2. /\ b \in Seq(Tokens)
          /\ Len(b) = IF 3 <= Len(path) THEN Len(path) - 3 + 1 ELSE 0
          /\ \A i \in 1 .. Len(path) - 3 + 1 : b[i] = path[3 + i - 1]
      BY <2>1, <3>1, SubSeqProperties
    <3> HIDE DEF b
    <3>3. \A i \in 1 .. Len(path) - 2 : 3 + i - 1 = i + 2
      BY <2>1
    <3>4. \A n \in Nat : n >= 2 => n - 3 + 1 = n - 2 /\ (~(3 <= n) => n - 2 = 0)
      OBVIOUS
    <3>5. Len(path) - 3 + 1 = Len(path) - 2 /\ (~(3 <= Len(path)) => Len(path) - 2 = 0)
      BY <2>1, <3>4
    <3> QED
      BY <3>2, <3>3, <3>5
  <2> HIDE DEF a, b
  <2>4. /\ Len(c) = Len(path) - 2 /\ \A i \in 1 .. Len(path) - 2 : c[i] = Quote(path[i + 2])
    <3>1. Len(c) = Len(b) /\ \A i \in 1 .. Len(b) : c[i] = Quote(b[i])
      BY <2>3, MapUndone
    <3> QED
      BY <2>3, <3>1
  <2>5. c \in Seq(Quoted)
    BY <2>3 DEF Map
  <2> HIDE DEF c
  <2>6. /\ Len(q) = Len(path)
        /\ \A i \in 1 .. Len(path) : q[i] = IF i <= 2 THEN a[i] ELSE c[i - 2]
    <3>1. /\ Len(q) = Len(a) + Len(c)
          /\ \A i \in 1 .. Len(a) + Len(c) : q[i] = IF i <= Len(a) THEN a[i] ELSE c[i - Len(a)]
      BY <2>2, <2>5, ConcatProperties
    <3>2. Len(a) + Len(c) = Len(path)
      BY <2>1, <2>2, <2>4
    <3> QED
      BY <2>2, <3>1, <3>2
  <2> HIDE DEF q
  <2>7. ASSUME NEW i \in 1 .. Len(path) PROVE Unquote(q[i]) = path[i]
    <3>1. CASE i <= 2
      <4>1. q[i] = path[i] /\ path[i] \in Drives \cup {"/"}
        BY <2>1, <2>2, <2>6, <3>1
      <4> QED
        BY <4>1, QuoteUndone
    <3>2. CASE i > 2
      <4>1. i - 2 \in 1 .. Len(path) - 2 /\ (i - 2) + 2 = i
        BY <2>1, <3>2
      <4>2. q[i] = Quote(path[i])
        BY <2>1, <2>4, <2>6, <3>2, <4>1, SMTT(30)
      <4> QED
        BY <2>1, <4>2, QuoteUndone
    <3> QED
      BY <2>1, <3>1, <3>2
  <2>8. Map(q, Unquote) = [i \in 1 .. Len(path) |-> path[i]]
    BY <2>6, <2>7 DEF Map
  <2>9. path = [i \in 1 .. Len(path) |-> path[i]]
    OBVIOUS
  <2> QED
    BY <1>1, <1>3, <2>8, <2>9, MapUndone DEF q, a, b, c
<1> QED
  BY <1>2, <1>3

\* Replacing the separators.
LEMMA Separators ==
  ASSUME NEW win \in BOOLEAN, NEW given \in Seq(Tokens), NEW p, p = Slashes(win, given)
  PROVE  /\ p \in Seq(Tokens) /\ Len(p) = Len(given)
         /\ ~win => p = given
         /\ win => Replace(p, "/", "\\") = Replace(given, "/", "\\")
         /\ \A i \in 1 .. Len(given) : p[i] \in Drives <=> given[i] \in Drives
<1>1. CASE win = FALSE
  BY <1>1 DEF Slashes
<1>2. CASE win = TRUE
  <2> DEFINE n == Len(given)
  <2>1. n \in Nat /\ \A i \in 1 .. n : given[i] \in Tokens
    OBVIOUS
  <2>2. p = [i \in 1 .. n |-> IF given[i] = "\\" THEN "/" ELSE given[i]]
    BY <1>2 DEF Slashes, Replace, Map
  <2>3. \A i \in 1 .. n : p[i] \in Tokens
    BY <2>1, <2>2 DEF Tokens
  <2>4. p \in Seq(Tokens) /\ Len(p) = n
    BY <2>1, <2>2, <2>3
  <2>5. Replace(p, "/", "\\") = [i \in 1 .. n |-> IF p[i] = "/" THEN "\\" ELSE p[i]]
    BY <2>4 DEF Replace, Map
  <2>6. Replace(given, "/", "\\") = [i \in 1 .. n |-> IF given[i] = "/" THEN "\\" ELSE given[i]]
    BY DEF Replace, Map
  <2>7. \A i \in 1 .. n : (IF p[i] = "/" THEN "\\" ELSE p[i])
                             = (IF given[i] = "/" THEN "\\" ELSE given[i])
    BY <2>2
  <2>8. \A i \in 1 .. n : p[i] \in Drives <=> given[i] \in Drives
    BY <2>2 DEF Drives
  <2> QED
    BY <1>2, <2>4, <2>5, <2>6, <2>7, <2>8
<1> QED
  BY <1>1, <1>2

\* What to_fs_path makes of the parts of a URI, but for the separators.
Value(parts) ==
  IF parts.netloc # <<>> /\ parts.path # <<>>
    THEN <<"/", "/">> \o parts.netloc \o parts.path
  ELSE IF HasDrive(parts.path) THEN Tail(LowerDrive(parts.path))
  ELSE parts.path

\* Putting a drive in lower case.
LEMMA Lowered ==
  ASSUME NEW s \in Seq(Tokens), HasDrive(s)
  PROVE  /\ LowerDrive(s) \in Seq(Tokens) /\ Len(LowerDrive(s)) = Len(s)
         /\ \A i \in 1 .. Len(s) : LowerDrive(s)[i] = IF i = 2 THEN "c:" ELSE s[i]
<1>1. LowerDrive(s) = [s EXCEPT ![2] = "c:"]
  BY DEF LowerDrive
<1>2. "c:" \in Tokens
  BY DEF Drives, Tokens
<1>3. Len(s) \in Nat /\ Len(s) >= 2
  BY LenProperties DEF HasDrive
<1>4. 2 \in 1 .. Len(s)
  BY <1>3
<1> QED
  BY <1>1, <1>2, <1>4, ExceptSeq

\* One in lower case stays as it is.
LEMMA LowerStays ==
  ASSUME NEW s \in Seq(Tokens), Len(s) >= 2 => s[2] # "C:"
  PROVE  LowerDrive(s) = s
<1>1. CASE ~HasDrive(s)
  BY <1>1 DEF LowerDrive
<1>2. CASE HasDrive(s)
  <2>1. s[2] = "c:"
    BY <1>2 DEF HasDrive, Drives
  <2>2. \A i \in 1 .. Len(s) : LowerDrive(s)[i] = s[i]
    BY <1>2, <2>1, Lowered
  <2> QED
    BY <1>2, <2>2, Lowered, SeqEqual
<1> QED
  BY <1>1, <1>2

\* A path on a host is put together again as it was.
UncParts(p, netloc, rest) ==
  /\ netloc \in Seq(Tokens) /\ netloc # <<>>
  /\ rest \in Seq(Tokens) /\ rest # <<>> /\ Head(rest) = "/"
  /\ LowerDrive(rest) = rest
  /\ <<"/", "/">> \o netloc \o rest = p

LEMMA UncKept ==
  ASSUME NEW p \in Seq(Tokens), IsUnc(p), Len(p) >= 3, p[3] # "/",
         NEW k \in HostEnd(p),
         k < Len(p) => p[k + 1] # "C:",
         NEW netloc, netloc = SubSeq(p, 3, k - 1), NEW rest, rest = SubSeq(p, k, Len(p))
  PROVE  UncParts(p, netloc, rest)
<1>1. /\ Len(p) \in Nat /\ k \in 3 .. Len(p) /\ p[k] = "/" /\ k # 3
      /\ \A i \in 1 .. Len(p) : p[i] \in Tokens
  BY DEF HostEnd
<1>2. /\ netloc \in Seq(Tokens) /\ Len(netloc) = k - 3
  BY <1>1, SubSeqProperties
<1>3. /\ rest \in Seq(Tokens) /\ Len(rest) = Len(p) - k + 1
      /\ \A i \in 1 .. Len(p) - k + 1 : rest[i] = p[k + i - 1]
  BY <1>1, SubSeqProperties
<1>4. netloc # <<>> /\ rest # <<>>
  <2>1. Len(netloc) # 0 /\ Len(rest) # 0
    BY <1>1, <1>2, <1>3
  <2> QED
    BY <2>1, EmptySeq
<1>5. rest[1] = "/" /\ Head(rest) = rest[1]
  BY <1>1, <1>3, <1>4
<1>6. LowerDrive(rest) = rest
  <2>1. ASSUME Len(rest) >= 2 PROVE rest[2] # "C:"
    <3>1. k < Len(p) /\ 2 \in 1 .. Len(p) - k + 1 /\ k + 2 - 1 = k + 1
      BY <1>1, <1>3, <2>1
    <3> QED
      BY <1>3, <3>1
  <2> QED
    BY <1>3, <2>1, LowerStays
<1>7. <<"/", "/">> = SubSeq(p, 1, 2)
  <2>1. SubSeq(p, 1, 2) \in Seq(Tokens) /\ Len(SubSeq(p, 1, 2)) = 2
        /\ SubSeq(p, 1, 2)[1] = p[1] /\ SubSeq(p, 1, 2)[2] = p[2]
    BY <1>1, SubSeqProperties
  <2>2. p[1] = "/" /\ p[2] = "/" /\ "/" \in Tokens
    BY DEF IsUnc, Tokens
  <2> QED
    BY <2>1, <2>2, SeqEqual
<1>8. SubSeq(p, 1, 2) \o netloc = SubSeq(p, 1, k - 1)
  BY <1>1, ConcatAdjacentSubSeq
<1>9. SubSeq(p, 1, k - 1) \o rest = SubSeq(p, 1, Len(p))
  <2>1. (k - 1) + 1 = k /\ 1 \in 1 .. Len(p) + 1 /\ k - 1 \in 1 - 1 .. Len(p)
        /\ Len(p) \in k - 1 .. Len(p)
    BY <1>1
  <2>2. SubSeq(p, 1, k - 1) \o SubSeq(p, (k - 1) + 1, Len(p)) = SubSeq(p, 1, Len(p))
    BY <2>1, ConcatAdjacentSubSeq
  <2> QED
    BY <2>1, <2>2
<1>10. SubSeq(p, 1, Len(p)) = p
  BY SubSeqFull
<1> QED
  BY <1>2, <1>3, <1>4, <1>5, <1>6, <1>7, <1>8, <1>9, <1>10 DEF UncParts

\* A drive in front gets a slash and loses it again.
LEMMA DriveKept ==
  ASSUME NEW p \in Seq(Tokens), p # <<>>, p[1] \in Drives,
         NEW r, r = <<"/">> \o p
  PROVE  /\ r \in Seq(Tokens) /\ HasDrive(r)
         /\ LowerDrive(r) \in Seq(Tokens) /\ HasDrive(LowerDrive(r))
         /\ Tail(LowerDrive(LowerDrive(r))) = [p EXCEPT ![1] = "c:"]
<1> DEFINE e == LowerDrive(r)
           d == [p EXCEPT ![1] = "c:"]
<1>t. "/" \in Tokens /\ "c:" \in Tokens /\ "c:" \in Drives
  BY DEF Tokens, Drives
<1>l. Len(p) \in Nat \ {0}
  BY EmptySeq
<1>1. Len(p) \in Nat /\ Len(p) >= 1 /\ "/" \in Tokens /\ "c:" \in Tokens /\ "c:" \in Drives
  BY <1>l, <1>t
<1>2. <<"/">> \in Seq(Tokens) /\ Len(<<"/">>) = 1 /\ <<"/">>[1] = "/"
  BY <1>1
<1>3. /\ r \in Seq(Tokens) /\ Len(r) = Len(p) + 1
      /\ \A i \in 1 .. Len(p) + 1 : r[i] = IF i <= 1 THEN <<"/">>[i] ELSE p[i - 1]
  BY <1>2, ConcatProperties
<1>4. r[1] = "/" /\ r[2] = p[1]
  BY <1>1, <1>2, <1>3
<1> HIDE DEF e, d
<1>5. HasDrive(r)
  BY <1>1, <1>3, <1>4 DEF HasDrive
<1>6. /\ e \in Seq(Tokens) /\ Len(e) = Len(r)
      /\ \A i \in 1 .. Len(r) : e[i] = IF i = 2 THEN "c:" ELSE r[i]
  BY <1>3, <1>5, Lowered DEF e
<1>7. /\ e \in Seq(Tokens) /\ Len(e) = Len(p) + 1
      /\ \A i \in 1 .. Len(p) + 1 : e[i] = IF i = 2 THEN "c:" ELSE r[i]
  BY <1>3, <1>6
<1>8. HasDrive(e)
  <2>1. Len(e) >= 2 /\ e[1] = "/" /\ e[2] = "c:"
    BY <1>1, <1>4, <1>7
  <2> QED
    BY <1>1, <2>1 DEF HasDrive
<1>9. LowerDrive(e) = e
  <2>1. e[2] = "c:"
    BY <1>1, <1>7
  <2> QED
    BY <1>7, <2>1, LowerStays
<1>10. /\ d \in Seq(Tokens) /\ Len(d) = Len(p)
       /\ \A i \in 1 .. Len(p) : d[i] = IF i = 1 THEN "c:" ELSE p[i]
  <2>1. 1 \in 1 .. Len(p)
    BY <1>1
  <2> QED
    BY <1>1, <2>1, ExceptSeq DEF d
<1>11. e # <<>>
  <2>1. Len(e) # 0
    BY <1>1, <1>7
  <2> QED
    BY <2>1, EmptySeq
<1>12. /\ Tail(e) \in Seq(Tokens) /\ Len(Tail(e)) = Len(p)
       /\ \A i \in 1 .. Len(p) : Tail(e)[i] = e[i + 1]
  <2>1. /\ Tail(e) \in Seq(Tokens) /\ Len(Tail(e)) = Len(e) - 1
        /\ \A i \in 1 .. Len(Tail(e)) : Tail(e)[i] = e[i + 1]
    BY <1>7, <1>11, HeadTailProperties
  <2>2. Len(e) - 1 = Len(p)
    BY <1>1, <1>7
  <2> QED
    BY <2>1, <2>2
<1>13. ASSUME NEW i \in 1 .. Len(p) PROVE Tail(e)[i] = d[i]
  <2>1. i + 1 \in 1 .. Len(p) + 1 /\ ~(i + 1 <= 1) /\ (i + 1) - 1 = i
        /\ (i + 1 = 2 <=> i = 1)
    BY <1>1
  <2> QED
    BY <1>3, <1>7, <1>10, <1>12, <2>1
<1>14. Tail(e) = d
  BY <1>10, <1>12, <1>13, SeqEqual
<1> QED
  BY <1>3, <1>5, <1>7, <1>8, <1>9, <1>14 DEF d, e

LEMMA DriveReplaced ==
  ASSUME NEW p \in Seq(Tokens), Len(p) \in Nat \ {0}
  PROVE  Replace([p EXCEPT ![1] = "c:"], "/", "\\")
           = [Replace(p, "/", "\\") EXCEPT ![1] = "c:"]
<1> DEFINE d == [p EXCEPT ![1] = "c:"]
           F(t) == IF t = "/" THEN "\\" ELSE t
<1>t. "c:" \in Tokens
  BY DEF Tokens, Drives
<1>1. "c:" \in Tokens /\ 1 \in 1 .. Len(p)
  BY <1>t
<1>2. /\ Len(d) = Len(p)
      /\ \A i \in 1 .. Len(p) : d[i] = IF i = 1 THEN "c:" ELSE p[i]
  BY <1>1, ExceptSeq
<1> HIDE DEF d
<1>3. Replace(d, "/", "\\") = [i \in 1 .. Len(p) |-> F(d[i])]
  BY <1>2 DEF Replace, Map
<1>4. Replace(p, "/", "\\") = [i \in 1 .. Len(p) |-> F(p[i])]
  BY DEF Replace, Map
<1>5. [Replace(p, "/", "\\") EXCEPT ![1] = "c:"]
        = [i \in 1 .. Len(p) |-> IF i = 1 THEN "c:" ELSE F(p[i])]
  BY <1>1, <1>4
<1>6. \A i \in 1 .. Len(p) : F(d[i]) = IF i = 1 THEN "c:" ELSE F(p[i])
  BY <1>2
<1> QED
  BY <1>3, <1>5, <1>6 DEF d

\* from_fs_path and back, for any absolute path of any length.
LEMMA RootRoundTrip ==
  ASSUME NEW win \in BOOLEAN, NEW given, IsAbsolute(win, given), ~Raises(win, given),
         ~win => ~TakenForDrive(given)
  PROVE  ToFsPath(win, FromFsPath(win, given)) = NativeForm(win, given)
<1>0. PICK p : p = Slashes(win, given)
  OBVIOUS
<1>1. /\ given \in Seq(Tokens) /\ given # <<>>
      /\ \/ p[1] = "/" /\ (IsUnc(p) => Len(p) >= 3 /\ p[3] # "/")
         \/ win /\ p[1] \in Drives
      /\ win => \A k \in 2 .. Len(p) : p[k] \notin Drives
  BY <1>0 DEF IsAbsolute
<1>2. /\ p \in Seq(Tokens) /\ Len(p) = Len(given)
      /\ ~win => p = given
      /\ win => Replace(p, "/", "\\") = Replace(given, "/", "\\")
      /\ \A i \in 1 .. Len(given) : p[i] \in Drives <=> given[i] \in Drives
  BY <1>0, <1>1, Separators
<1>3. Len(p) \in Nat \ {0} /\ p # <<>> /\ Head(p) = p[1]
  BY <1>1, <1>2, EmptySeq
<1>r. IsUnc(p) => HostEnd(p) # {}
  BY <1>0 DEF Raises
<1>4. PICK parts : parts = NormalizeWinPath(win, given)
  OBVIOUS
\* Going there and back shows in the value of the parts only.
<1>5. ASSUME parts.path \in Seq(Tokens), parts.netloc \in Seq(Tokens),
             NEW v, v = Value(parts)
      PROVE  ToFsPath(win, FromFsPath(win, given)) =
               IF win THEN Replace(v, "/", "\\") ELSE v
  <2>1. parts = [path |-> parts.path, netloc |-> parts.netloc]
    BY <1>4 DEF NormalizeWinPath
  <2>2. /\ Urlparse(FromFsPath(win, given)).path = parts.path
        /\ Urlparse(FromFsPath(win, given)).netloc = parts.netloc
    BY <1>4, <1>5, <2>1, UrlUndone DEF FromFsPath
  <2>3. Value(Urlparse(FromFsPath(win, given))) = v
    BY <1>5, <2>2 DEF Value
  <2> QED
    BY <2>3 DEF ToFsPath, Value
<1>n. ASSUME p[1] = "/"
      PROVE  NativeForm(win, given) = IF win THEN Replace(p, "/", "\\") ELSE p
  <2>1. win => Replace(given, "/", "\\")[1] = "\\"
    BY <1>1, <1>2, <1>3, <1>n DEF Replace, Map, Drives
  <2> QED
    BY <1>2, <2>1 DEF NativeForm, Drives
<1>6. CASE IsUnc(p)
  <2>1. PICK k \in HostEnd(p) : k = CHOOSE n \in HostEnd(p) : TRUE
    BY <1>6, <1>r
  <2>e. PICK netloc, rest : netloc = SubSeq(p, 3, k - 1) /\ rest = SubSeq(p, k, Len(p))
    OBVIOUS
  <2>2. k \in 3 .. Len(p)
    BY <2>1 DEF HostEnd
  <2>3. p[1] = "/" /\ Len(p) >= 3 /\ p[3] # "/"
    BY <1>1, <1>6 DEF IsUnc, Drives
  <2>4. k < Len(p) => p[k + 1] # "C:"
    <3>1. CASE win = TRUE
      <4>1. k < Len(p) => k + 1 \in 2 .. Len(p)
        BY <1>3, <2>2
      <4> QED
        BY <1>1, <3>1, <4>1 DEF Drives
    <3>2. CASE win = FALSE
      BY <1>2, <1>6, <2>1, <3>2 DEF TakenForDrive
    <3> QED
      BY <3>1, <3>2
  <2>u. UncParts(p, netloc, rest)
    BY <1>2, <1>6, <2>e, <2>3, <2>4, UncKept
  <2>5. /\ netloc \in Seq(Tokens) /\ netloc # <<>>
        /\ rest \in Seq(Tokens) /\ rest # <<>> /\ Head(rest) = "/"
        /\ LowerDrive(rest) = rest
        /\ <<"/", "/">> \o netloc \o rest = p
    BY <2>u DEF UncParts
  <2>6. parts = [path |-> rest, netloc |-> netloc]
    BY <1>0, <1>4, <1>6, <2>1, <2>e, <2>5 DEF NormalizeWinPath
  <2>7. Value(parts) = p
    BY <2>5, <2>6 DEF Value
  <2> QED
    BY <1>5, <1>n, <2>3, <2>5, <2>6, <2>7
<1>7. CASE ~IsUnc(p) /\ p[1] = "/"
  <2>1. Len(p) >= 2 => p[2] \notin Drives
    <3>1. CASE win = TRUE
      BY <1>1, <1>3, <3>1
    <3>2. CASE win = FALSE
      BY <1>2, <1>3, <1>7, <3>2 DEF TakenForDrive, HasDrive
    <3> QED
      BY <3>1, <3>2
  <2>2. LowerDrive(p) = p /\ ~HasDrive(p)
    BY <2>1 DEF LowerDrive, HasDrive
  <2>3. parts = [path |-> p, netloc |-> <<>>]
    BY <1>0, <1>3, <1>4, <1>7, <2>2 DEF NormalizeWinPath
  <2>4. Value(parts) = p /\ <<>> \in Seq(Tokens)
    BY <2>2, <2>3, EmptySeq DEF Value
  <2> QED
    BY <1>2, <1>5, <1>7, <1>n, <2>3, <2>4
<1>8. CASE win = TRUE /\ p[1] \in Drives
  <2> DEFINE r == <<"/">> \o p
             low == LowerDrive(r)
             d == [p EXCEPT ![1] = "c:"]
  <2>1. ~IsUnc(p) /\ p[1] # "/"
    BY <1>8 DEF IsUnc, Drives
  <2>2. /\ low \in Seq(Tokens) /\ HasDrive(low)
        /\ Tail(LowerDrive(low)) = d
    BY <1>2, <1>3, <1>8, DriveKept
  <2>3. parts = [path |-> low, netloc |-> <<>>]
    BY <1>0, <1>3, <1>4, <2>1 DEF NormalizeWinPath
  <2> HIDE DEF low
  <2>4. Value(parts) = d /\ <<>> \in Seq(Tokens)
    BY <2>2, <2>3, EmptySeq DEF Value
  <2>5. ToFsPath(win, FromFsPath(win, given)) = Replace(d, "/", "\\")
    BY <1>5, <1>8, <2>2, <2>3, <2>4
  <2>6. NativeForm(win, given) = [Replace(p, "/", "\\") EXCEPT ![1] = "c:"]
    <3>1. Replace(p, "/", "\\")[1] = p[1]
      BY <1>3, <2>1 DEF Replace, Map
    <3> QED
      BY <1>2, <1>8, <3>1 DEF NativeForm
  <2>7. Replace(d, "/", "\\") = [Replace(p, "/", "\\") EXCEPT ![1] = "c:"]
    BY <1>2, <1>3, DriveReplaced
  <2> QED
    BY <2>5, <2>6, <2>7
<1> QED
  BY <1>1, <1>6, <1>7, <1>8

-----------------------------------------------------------------------------
(* The capabilities (Capabilities).                                         *)

\* Everything a capability invites the client to send is among the features of
\* the builder, or is one of its commands.
Honest(b, c) ==
  /\ Primary[c[1]] \subseteq b.features
  /\ \A k \in Companions : c = <<k[1], k[2]>> => k[3] \in b.features
  /\ c[1] = "execute_command" => c[2] \in b.commands

LEMMA PrimaryOf ==
  /\ Primary["open_close"] = {"textDocument/didOpen", "textDocument/didClose"}
  /\ Primary["change"] = {"textDocument/didChange"}
  /\ Primary["will_save"] = {"textDocument/willSave"}
  /\ Primary["will_save_wait_until"] = {"textDocument/willSaveWaitUntil"}
  /\ Primary["save"] = {"textDocument/didSave"}
  /\ Primary["notebook_document_sync"] = NotebookSync
  /\ Primary["completion"] = {"textDocument/completion"}
  /\ Primary["hover"] = {"textDocument/hover"}
  /\ Primary["signature_help"] = {"textDocument/signatureHelp"}
  /\ Primary["declaration"] = {"textDocument/declaration"}
  /\ Primary["definition"] = {"textDocument/definition"}
  /\ Primary["type_definition"] = {"textDocument/typeDefinition"}
  /\ Primary["inlay_hint"] = {"textDocument/inlayHint"}
  /\ Primary["implementation"] = {"textDocument/implementation"}
  /\ Primary["references"] = {"textDocument/references"}
  /\ Primary["document_highlight"] = {"textDocument/documentHighlight"}
  /\ Primary["document_symbol"] = {"textDocument/documentSymbol"}
  /\ Primary["code_action"] = {"textDocument/codeAction"}
  /\ Primary["code_lens"] = {"textDocument/codeLens"}
  /\ Primary["document_link"] = {"textDocument/documentLink"}
  /\ Primary["color"] = {"textDocument/documentColor"}
  /\ Primary["formatting"] = {"textDocument/formatting"}
  /\ Primary["range_formatting"] = {"textDocument/rangeFormatting"}
  /\ Primary["on_type_formatting"] = {"textDocument/onTypeFormatting"}
  /\ Primary["rename"] = {"textDocument/rename"}
  /\ Primary["folding_range"] = {"textDocument/foldingRange"}
  /\ Primary["execute_command"] = {"workspace/executeCommand"}
  /\ Primary["selection_range"] = {"textDocument/selectionRange"}
  /\ Primary["call_hierarchy"] = {"textDocument/prepareCallHierarchy"}
  /\ Primary["type_hierarchy"] = {"textDocument/prepareTypeHierarchy"}
  /\ Primary["semantic_tokens"] = {}
  /\ Primary["linked_editing_range"] = {"textDocument/linkedEditingRange"}
  /\ Primary["moniker"] = {"textDocument/moniker"}
  /\ Primary["workspace_symbol"] = {"workspace/symbol"}
  /\ Primary["workspace_folders"] = {"workspace/didChangeWorkspaceFolders"}
  /\ Primary["diagnostic"] = {"textDocument/diagnostic"}
  /\ Primary["inline_value"] = {"textDocument/inlineValue"}
  /\ Primary["inline_completion"] = {"textDocument/inlineCompletion"}
  /\ Primary["will_create"] = {"workspace/willCreateFiles"}
  /\ Primary["did_create"] = {"workspace/didCreateFiles"}
  /\ Primary["will_delete"] = {"workspace/willDeleteFiles"}
  /\ Primary["did_delete"] = {"workspace/didDeleteFiles"}
  /\ Primary["will_rename"] = {"workspace/willRenameFiles"}
  /\ Primary["did_rename"] = {"workspace/didRenameFiles"}
BY DEF Primary

\* The fields that may invite more than the feature they are named for.
CompanionFields == {"inlay_hint", "code_lens", "document_link", "rename", "workspace_symbol",
                    "diagnostic", "semantic_tokens"}

LEMMA FieldsOfCompanions == \A k \in Companions : k[1] \in CompanionFields
BY DEF Companions, CompanionFields

\* A field of the usual shape is set only for its feature.
LEMMA ProviderHonest ==
  ASSUME NEW b, NEW field, NEW m, NEW default, NEW c \in Provider(b, field, m, default)
  PROVE  c[1] = field /\ m \in b.features
BY DEF Provider, Field, ProviderOptions

LEMMA PlainHonest ==
  ASSUME NEW b, NEW c, Primary[c[1]] \subseteq b.features,
         c[1] \notin CompanionFields, c[1] # "execute_command"
  PROVE  Honest(b, c)
<1>1. \A k \in Companions : c # <<k[1], k[2]>>
  BY FieldsOfCompanions
<1> QED
  BY <1>1 DEF Honest

\* A flag of the options is set only if the companion is registered.
LEMMA ProviderWithHonest ==
  ASSUME NEW b, NEW field, NEW m, NEW companion, NEW flag,
         NEW c \in ProviderWith(b, field, m, companion, flag), flag # "on"
  PROVE  c[1] = field /\ m \in b.features /\ (c[2] = flag => companion \in b.features)
BY DEF ProviderWith, Field, On

\* Every method of the builder is honest, given the built-in features.
LEMMA BuildHonest ==
  ASSUME NEW b, Builtin \subseteq b.features, NEW c \in Build(b)
  PROVE  Honest(b, c)
<1>1. CASE c \in WithCompletion(b)
  <2>1. c[1] = "completion" /\ "textDocument/completion" \in b.features
    BY <1>1, ProviderHonest DEF WithCompletion
  <2> QED
    BY <2>1, PrimaryOf, PlainHonest DEF CompanionFields
<1>2. CASE c \in WithHover(b)
  <2>1. c[1] = "hover" /\ "textDocument/hover" \in b.features
    BY <1>2, ProviderHonest DEF WithHover
  <2> QED
    BY <2>1, PrimaryOf, PlainHonest DEF CompanionFields
<1>3. CASE c \in WithSignatureHelp(b)
  <2>1. c[1] = "signature_help" /\ "textDocument/signatureHelp" \in b.features
    BY <1>3, ProviderHonest DEF WithSignatureHelp
  <2> QED
    BY <2>1, PrimaryOf, PlainHonest DEF CompanionFields
<1>4. CASE c \in WithDeclaration(b)
  <2>1. c[1] = "declaration" /\ "textDocument/declaration" \in b.features
    BY <1>4, ProviderHonest DEF WithDeclaration
  <2> QED
    BY <2>1, PrimaryOf, PlainHonest DEF CompanionFields
<1>5. CASE c \in WithDefinition(b)
  <2>1. c[1] = "definition" /\ "textDocument/definition" \in b.features
    BY <1>5, ProviderHonest DEF WithDefinition
  <2> QED
    BY <2>1, PrimaryOf, PlainHonest DEF CompanionFields
<1>6. CASE c \in WithTypeDefinition(b)
  <2>1. c[1] = "type_definition" /\ "textDocument/typeDefinition" \in b.features
    BY <1>6, ProviderHonest DEF WithTypeDefinition
  <2> QED
    BY <2>1, PrimaryOf, PlainHonest DEF CompanionFields
<1>7. CASE c \in WithImplementation(b)
  <2>1. c[1] = "implementation" /\ "textDocument/implementation" \in b.features
    BY <1>7, ProviderHonest DEF WithImplementation
  <2> QED
    BY <2>1, PrimaryOf, PlainHonest DEF CompanionFields
<1>8. CASE c \in WithReferences(b)
  <2>1. c[1] = "references" /\ "textDocument/references" \in b.features
    BY <1>8, ProviderHonest DEF WithReferences
  <2> QED
    BY <2>1, PrimaryOf, PlainHonest DEF CompanionFields
<1>9. CASE c \in WithDocumentHighlight(b)
  <2>1. c[1] = "document_highlight" /\ "textDocument/documentHighlight" \in b.features
    BY <1>9, ProviderHonest DEF WithDocumentHighlight
  <2> QED
    BY <2>1, PrimaryOf, PlainHonest DEF CompanionFields
<1>10. CASE c \in WithDocumentSymbol(b)
  <2>1. c[1] = "document_symbol" /\ "textDocument/documentSymbol" \in b.features
    BY <1>10, ProviderHonest DEF WithDocumentSymbol
  <2> QED
    BY <2>1, PrimaryOf, PlainHonest DEF CompanionFields
<1>11. CASE c \in WithCodeAction(b)
  <2>1. c[1] = "code_action" /\ "textDocument/codeAction" \in b.features
    BY <1>11, ProviderHonest DEF WithCodeAction
  <2> QED
    BY <2>1, PrimaryOf, PlainHonest DEF CompanionFields
<1>12. CASE c \in WithColor(b)
  <2>1. c[1] = "color" /\ "textDocument/documentColor" \in b.features
    BY <1>12, ProviderHonest DEF WithColor
  <2> QED
    BY <2>1, PrimaryOf, PlainHonest DEF CompanionFields
<1>13. CASE c \in WithDocumentFormatting(b)
  <2>1. c[1] = "formatting" /\ "textDocument/formatting" \in b.features
    BY <1>13, ProviderHonest DEF WithDocumentFormatting
  <2> QED
    BY <2>1, PrimaryOf, PlainHonest DEF CompanionFields
<1>14. CASE c \in WithDocumentRangeFormatting(b)
  <2>1. c[1] = "range_formatting" /\ "textDocument/rangeFormatting" \in b.features
    BY <1>14, ProviderHonest DEF WithDocumentRangeFormatting
  <2> QED
    BY <2>1, PrimaryOf, PlainHonest DEF CompanionFields
<1>15. CASE c \in WithDocumentOnTypeFormatting(b)
  <2>1. c[1] = "on_type_formatting" /\ "textDocument/onTypeFormatting" \in b.features
    BY <1>15, ProviderHonest DEF WithDocumentOnTypeFormatting
  <2> QED
    BY <2>1, PrimaryOf, PlainHonest DEF CompanionFields
<1>16. CASE c \in WithFoldingRange(b)
  <2>1. c[1] = "folding_range" /\ "textDocument/foldingRange" \in b.features
    BY <1>16, ProviderHonest DEF WithFoldingRange
  <2> QED
    BY <2>1, PrimaryOf, PlainHonest DEF CompanionFields
<1>17. CASE c \in WithSelectionRange(b)
  <2>1. c[1] = "selection_range" /\ "textDocument/selectionRange" \in b.features
    BY <1>17, ProviderHonest DEF WithSelectionRange
  <2> QED
    BY <2>1, PrimaryOf, PlainHonest DEF CompanionFields
<1>18. CASE c \in WithCallHierarchy(b)
  <2>1. c[1] = "call_hierarchy" /\ "textDocument/prepareCallHierarchy" \in b.features
    BY <1>18, ProviderHonest DEF WithCallHierarchy
  <2> QED
    BY <2>1, PrimaryOf, PlainHonest DEF CompanionFields
<1>19. CASE c \in WithTypeHierarchy(b)
  <2>1. c[1] = "type_hierarchy" /\ "textDocument/prepareTypeHierarchy" \in b.features
    BY <1>19, ProviderHonest DEF WithTypeHierarchy
  <2> QED
    BY <2>1, PrimaryOf, PlainHonest DEF CompanionFields
<1>20. CASE c \in WithLinkedEditingRange(b)
  <2>1. c[1] = "linked_editing_range" /\ "textDocument/linkedEditingRange" \in b.features
    BY <1>20, ProviderHonest DEF WithLinkedEditingRange
  <2> QED
    BY <2>1, PrimaryOf, PlainHonest DEF CompanionFields
<1>21. CASE c \in WithMoniker(b)
  <2>1. c[1] = "moniker" /\ "textDocument/moniker" \in b.features
    BY <1>21, ProviderHonest DEF WithMoniker
  <2> QED
    BY <2>1, PrimaryOf, PlainHonest DEF CompanionFields
<1>22. CASE c \in WithInlineValueProvider(b)
  <2>1. c[1] = "inline_value" /\ "textDocument/inlineValue" \in b.features
    BY <1>22, ProviderHonest DEF WithInlineValueProvider
  <2> QED
    BY <2>1, PrimaryOf, PlainHonest DEF CompanionFields
<1>23. CASE c \in WithInlineCompletionProvider(b)
  <2>1. c[1] = "inline_completion" /\ "textDocument/inlineCompletion" \in b.features
    BY <1>23, ProviderHonest DEF WithInlineCompletionProvider
  <2> QED
    BY <2>1, PrimaryOf, PlainHonest DEF CompanionFields
<1>24. CASE c \in WithInlayHints(b)
  <2>1. /\ c[1] = "inlay_hint" /\ "textDocument/inlayHint" \in b.features
        /\ c[2] = "resolve" => "inlayHint/resolve" \in b.features
    BY <1>24, ProviderWithHonest DEF WithInlayHints
  <2>2. \A k \in Companions : c = <<k[1], k[2]>> => k[3] \in b.features
    BY <2>1 DEF Companions
  <2> QED
    BY <2>1, <2>2, PrimaryOf DEF Honest
<1>25. CASE c \in WithCodeLens(b)
  <2>1. /\ c[1] = "code_lens" /\ "textDocument/codeLens" \in b.features
        /\ c[2] = "resolve" => "codeLens/resolve" \in b.features
    BY <1>25, ProviderWithHonest DEF WithCodeLens
  <2>2. \A k \in Companions : c = <<k[1], k[2]>> => k[3] \in b.features
    BY <2>1 DEF Companions
  <2> QED
    BY <2>1, <2>2, PrimaryOf DEF Honest
<1>26. CASE c \in WithDocumentLink(b)
  <2>1. /\ c[1] = "document_link" /\ "textDocument/documentLink" \in b.features
        /\ c[2] = "resolve" => "documentLink/resolve" \in b.features
    BY <1>26, ProviderWithHonest DEF WithDocumentLink
  <2>2. \A k \in Companions : c = <<k[1], k[2]>> => k[3] \in b.features
    BY <2>1 DEF Companions
  <2> QED
    BY <2>1, <2>2, PrimaryOf DEF Honest
<1>27. CASE c \in WithWorkspaceSymbol(b)
  <2>1. /\ c[1] = "workspace_symbol" /\ "workspace/symbol" \in b.features
        /\ c[2] = "resolve" => "workspaceSymbol/resolve" \in b.features
    BY <1>27, ProviderWithHonest DEF WithWorkspaceSymbol
  <2>2. \A k \in Companions : c = <<k[1], k[2]>> => k[3] \in b.features
    BY <2>1 DEF Companions
  <2> QED
    BY <2>1, <2>2, PrimaryOf DEF Honest
<1>28. CASE c \in WithDiagnosticProvider(b)
  <2>1. /\ c[1] = "diagnostic" /\ "textDocument/diagnostic" \in b.features
        /\ c[2] = "workspace" => "workspace/diagnostic" \in b.features
    BY <1>28, ProviderWithHonest DEF WithDiagnosticProvider
  <2>2. \A k \in Companions : c = <<k[1], k[2]>> => k[3] \in b.features
    BY <2>1 DEF Companions
  <2> QED
    BY <2>1, <2>2, PrimaryOf DEF Honest
<1>31. CASE c \in WithTextDocumentSync(b)
  <2>1. \/ c[1] = "open_close" \/ c[1] = "change"
        \/ c[1] = "will_save" /\ "textDocument/willSave" \in b.features
        \/ c[1] = "will_save_wait_until" /\ "textDocument/willSaveWaitUntil" \in b.features
        \/ c[1] = "save" /\ "textDocument/didSave" \in b.features
    BY <1>31 DEF WithTextDocumentSync, Field, Provider, ProviderOptions, On, None
  <2>2. \A k \in Companions : c # <<k[1], k[2]>>
    BY <2>1, FieldsOfCompanions DEF CompanionFields
  <2>3. {"textDocument/didOpen", "textDocument/didClose", "textDocument/didChange"}
          \subseteq b.features
    BY DEF Builtin, Synchronising
  <2> QED
    BY <2>1, <2>2, <2>3, PrimaryOf DEF Honest
<1>32. CASE c \in WithNotebookDocumentSync(b)
  <2>1. c[1] = "notebook_document_sync" /\ NotebookSync \subseteq b.features
    BY <1>32 DEF WithNotebookDocumentSync, Field, Builtin, Synchronising
  <2>2. \A k \in Companions : c # <<k[1], k[2]>>
    BY <2>1, FieldsOfCompanions DEF CompanionFields
  <2> QED
    BY <2>1, <2>2, PrimaryOf DEF Honest
<1>33. CASE c \in WithRename(b)
  <2>1. /\ c[1] = "rename" /\ "textDocument/rename" \in b.features
        /\ c[2] = "prepare" => "textDocument/prepareRename" \in b.features
    BY <1>33 DEF WithRename, Field, On
  <2>2. \A k \in Companions : c = <<k[1], k[2]>> => k[3] \in b.features
    BY <2>1 DEF Companions
  <2> QED
    BY <2>1, <2>2, PrimaryOf DEF Honest
<1>34. CASE c \in WithExecuteCommand(b)
  <2>1. c[1] = "execute_command" /\ c[2] \in b.commands
    BY <1>34 DEF WithExecuteCommand, Field
  <2>2. \A k \in Companions : c # <<k[1], k[2]>>
    BY <2>1, FieldsOfCompanions DEF CompanionFields
  <2>3. "workspace/executeCommand" \in b.features
    BY DEF Builtin
  <2> QED
    BY <2>1, <2>2, <2>3, PrimaryOf DEF Honest
<1>35. CASE c \in WithSemanticTokens(b)
  <2>1. /\ c[1] = "semantic_tokens"
        /\ c[2] = "delta" => TokensDelta \in b.features
        /\ c[2] = "full" => TokensFull \in b.features
        /\ c[2] = "range" => TokensRange \in b.features
    BY <1>35 DEF WithSemanticTokens, Field
  <2>2. \A k \in Companions : c = <<k[1], k[2]>> => k[3] \in b.features
    BY <2>1 DEF Companions
  <2> QED
    BY <2>1, <2>2, PrimaryOf DEF Honest
<1>36. CASE c \in WithWorkspaceCapabilities(b)
  <2>1. \/ c[1] = "workspace_folders"
        \/ \E op \in FileOperations : c \in Provider(b, op[2], op[1], None)
    BY <1>36 DEF WithWorkspaceCapabilities, Field
  <2>2. CASE c[1] = "workspace_folders"
    <3>1. \A k \in Companions : c # <<k[1], k[2]>>
      BY <2>2, FieldsOfCompanions DEF CompanionFields
    <3>2. "workspace/didChangeWorkspaceFolders" \in b.features
      BY DEF Builtin, Synchronising
    <3> QED
      BY <2>2, <3>1, <3>2, PrimaryOf DEF Honest
  <2>3. ASSUME NEW op \in FileOperations, c \in Provider(b, op[2], op[1], None)
        PROVE  Honest(b, c)
    <3>1. /\ op[2] \notin CompanionFields /\ op[2] # "execute_command"
          /\ Primary[op[2]] = {op[1]}
      BY PrimaryOf DEF FileOperations, CompanionFields
    <3>2. c[1] = op[2] /\ op[1] \in b.features
      BY <2>3, ProviderHonest
    <3> QED
      BY <3>1, <3>2, PlainHonest
  <2> QED
    BY <2>1, <2>2, <2>3
<1> QED
  BY <1>1, <1>2, <1>3, <1>4, <1>5, <1>6, <1>7, <1>8, <1>9, <1>10, <1>11, <1>12, <1>13,
     <1>14, <1>15, <1>16, <1>17, <1>18, <1>19, <1>20, <1>21, <1>22, <1>23, <1>24, <1>25,
     <1>26, <1>27, <1>28, <1>31, <1>32, <1>33, <1>34, <1>35, <1>36 DEF Build

\* The other way round: a field of the usual shape is set for its feature.
LEMMA ProviderSets ==
  ASSUME NEW b, NEW field, NEW m, NEW default, m \in b.features,
         default = On \/ m \in DOMAIN b.options
  PROVE  \E c \in Provider(b, field, m, default) : c[1] = field
<1>1. PICK x : x \in ProviderOptions(b, m, default)
  BY DEF ProviderOptions, GetOr, On
<1>2. <<field, x>> \in Provider(b, field, m, default)
  BY <1>1 DEF Provider, Field
<1> QED
  BY <1>2

LEMMA ProviderWithSets ==
  ASSUME NEW b, NEW field, NEW m, NEW companion, NEW flag, m \in b.features
  PROVE  \E c \in ProviderWith(b, field, m, companion, flag) : c[1] = field
<1>1. \/ <<field, flag>> \in ProviderWith(b, field, m, companion, flag)
      \/ <<field, "on">> \in ProviderWith(b, field, m, companion, flag)
  BY DEF ProviderWith, Field, On
<1> QED
  BY <1>1

LEMMA FlagSet ==
  ASSUME NEW b, NEW field, NEW m, NEW companion, NEW flag,
         m \in b.features, companion \in b.features
  PROVE  <<field, flag>> \in ProviderWith(b, field, m, companion, flag)
BY DEF ProviderWith, Field

\* What the builder of lsp_initialize is made from.
BuilderOf(b) ==
  /\ b.features = DOMAIN features \cup Builtin /\ b.options = options
  /\ b.client = program.client /\ b.notebook = program.notebook
  /\ b.commands = DOMAIN commands

\* A feature that has a field of its own turns it on.
LEMMA FieldsAreSet ==
  ASSUME NEW b, BuilderOf(b), NEW m \in DOMAIN features, Announceable(m),
         NEW field \in DOMAIN Primary, m \in Primary[field]
  PROVE  \E c \in Build(b) : c[1] = field
<1>b. m \in b.features /\ (m \in WithOptions => m \in DOMAIN b.options)
  BY DEF BuilderOf, Announceable
<1>1. CASE field = "completion"
  <2>1. m = "textDocument/completion"
    BY <1>1, PrimaryOf
  <2> QED
    BY <1>b, <1>1, <2>1, ProviderSets DEF Build, WithCompletion
<1>2. CASE field = "hover"
  <2>1. m = "textDocument/hover"
    BY <1>2, PrimaryOf
  <2> QED
    BY <1>b, <1>2, <2>1, ProviderSets DEF Build, WithHover
<1>3. CASE field = "signature_help"
  <2>1. m = "textDocument/signatureHelp"
    BY <1>3, PrimaryOf
  <2> QED
    BY <1>b, <1>3, <2>1, ProviderSets DEF Build, WithSignatureHelp
<1>4. CASE field = "declaration"
  <2>1. m = "textDocument/declaration"
    BY <1>4, PrimaryOf
  <2> QED
    BY <1>b, <1>4, <2>1, ProviderSets DEF Build, WithDeclaration
<1>5. CASE field = "definition"
  <2>1. m = "textDocument/definition"
    BY <1>5, PrimaryOf
  <2> QED
    BY <1>b, <1>5, <2>1, ProviderSets DEF Build, WithDefinition
<1>6. CASE field = "type_definition"
  <2>1. m = "textDocument/typeDefinition"
    BY <1>6, PrimaryOf
  <2> QED
    BY <1>b, <1>6, <2>1, ProviderSets DEF Build, WithTypeDefinition
<1>7. CASE field = "implementation"
  <2>1. m = "textDocument/implementation"
    BY <1>7, PrimaryOf
  <2> QED
    BY <1>b, <1>7, <2>1, ProviderSets DEF Build, WithImplementation
<1>8. CASE field = "references"
  <2>1. m = "textDocument/references"
    BY <1>8, PrimaryOf
  <2> QED
    BY <1>b, <1>8, <2>1, ProviderSets DEF Build, WithReferences
<1>9. CASE field = "document_highlight"
  <2>1. m = "textDocument/documentHighlight"
    BY <1>9, PrimaryOf
  <2> QED
    BY <1>b, <1>9, <2>1, ProviderSets DEF Build, WithDocumentHighlight
<1>10. CASE field = "document_symbol"
  <2>1. m = "textDocument/documentSymbol"
    BY <1>10, PrimaryOf
  <2> QED
    BY <1>b, <1>10, <2>1, ProviderSets DEF Build, WithDocumentSymbol
<1>11. CASE field = "code_action"
  <2>1. m = "textDocument/codeAction"
    BY <1>11, PrimaryOf
  <2> QED
    BY <1>b, <1>11, <2>1, ProviderSets DEF Build, WithCodeAction
<1>12. CASE field = "color"
  <2>1. m = "textDocument/documentColor"
    BY <1>12, PrimaryOf
  <2> QED
    BY <1>b, <1>12, <2>1, ProviderSets DEF Build, WithColor
<1>13. CASE field = "formatting"
  <2>1. m = "textDocument/formatting"
    BY <1>13, PrimaryOf
  <2> QED
    BY <1>b, <1>13, <2>1, ProviderSets DEF Build, WithDocumentFormatting
<1>14. CASE field = "range_formatting"
  <2>1. m = "textDocument/rangeFormatting"
    BY <1>14, PrimaryOf
  <2> QED
    BY <1>b, <1>14, <2>1, ProviderSets DEF Build, WithDocumentRangeFormatting
<1>15. CASE field = "on_type_formatting"
  <2>1. m = "textDocument/onTypeFormatting" /\ m \in WithOptions
    BY <1>15, PrimaryOf DEF WithOptions
  <2> QED
    BY <1>b, <1>15, <2>1, ProviderSets DEF Build, WithDocumentOnTypeFormatting
<1>16. CASE field = "folding_range"
  <2>1. m = "textDocument/foldingRange"
    BY <1>16, PrimaryOf
  <2> QED
    BY <1>b, <1>16, <2>1, ProviderSets DEF Build, WithFoldingRange
<1>17. CASE field = "selection_range"
  <2>1. m = "textDocument/selectionRange"
    BY <1>17, PrimaryOf
  <2> QED
    BY <1>b, <1>17, <2>1, ProviderSets DEF Build, WithSelectionRange
<1>18. CASE field = "call_hierarchy"
  <2>1. m = "textDocument/prepareCallHierarchy"
    BY <1>18, PrimaryOf
  <2> QED
    BY <1>b, <1>18, <2>1, ProviderSets DEF Build, WithCallHierarchy
<1>19. CASE field = "type_hierarchy"
  <2>1. m = "textDocument/prepareTypeHierarchy"
    BY <1>19, PrimaryOf
  <2> QED
    BY <1>b, <1>19, <2>1, ProviderSets DEF Build, WithTypeHierarchy
<1>20. CASE field = "linked_editing_range"
  <2>1. m = "textDocument/linkedEditingRange"
    BY <1>20, PrimaryOf
  <2> QED
    BY <1>b, <1>20, <2>1, ProviderSets DEF Build, WithLinkedEditingRange
<1>21. CASE field = "moniker"
  <2>1. m = "textDocument/moniker"
    BY <1>21, PrimaryOf
  <2> QED
    BY <1>b, <1>21, <2>1, ProviderSets DEF Build, WithMoniker
<1>22. CASE field = "inline_value"
  <2>1. m = "textDocument/inlineValue"
    BY <1>22, PrimaryOf
  <2> QED
    BY <1>b, <1>22, <2>1, ProviderSets DEF Build, WithInlineValueProvider
<1>23. CASE field = "inline_completion"
  <2>1. m = "textDocument/inlineCompletion" /\ m \in WithOptions
    BY <1>23, PrimaryOf DEF WithOptions
  <2> QED
    BY <1>b, <1>23, <2>1, ProviderSets DEF Build, WithInlineCompletionProvider
<1>24. CASE field = "inlay_hint"
  <2>1. m = "textDocument/inlayHint"
    BY <1>24, PrimaryOf
  <2> QED
    <3>1. \E c \in WithInlayHints(b) : c[1] = "inlay_hint"
      BY <1>b, <2>1, ProviderWithSets DEF WithInlayHints
    <3> QED
      BY <1>24, <3>1 DEF Build
<1>25. CASE field = "code_lens"
  <2>1. m = "textDocument/codeLens"
    BY <1>25, PrimaryOf
  <2> QED
    <3>1. \E c \in WithCodeLens(b) : c[1] = "code_lens"
      BY <1>b, <2>1, ProviderWithSets DEF WithCodeLens
    <3> QED
      BY <1>25, <3>1 DEF Build
<1>26. CASE field = "document_link"
  <2>1. m = "textDocument/documentLink"
    BY <1>26, PrimaryOf
  <2> QED
    <3>1. \E c \in WithDocumentLink(b) : c[1] = "document_link"
      BY <1>b, <2>1, ProviderWithSets DEF WithDocumentLink
    <3> QED
      BY <1>26, <3>1 DEF Build
<1>27. CASE field = "workspace_symbol"
  <2>1. m = "workspace/symbol"
    BY <1>27, PrimaryOf
  <2> QED
    <3>1. \E c \in WithWorkspaceSymbol(b) : c[1] = "workspace_symbol"
      BY <1>b, <2>1, ProviderWithSets DEF WithWorkspaceSymbol
    <3> QED
      BY <1>27, <3>1 DEF Build
<1>28. CASE field = "diagnostic"
  <2>1. m = "textDocument/diagnostic"
    BY <1>28, PrimaryOf
  <2> QED
    <3>1. \E c \in WithDiagnosticProvider(b) : c[1] = "diagnostic"
      BY <1>b, <2>1, ProviderWithSets DEF WithDiagnosticProvider
    <3> QED
      BY <1>28, <3>1 DEF Build
<1>s. \A s \in Supported : m = s[1] => s[2] \in b.client
  BY DEF BuilderOf, Announceable
<1>31. CASE field \in {"open_close", "change"}
  <2>1. "textDocument/didOpen" \in b.features
    BY DEF BuilderOf, Builtin, Synchronising
  <2>2. <<"open_close", "on">> \in WithTextDocumentSync(b)
         /\ <<"change", "on">> \in WithTextDocumentSync(b)
    BY <2>1 DEF WithTextDocumentSync, Field, On
  <2> QED
    BY <1>31, <2>2 DEF Build
<1>32. CASE field = "will_save"
  <2>1. m = "textDocument/willSave" /\ "will_save" \in b.client
    <3>1. <<"textDocument/willSave", "will_save">> \in Supported
      BY DEF Supported
    <3> QED
      BY <1>s, <1>32, <3>1, PrimaryOf
  <2>2. <<"will_save", "on">> \in WithTextDocumentSync(b)
    BY <1>b, <2>1 DEF WithTextDocumentSync, Field, On
  <2> QED
    BY <1>32, <2>2 DEF Build
<1>33. CASE field = "will_save_wait_until"
  <2>1. m = "textDocument/willSaveWaitUntil" /\ "will_save_wait_until" \in b.client
    <3>1. <<"textDocument/willSaveWaitUntil", "will_save_wait_until">> \in Supported
      BY DEF Supported
    <3> QED
      BY <1>s, <1>33, <3>1, PrimaryOf
  <2>2. <<"will_save_wait_until", "on">> \in WithTextDocumentSync(b)
    BY <1>b, <2>1 DEF WithTextDocumentSync, Field, On
  <2> QED
    BY <1>33, <2>2 DEF Build
<1>34. CASE field = "save"
  <2>1. m = "textDocument/didSave"
    BY <1>34, PrimaryOf
  <2>2. PICK c \in Provider(b, "save", "textDocument/didSave", On) : c[1] = "save"
    BY <1>b, <2>1, ProviderSets
  <2>3. c \in WithTextDocumentSync(b)
    BY <2>2 DEF WithTextDocumentSync
  <2> QED
    BY <1>34, <2>2, <2>3 DEF Build
<1>35. CASE field = "notebook_document_sync"
  <2>1. "notebook_document" \in b.client /\ b.notebook
    BY <1>35, PrimaryOf DEF BuilderOf, Announceable
  <2>2. <<"notebook_document_sync", "on">> \in WithNotebookDocumentSync(b)
    BY <2>1 DEF WithNotebookDocumentSync, Field, On
  <2> QED
    BY <1>35, <2>2 DEF Build
<1>36. CASE field = "rename"
  <2>1. m = "textDocument/rename"
    BY <1>36, PrimaryOf
  <2>2. \E c \in WithRename(b) : c[1] = "rename"
    <3>1. \/ <<"rename", "prepare">> \in WithRename(b)
          \/ <<"rename", "on">> \in WithRename(b)
      BY <1>b, <2>1 DEF WithRename, Field, On
    <3> QED
      BY <3>1
  <2> QED
    BY <1>36, <2>2 DEF Build
<1>37. CASE field = "execute_command"
  <2>1. m = "workspace/executeCommand"
    BY <1>37, PrimaryOf
  <2>2. PICK x : x \in b.commands
    BY <2>1 DEF BuilderOf, Announceable
  <2>3. <<"execute_command", x>> \in WithExecuteCommand(b)
    BY <2>2 DEF WithExecuteCommand, Field
  <2> QED
    BY <1>37, <2>3 DEF Build
<1>38. CASE field = "workspace_folders"
  <2>1. <<"workspace_folders", "on">> \in WithWorkspaceCapabilities(b)
    BY DEF WithWorkspaceCapabilities, Field, On
  <2> QED
    BY <1>38, <2>1 DEF Build
<1>39. CASE \E op \in FileOperations : field = op[2]
  <2>1. PICK op \in FileOperations : field = op[2]
    BY <1>39
  <2>2. Primary[op[2]] = {op[1]}
    BY PrimaryOf DEF FileOperations
  <2>3. m = op[1] /\ m \in WithOptions /\ op[2] \in b.client
    BY <1>s, <2>1, <2>2 DEF WithOptions, Supported
  <2>4. PICK c \in Provider(b, op[2], op[1], None) : c[1] = op[2]
    BY <1>b, <2>3, ProviderSets
  <2>5. c \in WithWorkspaceCapabilities(b)
    BY <2>3, <2>4 DEF WithWorkspaceCapabilities
  <2> QED
    BY <2>1, <2>4, <2>5 DEF Build
<1>40. CASE field = "semantic_tokens"
  BY <1>40, PrimaryOf
<1> QED
  BY <1>1, <1>2, <1>3, <1>4, <1>5, <1>6, <1>7, <1>8, <1>9, <1>10, <1>11, <1>12, <1>13,
     <1>14, <1>15, <1>16, <1>17, <1>18, <1>19, <1>20, <1>21, <1>22, <1>23, <1>24, <1>25,
     <1>26, <1>27, <1>28, <1>31, <1>32, <1>33, <1>34, <1>35, <1>36, <1>37, <1>38, <1>39,
     <1>40
  DEF Primary, FileOperations

\* A feature that goes with another one is announced by its flag.
LEMMA FlagsAreSet ==
  ASSUME NEW b, BuilderOf(b), NEW k \in Companions, k[3] \in DOMAIN features,
         Announceable(k[3]), k[4] \in DOMAIN features,
         ~(k[3] = TokensFull /\ TokensDelta \in b.features)
  PROVE  <<k[1], k[2]>> \in Build(b)
<1>b. {k[3], k[4]} \subseteq b.features /\ (k[3] \in WithOptions => k[3] \in DOMAIN b.options)
  BY DEF BuilderOf, Announceable
<1>1. CASE k = <<"inlay_hint", "resolve", "inlayHint/resolve", "textDocument/inlayHint">>
  BY <1>b, <1>1, FlagSet DEF Build, WithInlayHints
<1>2. CASE k = <<"code_lens", "resolve", "codeLens/resolve", "textDocument/codeLens">>
  BY <1>b, <1>2, FlagSet DEF Build, WithCodeLens
<1>3. CASE k = <<"document_link", "resolve", "documentLink/resolve", "textDocument/documentLink">>
  BY <1>b, <1>3, FlagSet DEF Build, WithDocumentLink
<1>4. CASE k = <<"workspace_symbol", "resolve", "workspaceSymbol/resolve", "workspace/symbol">>
  BY <1>b, <1>4, FlagSet DEF Build, WithWorkspaceSymbol
<1>5. CASE k = <<"diagnostic", "workspace", "workspace/diagnostic", "textDocument/diagnostic">>
  BY <1>b, <1>5, FlagSet DEF Build, WithDiagnosticProvider
<1>6. CASE k = <<"rename", "prepare", "textDocument/prepareRename", "textDocument/rename">>
  <2>1. "prepare_support" \in b.client
    <3>1. <<"textDocument/prepareRename", "prepare_support">> \in Supported
      BY DEF Supported
    <3> QED
      BY <1>6, <3>1 DEF BuilderOf, Announceable
  <2>2. <<"rename", "prepare">> \in WithRename(b)
    BY <1>b, <1>6, <2>1 DEF WithRename, Field
  <2> QED
    BY <1>6, <2>2 DEF Build
<1>7. CASE k[1] = "semantic_tokens"
  <2>1. /\ k[3] \in AllTokens /\ k[3] \in WithOptions
        /\ \/ k[2] = "full" /\ k[3] = TokensFull
           \/ k[2] = "delta" /\ k[3] = TokensDelta
           \/ k[2] = "range" /\ k[3] = TokensRange
    BY <1>7 DEF Companions, AllTokens, WithOptions
  <2>2. /\ \A t \in AllTokens \cap DOMAIN b.options : b.options[t] # "registration"
        /\ ~(k[3] = TokensFull /\ TokensDelta \in b.features)
    BY <2>1 DEF BuilderOf, Announceable
  <2> DEFINE given == {t \in {TokensFull, TokensDelta, TokensRange} :
                         ProviderOptions(b, t, None) # {}}
             first == IF TokensFull \in given THEN TokensFull
                      ELSE IF TokensDelta \in given THEN TokensDelta ELSE TokensRange
  <2>3. \A t \in given : t \in AllTokens \cap DOMAIN b.options
    BY DEF ProviderOptions, GetOr, None, AllTokens
  <2>4. k[3] \in given
    BY <1>b, <2>1 DEF ProviderOptions, GetOr, AllTokens
  <2>5. first \in given
    BY <2>4
  <2>6. given # {} /\ b.options[first] # "registration"
    BY <2>2, <2>3, <2>4, <2>5
  <2>7. WithSemanticTokens(b) =
          Field("semantic_tokens",
                (IF TokensDelta \in b.features THEN {"delta"}
                 ELSE IF TokensFull \in b.features THEN {"full"} ELSE {})
                  \cup (IF TokensRange \in b.features THEN {"range"} ELSE {}))
    BY <2>6 DEF WithSemanticTokens
  <2>8. <<"semantic_tokens", k[2]>> \in WithSemanticTokens(b)
    BY <1>b, <2>1, <2>2, <2>7 DEF Field
  <2> QED
    BY <1>7, <2>8 DEF Build
<1> QED
  BY <1>1, <1>2, <1>3, <1>4, <1>5, <1>6, <1>7 DEF Companions

\* A server of both full tokens and deltas announces the deltas, and the full tokens
\* come before them.
LEMMA DeltaIsSet ==
  ASSUME NEW b, BuilderOf(b), TokensFull \in DOMAIN features, Announceable(TokensFull),
         TokensDelta \in b.features
  PROVE  <<"semantic_tokens", "delta">> \in Build(b)
<1>1. /\ TokensFull \in b.features /\ TokensFull \in DOMAIN b.options
      /\ \A t \in AllTokens \cap DOMAIN b.options : b.options[t] # "registration"
  BY DEF BuilderOf, Announceable, AllTokens, WithOptions
<1> DEFINE given == {t \in {TokensFull, TokensDelta, TokensRange} :
                       ProviderOptions(b, t, None) # {}}
<1>2. TokensFull \in given /\ b.options[TokensFull] # "registration"
  BY <1>1 DEF ProviderOptions, GetOr, AllTokens
<1>3. WithSemanticTokens(b) =
        Field("semantic_tokens",
              (IF TokensDelta \in b.features THEN {"delta"}
               ELSE IF TokensFull \in b.features THEN {"full"} ELSE {})
                \cup (IF TokensRange \in b.features THEN {"range"} ELSE {}))
  BY <1>2 DEF WithSemanticTokens
<1>4. <<"semantic_tokens", "delta">> \in WithSemanticTokens(b)
  BY <1>3 DEF Field
<1> QED
  BY <1>4 DEF Build

\* A follow-up comes with the field of the first request.
LEMMA FollowsAreSet ==
  ASSUME NEW b, BuilderOf(b), NEW k \in Follows, k[3] \in DOMAIN features
  PROVE  \E c \in Build(b) : c[1] = k[1]
<1>b. k[3] \in b.features
  BY DEF BuilderOf
<1>1. CASE k[1] = "color" /\ k[3] = "textDocument/documentColor"
  <2>1. PICK c \in Provider(b, "color", "textDocument/documentColor", On) : c[1] = "color"
    BY <1>b, <1>1, ProviderSets
  <2>2. c \in WithColor(b)
    BY <2>1 DEF WithColor
  <2> QED
    BY <1>1, <2>1, <2>2 DEF Build
<1>2. CASE k[1] = "call_hierarchy" /\ k[3] = "textDocument/prepareCallHierarchy"
  <2>1. PICK c \in Provider(b, "call_hierarchy", "textDocument/prepareCallHierarchy", On) :
          c[1] = "call_hierarchy"
    BY <1>b, <1>2, ProviderSets
  <2>2. c \in WithCallHierarchy(b)
    BY <2>1 DEF WithCallHierarchy
  <2> QED
    BY <1>2, <2>1, <2>2 DEF Build
<1>3. CASE k[1] = "type_hierarchy" /\ k[3] = "textDocument/prepareTypeHierarchy"
  <2>1. PICK c \in Provider(b, "type_hierarchy", "textDocument/prepareTypeHierarchy", On) :
          c[1] = "type_hierarchy"
    BY <1>b, <1>3, ProviderSets
  <2>2. c \in WithTypeHierarchy(b)
    BY <2>1 DEF WithTypeHierarchy
  <2> QED
    BY <1>3, <2>1, <2>2 DEF Build
<1> QED
  BY <1>1, <1>2, <1>3 DEF Follows

\* So the result of the builder invites all that can be announced.
LEMMA BuildComplete ==
  ASSUME NEW b, BuilderOf(b), NEW m \in DOMAIN features, Announceable(m)
  PROVE  m \in Invited(Build(b))
<1>1. CASE \E field \in DOMAIN Primary : m \in Primary[field]
  <2>1. PICK field \in DOMAIN Primary : m \in Primary[field]
    BY <1>1
  <2>2. PICK c \in Build(b) : c[1] = field
    BY <2>1, FieldsAreSet
  <2> QED
    BY <2>1, <2>2 DEF Invited, Asked
<1>2. CASE \E k \in Companions : m = k[3] /\ k[4] \in DOMAIN features
  <2>1. PICK p \in Companions : m = p[3] /\ p[4] \in DOMAIN features
    BY <1>2
  <2>2. CASE m = TokensFull /\ TokensDelta \in b.features
    <3>1. <<"semantic_tokens", "delta">> \in Build(b)
      BY <2>2, DeltaIsSet
    <3> QED
      BY <2>2, <3>1 DEF Invited, FollowUps
  <2>3. CASE ~(m = TokensFull /\ TokensDelta \in b.features)
    <3>1. <<p[1], p[2]>> \in Build(b)
      BY <2>1, <2>3, FlagsAreSet
    <3> QED
      BY <2>1, <3>1 DEF Invited, Asked
  <2> QED
    BY <2>2, <2>3
<1>3. CASE \E k \in Follows : m = k[2] /\ k[3] \in DOMAIN features
  <2>1. PICK p \in Follows : m = p[2] /\ p[3] \in DOMAIN features
    BY <1>3
  <2>2. PICK c \in Build(b) : c[1] = p[1]
    BY <2>1, FollowsAreSet
  <2> QED
    BY <2>1, <2>2 DEF Invited, FollowUps
<1> QED
  BY <1>1, <1>2, <1>3 DEF Announceable

-----------------------------------------------------------------------------
(* The wire.                                                                *)

\* The generated methods of the client: three of them have parameters that
\* matter, the others differ in nothing but their name.
LEMMA ClientForms ==
  ASSUME Client!Calls
  PROVE  \/ Client!initialize \/ Client!workspace_execute_command \/ Client!cancel_request
         \/ \E m : /\ m \notin {"initialize", "workspace/executeCommand", "$/cancelRequest"}
                   /\ Client!Request(m, <<>>) \/ Client!Notify(m, <<>>)
BY
   DEF Client!Calls, Client!call_hierarchy_incoming_calls,
   Client!call_hierarchy_outgoing_calls, Client!code_action_resolve,
   Client!code_lens_resolve, Client!completion_item_resolve,
   Client!document_link_resolve, Client!inlay_hint_resolve, Client!shutdown,
   Client!text_document_code_action, Client!text_document_code_lens,
   Client!text_document_color_presentation, Client!text_document_completion,
   Client!text_document_declaration, Client!text_document_definition,
   Client!text_document_diagnostic, Client!text_document_document_color,
   Client!text_document_document_highlight, Client!text_document_document_link,
   Client!text_document_document_symbol, Client!text_document_folding_range,
   Client!text_document_formatting, Client!text_document_hover,
   Client!text_document_implementation, Client!text_document_inlay_hint,
   Client!text_document_inline_completion, Client!text_document_inline_value,
   Client!text_document_linked_editing_range, Client!text_document_moniker,
   Client!text_document_on_type_formatting, Client!text_document_prepare_call_hierarchy,
   Client!text_document_prepare_rename, Client!text_document_prepare_type_hierarchy,
   Client!text_document_ranges_formatting, Client!text_document_range_formatting,
   Client!text_document_references, Client!text_document_rename,
   Client!text_document_selection_range, Client!text_document_semantic_tokens_full,
   Client!text_document_semantic_tokens_full_delta,
   Client!text_document_semantic_tokens_range, Client!text_document_signature_help,
   Client!text_document_type_definition, Client!text_document_will_save_wait_until,
   Client!type_hierarchy_subtypes, Client!type_hierarchy_supertypes,
   Client!workspace_diagnostic, Client!workspace_symbol,
   Client!workspace_symbol_resolve, Client!workspace_text_document_content,
   Client!workspace_will_create_files, Client!workspace_will_delete_files,
   Client!workspace_will_rename_files, Client!exit, Client!initialized,
   Client!notebook_document_did_change, Client!notebook_document_did_close,
   Client!notebook_document_did_open, Client!notebook_document_did_save,
   Client!progress, Client!set_trace, Client!text_document_did_change,
   Client!text_document_did_close, Client!text_document_did_open,
   Client!text_document_did_save, Client!text_document_will_save,
   Client!window_work_done_progress_cancel, Client!workspace_did_change_configuration,
   Client!workspace_did_change_watched_files,
   Client!workspace_did_change_workspace_folders, Client!workspace_did_create_files,
   Client!workspace_did_delete_files, Client!workspace_did_rename_files

\* The generated methods of the server.
LEMMA ServerForms ==
  ASSUME Server!Calls
  PROVE  \E m : Server!Request(m) \/ Server!Notify(m)
BY
   DEF Server!Calls, Server!client_register_capability,
   Server!client_unregister_capability, Server!window_show_document,
   Server!window_show_message_request, Server!window_work_done_progress_create,
   Server!workspace_apply_edit, Server!workspace_code_lens_refresh,
   Server!workspace_configuration, Server!workspace_diagnostic_refresh,
   Server!workspace_folding_range_refresh, Server!workspace_inlay_hint_refresh,
   Server!workspace_inline_value_refresh, Server!workspace_semantic_tokens_refresh,
   Server!workspace_text_document_content_refresh, Server!workspace_workspace_folders,
   Server!cancel_request, Server!log_trace, Server!progress, Server!telemetry_event,
   Server!text_document_publish_diagnostics, Server!window_log_message,
   Server!window_show_message

LEMMA SeqGrows ==
  ASSUME NEW S, NEW T, S \subseteq T, NEW s \in Seq(S)
  PROVE  s \in Seq(T)
OBVIOUS

LEMMA Appended ==
  ASSUME NEW S, NEW s \in Seq(S), NEW e, NEW t, t = Append(s, e)
  PROVE  /\ DOMAIN s = 1 .. Len(s) /\ Len(s) \in Nat
         /\ DOMAIN t = 1 .. Len(s) + 1 /\ t[Len(s) + 1] = e
         /\ \A i \in 1 .. Len(s) : t[i] = s[i]
         /\ e \in S => t \in Seq(S)
<1> DEFINE T == S \cup {e}
<1>1. s \in Seq(T) /\ e \in T
  OBVIOUS
<1> QED
  BY <1>1

LEMMA Taken ==
  ASSUME NEW S, NEW s \in Seq(S), s # <<>>, NEW t, t = Tail(s)
  PROVE  /\ DOMAIN s = 1 .. Len(s) /\ Len(s) \in Nat \ {0}
         /\ t \in Seq(S) /\ DOMAIN t = 1 .. Len(s) - 1
         /\ \A i \in 1 .. Len(s) - 1 : t[i] = s[i + 1]
         /\ Head(s) = s[1] /\ Head(s) \in S
OBVIOUS

\* What may be on the wire only grows with what has been called.
LEMMA MessagesGrow ==
  ASSUME program' = program, called \subseteq called', made \subseteq made'
  PROVE  ClientMessages \subseteq ClientMessages' /\ ServerMessages \subseteq ServerMessages'
         /\ Runs \subseteq Runs'
<1>1. ClientMessages \subseteq ClientMessages'
  BY DEF ClientMessages
<1>2. Exceptions' = Exceptions
  BY DEF Exceptions, Classes, ClassCode, IsServerErrorCode
<1>3. ServerMessages \subseteq ServerMessages'
  BY <1>2 DEF ServerMessages
<1>4. Runs \subseteq Runs'
  BY DEF Runs
<1> QED
  BY <1>1, <1>3, <1>4

\* A call of the client adds one message, of a method not called before.
LEMMA ClientSends ==
  ASSUME WireOK, ClientCalls
  PROVE  \E msg \in ClientMessages' :
           /\ msg.kind # "response" /\ msg.method \notin called
           /\ called' = called \cup {msg.method}
           /\ UNCHANGED toServer \/ toServer' = Append(toServer, msg)
           /\ UNCHANGED <<program, stopped>>
<1>m. UNCHANGED made /\ Client!Calls
  BY DEF ClientCalls, callVars
<1> DEFINE Message_(kind, m, params) == [kind |-> kind, method |-> m, params |-> params]
           Sent(kind, m, params) ==
             /\ m \notin called /\ called' = called \cup {m} /\ UNCHANGED <<program, stopped>>
             /\ \/ UNCHANGED toServer
                \/ toServer' = Append(toServer, Message_(kind, m, params))
<1>r. \A m, params : Client!Request(m, params) => Sent("request", m, params)
  BY DEF Client!Request, Client!Send, Client!MayCall
<1>n. \A m, params : Client!Notify(m, params) => Sent("notification", m, params)
  BY DEF Client!Notify, Client!Send, Client!MayCall
<1>1. ASSUME NEW kind \in {"request", "notification"}, NEW m, NEW params,
             Sent(kind, m, params), Message_(kind, m, params) \in ClientMessages'
      PROVE  \E msg \in ClientMessages' :
               /\ msg.kind # "response" /\ msg.method \notin called
               /\ called' = called \cup {msg.method}
               /\ UNCHANGED toServer \/ toServer' = Append(toServer, msg)
               /\ UNCHANGED <<program, stopped>>
  BY <1>1
<1>2. CASE Client!initialize
  <2>1. PICK root \in program.roots : Client!Request("initialize", <<root>>)
    BY <1>2 DEF Client!initialize
  <2>2. Sent("request", "initialize", <<root>>)
    BY <1>r, <2>1
  <2>3. Message_("request", "initialize", <<root>>) \in ClientMessages'
    BY <2>2 DEF ClientMessages
  <2> QED
    BY <1>1, <2>2, <2>3
<1>3. CASE Client!workspace_execute_command
  <2>1. PICK call \in program.commandCalls : Client!Request("workspace/executeCommand", call)
    BY <1>3 DEF Client!workspace_execute_command
  <2>2. Sent("request", "workspace/executeCommand", call)
    BY <1>r, <2>1
  <2>3. Message_("request", "workspace/executeCommand", call) \in ClientMessages'
    BY <2>2 DEF ClientMessages
  <2> QED
    BY <1>1, <2>2, <2>3
<1>4. CASE Client!cancel_request
  <2>1. PICK x \in program.uses : Client!Notify("$/cancelRequest", <<x>>)
    BY <1>4 DEF Client!cancel_request, Client!Cancellable
  <2>2. Sent("notification", "$/cancelRequest", <<x>>)
    BY <1>n, <2>1
  <2>3. Message_("notification", "$/cancelRequest", <<x>>) \in ClientMessages'
    BY <2>2 DEF ClientMessages
  <2> QED
    BY <1>1, <2>2, <2>3
<1>5. ASSUME NEW m, m \notin {"initialize", "workspace/executeCommand", "$/cancelRequest"},
             Client!Request(m, <<>>) \/ Client!Notify(m, <<>>)
      PROVE  \E kind \in {"request", "notification"} :
               Sent(kind, m, <<>>) /\ Message_(kind, m, <<>>) \in ClientMessages'
  <2>1. PICK kind \in {"request", "notification"} : Sent(kind, m, <<>>)
    BY <1>5, <1>r, <1>n
  <2>2. Message_(kind, m, <<>>) \in ClientMessages'
    BY <1>5, <2>1 DEF ClientMessages
  <2> QED
    BY <2>1, <2>2
<1> HIDE DEF Sent, Message_
<1> QED
  BY <1>m, <1>1, <1>2, <1>3, <1>4, <1>5, ClientForms

\* A call of the server adds one message.
LEMMA ServerSends ==
  ASSUME WireOK, ServerCalls
  PROVE  /\ UNCHANGED <<program, fm, toServer, called, running, workspace, caps, answer>>
         /\ made \subseteq made' /\ toClient' \in Seq(ServerMessages')
<1>1. UNCHANGED <<fm, toServer, called, running, workspace, caps, answer>> /\ Server!Calls
  BY DEF ServerCalls, clientVars, lifeVars
<1>2. PICK m : Server!Request(m) \/ Server!Notify(m)
  BY <1>1, ServerForms
<1>3. PICK kind \in {"request", "notification"} : Server!Send(kind, m)
  BY <1>2 DEF Server!Request, Server!Notify
<1>4. made' = made \cup {m} /\ UNCHANGED program
  BY <1>2 DEF Server!Request, Server!Notify, Server!Send
<1> DEFINE msg == [kind |-> kind, method |-> m]
<1>5. msg \in ServerMessages' /\ Server!Shown(m) \in ServerMessages'
  BY <1>4 DEF ServerMessages, Server!Shown
<1>6. toClient \in Seq(ServerMessages')
  BY <1>1, <1>4, MessagesGrow, SeqGrows DEF WireOK
<1> HIDE DEF msg
<1>7. toClient' \in Seq(ServerMessages')
  <2>1. \/ toClient' = Append(toClient, msg)
        \/ toClient' = Append(toClient, Server!Shown(m))
    BY <1>3 DEF Server!Send, msg
  <2> QED
    BY <1>5, <1>6, <2>1, Appended
<1> QED
  BY <1>1, <1>4, <1>7

-----------------------------------------------------------------------------
(* Each call is made, read and handled once.                                *)

\* The client calls something it has not called before.
LEMMA OnceSent ==
  ASSUME WireOK, CalledOnce, InitializedOnce,
         NEW msg, msg.kind # "response", msg.method \notin called,
         called' = called \cup {msg.method}, toServer' = Append(toServer, msg),
         UNCHANGED <<running, workspace>>
  PROVE  CalledOnce' /\ InitializedOnce'
<1> DEFINE M(i) == toServer[i].method
           N(i) == toServer'[i].method
           last == Len(toServer) + 1
<1>u. /\ \A i \in Unread : \A j \in Unread : M(i) = M(j) => i = j
      /\ \A r \in running : \A i \in Unread : M(i) # r.method
      /\ \A i \in Unread : M(i) \in called
  BY DEF CalledOnce
<1>1. /\ DOMAIN toServer = 1 .. Len(toServer) /\ Len(toServer) \in Nat
      /\ DOMAIN toServer' = 1 .. last /\ toServer'[last] = msg
      /\ \A i \in 1 .. Len(toServer) : toServer'[i] = toServer[i]
  BY Appended DEF WireOK
<1>2. \A i \in Unread' : \/ i = last /\ N(i) = msg.method
                         \/ i \in Unread /\ N(i) = M(i)
  BY <1>1 DEF Unread
<1>3. \A r \in running : r.method \in called
  BY DEF WireOK, Runs
<1> HIDE DEF last, M, N
<1>4. CalledOnce'
  <2>1. ASSUME NEW i \in Unread', NEW j \in Unread', N(i) = N(j) PROVE i = j
    BY <1>u, <1>2, <2>1
  <2>2. \A i \in Unread' : N(i) \in called'
    BY <1>u, <1>2
  <2>3. \A r \in running' : \A i \in Unread' : N(i) # r.method
    BY <1>u, <1>2, <1>3
  <2> QED
    BY <2>1, <2>2, <2>3 DEF CalledOnce, N
<1>5. InitializedOnce'
  BY <1>2 DEF InitializedOnce, M, N
<1> QED
  BY <1>4, <1>5

\* The client answers a request of the server.
LEMMA OnceAnswered ==
  ASSUME WireOK, CalledOnce, InitializedOnce,
         NEW msg, msg.kind = "response", toServer' = Append(toServer, msg),
         UNCHANGED <<called, running, workspace>>
  PROVE  CalledOnce' /\ InitializedOnce'
<1>u. /\ \A i \in Unread : \A j \in Unread : toServer[i].method = toServer[j].method => i = j
      /\ \A r \in running : \A i \in Unread : toServer[i].method # r.method
      /\ \A i \in Unread : toServer[i].method \in called
  BY DEF CalledOnce
<1>1. /\ DOMAIN toServer = 1 .. Len(toServer) /\ Len(toServer) \in Nat
      /\ DOMAIN toServer' = 1 .. Len(toServer) + 1 /\ toServer'[Len(toServer) + 1] = msg
      /\ \A i \in 1 .. Len(toServer) : toServer'[i] = toServer[i]
  BY Appended DEF WireOK
<1>2. \A i \in Unread' : i \in Unread /\ toServer'[i] = toServer[i]
  BY <1>1 DEF Unread
<1>3. CalledOnce'
  BY <1>u, <1>2 DEF CalledOnce
<1>4. InitializedOnce'
  BY <1>2 DEF InitializedOnce
<1> QED
  BY <1>3, <1>4

\* Nothing is sent or read, and no handler starts.
LEMMA OnceStays ==
  ASSUME CalledOnce, InitializedOnce, UNCHANGED <<toServer, workspace>>, called \subseteq called',
         \A r \in running' : \E q \in running : q.method = r.method
  PROVE  CalledOnce' /\ InitializedOnce'
<1>1. Unread' = Unread
  BY DEF Unread
<1>2. CalledOnce'
  BY <1>1 DEF CalledOnce
<1>3. InitializedOnce'
  BY <1>1 DEF InitializedOnce
<1> QED
  BY <1>2, <1>3

\* The server reads a message, and starts at most the handler of this one.
LEMMA OnceRead ==
  ASSUME WireOK, CalledOnce, InitializedOnce,
         toServer # <<>>, toServer' = Tail(toServer), UNCHANGED called,
         \A r \in running' : \/ \E q \in running : q.method = r.method
                             \/ Message.kind # "response" /\ r.method = Message.method,
         DOMAIN workspace' = DOMAIN NoWorkspace,
         workspace'.documents # {} => workspace'.exists,
         workspace'.exists => \/ workspace.exists
                              \/ Message.kind # "response" /\ Message.method = "initialize"
  PROVE  CalledOnce' /\ InitializedOnce'
<1> DEFINE M(i) == toServer[i].method
           N(i) == toServer'[i].method
<1>u. /\ \A i \in Unread : \A j \in Unread : M(i) = M(j) => i = j
      /\ \A r \in running : \A i \in Unread : M(i) # r.method
      /\ \A i \in Unread : M(i) \in called
  BY DEF CalledOnce
<1>1. /\ DOMAIN toServer = 1 .. Len(toServer) /\ Len(toServer) \in Nat \ {0}
      /\ DOMAIN toServer' = 1 .. Len(toServer) - 1
      /\ \A i \in 1 .. Len(toServer) - 1 : toServer'[i] = toServer[i + 1]
      /\ Message = toServer[1]
  BY Taken DEF WireOK, Message
<1>2. \A i \in Unread' : i \in Nat \ {0} /\ i + 1 \in Unread /\ N(i) = M(i + 1)
  BY <1>1 DEF Unread
<1>3. Message.kind # "response" => 1 \in Unread /\ Message.method = M(1)
  BY <1>1 DEF Unread
<1> HIDE DEF M, N
<1>4. ASSUME NEW i \in Unread', NEW j \in Unread', N(i) = N(j) PROVE i = j
  <2>1. i + 1 = j + 1
    BY <1>u, <1>2, <1>4
  <2> QED
    BY <1>2, <2>1
<1>5. \A i \in Unread' : N(i) \in called'
  BY <1>u, <1>2
<1>6. ASSUME NEW i \in Unread', Message.kind # "response" PROVE N(i) # Message.method
  <2>1. i + 1 # 1
    BY <1>2
  <2> QED
    BY <1>u, <1>2, <1>3, <1>6, <2>1
<1>7. \A r \in running' : \A i \in Unread' : N(i) # r.method
  BY <1>u, <1>2, <1>6
<1>8. CalledOnce'
  BY <1>4, <1>5, <1>7 DEF CalledOnce, N
<1>9. InitializedOnce'
  <2>1. ASSUME workspace'.exists
        PROVE  "initialize" \in called' /\ \A i \in Unread' : N(i) # "initialize"
    <3>1. CASE workspace.exists
      BY <1>2, <3>1 DEF InitializedOnce, M
    <3>2. CASE Message.kind # "response" /\ Message.method = "initialize"
      BY <1>u, <1>3, <1>6, <3>2
    <3> QED
      BY <2>1, <3>1, <3>2
  <2> QED
    BY <2>1 DEF InitializedOnce, N
<1> QED
  BY <1>8, <1>9

-----------------------------------------------------------------------------
(* Answers and ends of handlers.                                            *)

LEMMA MessagesStay ==
  ASSUME UNCHANGED <<program, called, made>>
  PROVE  /\ ClientMessages' = ClientMessages /\ ServerMessages' = ServerMessages
         /\ Runs' = Runs
<1>1. ClientMessages' = ClientMessages
  BY DEF ClientMessages
<1>2. Exceptions' = Exceptions
  BY DEF Exceptions, Classes, ClassCode, IsServerErrorCode
<1>3. ServerMessages' = ServerMessages
  BY <1>2 DEF ServerMessages
<1>4. Runs' = Runs
  BY DEF Runs
<1> QED
  BY <1>1, <1>3, <1>4

\* _send_response sends what the client can read.
LEMMA ReplyOK ==
  ASSUME NEW m \in called
  PROVE  /\ Result(m) \in ServerMessages
         /\ \A exc \in Exceptions : Error(m, exc) \in ServerMessages
BY DEF Result, Error, ServerMessages

\* So does report_server_error.
LEMMA ShownOK ==
  ASSUME NEW m \in called \cup made
  PROVE  Server!Shown(m) \in ServerMessages
BY DEF Server!Shown, ServerMessages

LEMMA OneReplyOK ==
  ASSUME toClient \in Seq(ServerMessages), NEW msg \in ServerMessages
  PROVE  Append(toClient, msg) \in Seq(ServerMessages)
BY Appended

LEMMA FailOK ==
  ASSUME toClient \in Seq(ServerMessages), NEW m \in called, NEW kind,
         NEW exc \in Exceptions, Fail(m, kind, exc)
  PROVE  toClient' \in Seq(ServerMessages)
<1>1. Error(m, exc) \in ServerMessages
  BY ReplyOK
<1>2. Server!Shown(m) \in ServerMessages
  BY ShownOK
<1>3. report_server_error(m, kind) \in Seq(ServerMessages)
  BY <1>2 DEF report_server_error
<1>4. FailureReply(m, kind, exc) \in Seq(ServerMessages)
  BY <1>1, <1>3 DEF FailureReply
<1> QED
  BY <1>4 DEF Fail

LEMMA UnsentOK ==
  ASSUME toClient \in Seq(ServerMessages), NEW m \in called, NEW kind, Unsent(m, kind)
  PROVE  toClient' \in Seq(ServerMessages)
BY ShownOK, OneReplyOK DEF Unsent

\* Cancelling changes no handler but for the mark.
LEMMA CancelOK ==
  ASSUME NEW rs \in SUBSET Runs
  PROVE  /\ Cancel(rs) \subseteq Runs
         /\ \A r \in Cancel(rs) : \E q \in rs : q.method = r.method
<1> SUFFICES ASSUME NEW q \in rs, NEW r,
                    r = [q EXCEPT !.cancelled = @ \/ q.mode = "task" \/ q.method \in Builtin]
             PROVE  r \in Runs /\ r.method = q.method
  BY DEF Cancel
<1>1. (q.cancelled \/ q.mode = "task" \/ q.method \in Builtin) \in BOOLEAN
  OBVIOUS
<1> QED
  BY <1>1 DEF Runs

\* The rest of a feature: the answer, and for initialize the capabilities.
LEMMA FinishOK ==
  ASSUME WireOK, NEW m \in called, NEW kind, NEW rest \in SUBSET running, NEW ws,
         Finish(m, kind, rest, ws), UNCHANGED <<program, called>>
  PROVE  /\ UNCHANGED made
         /\ toClient' \in Seq(ServerMessages)
         /\ running' \subseteq Runs
         /\ \A r \in running' : \E q \in rest : q.method = r.method
         /\ workspace' = ws
         /\ UNCHANGED caps \/ \E b : BuilderOf(b) /\ caps' = Build(b)
<1>1. toClient \in Seq(ServerMessages) /\ rest \subseteq Runs
  BY DEF WireOK
<1>2. CASE m = "shutdown" /\ FinishShutdown(rest)
  <2> DEFINE waiting == {r \in rest : r.kind = "request" /\ r.method \in Builtin /\ ~r.cancelled}
  <2>1. ASSUME running' = Cancel(rest), toClient' = Append(toClient, Result("shutdown"))
        PROVE  /\ toClient' \in Seq(ServerMessages)
               /\ running' \subseteq Runs
               /\ \A r \in running' : \E q \in rest : q.method = r.method
    <3>1. Result("shutdown") \in ServerMessages
      BY <1>2, ReplyOK
    <3>2. toClient' \in Seq(ServerMessages)
      BY <1>1, <2>1, <3>1, OneReplyOK
    <3>3. rest \in SUBSET Runs
      BY <1>1
    <3>4. /\ Cancel(rest) \subseteq Runs
          /\ \A r \in Cancel(rest) : \E q \in rest : q.method = r.method
      BY <3>3, CancelOK
    <3> QED
      BY <2>1, <3>2, <3>4
  <2>2. ASSUME NEW first \in waiting, NEW others \in SUBSET (rest \ waiting),
               running' = Cancel({first} \cup others) \cup (rest \ ({first} \cup others)),
               toClient' = toClient \o
                 <<Error(first.method, Default("JsonRpcRequestCancelled")),
                   Error("shutdown", Default("JsonRpcInternalError"))>>
        PROVE  /\ toClient' \in Seq(ServerMessages)
               /\ running' \subseteq Runs
               /\ \A r \in running' : \E q \in rest : q.method = r.method
    <3>1. first \in rest /\ first.method \in called /\ {first} \cup others \in SUBSET rest
      BY <1>1 DEF Runs
    <3>2. /\ Cancel({first} \cup others) \subseteq Runs
          /\ \A r \in Cancel({first} \cup others) : \E q \in rest : q.method = r.method
      BY <1>1, <3>1, CancelOK
    <3>3. /\ Error(first.method, Default("JsonRpcRequestCancelled")) \in ServerMessages
          /\ Error("shutdown", Default("JsonRpcInternalError")) \in ServerMessages
      BY <1>2, <3>1, ReplyOK, DefaultIsException
    <3>4. toClient' \in Seq(ServerMessages)
      BY <1>1, <2>2, <3>3
    <3> QED
      BY <1>1, <2>2, <3>2, <3>4
  <2>3. /\ toClient' \in Seq(ServerMessages)
        /\ running' \subseteq Runs
        /\ \A r \in running' : \E q \in rest : q.method = r.method
    BY <1>2, <2>1, <2>2 DEF FinishShutdown
  <2> QED
    BY <1>2, <2>3 DEF Finish
<1>3. CASE m # "shutdown" /\ FinishOther(m, kind, rest)
  <2>1. running' = rest /\ toClient' \in Seq(ServerMessages)
    BY <1>1, <1>3, ReplyOK, OneReplyOK, UnsentOK DEF FinishOther
  <2>2. /\ UNCHANGED made /\ workspace' = ws
        /\ UNCHANGED caps \/ FinishInitialize(ws)
    BY <1>3 DEF Finish, FinishInitialize
  <2>3. FinishInitialize(ws) => \E b : BuilderOf(b) /\ caps' = Build(b)
    BY DEF FinishInitialize, BuilderOf
  <2> QED
    BY <1>1, <2>1, <2>2, <2>3
<1> QED
  BY <1>2, <1>3 DEF Finish

-----------------------------------------------------------------------------
(* Every step keeps the invariant.                                          *)

LEMMA RegistryStays ==
  ASSUME RegistryInv, UNCHANGED <<program, fm>>
  PROVE  RegistryInv'
BY DEF RegistryInv, AttributesLead, MarksFollow, Handlers, ServerFuns, Unregistered, fm

\* Nothing is ever unregistered.
LEMMA AdvertisedStays ==
  ASSUME AdvertisedIsServed, UNCHANGED caps,
         DOMAIN features \subseteq DOMAIN features', DOMAIN commands \subseteq DOMAIN commands'
  PROVE  AdvertisedIsServed'
<1>1. Asked(caps)' = Asked(caps) /\ Builtin' = Builtin
  OBVIOUS
<1> QED
  BY <1>1 DEF AdvertisedIsServed

\* What lsp_initialize builds is honest about what is registered by then.
LEMMA AdvertisedBuilt ==
  ASSUME NEW b, BuilderOf(b), caps' = Build(b), UNCHANGED fm
  PROVE  AdvertisedIsServed'
<1>1. Builtin \subseteq b.features /\ b.features = Builtin \cup DOMAIN features
      /\ b.commands = DOMAIN commands
  BY DEF BuilderOf
<1>2. \A c \in Build(b) : Honest(b, c)
  BY <1>1, BuildHonest
<1>3. Asked(Build(b)) \subseteq b.features
  BY <1>2 DEF Honest, Asked
<1>4. \A c \in Build(b) : c[1] = "execute_command" => c[2] \in b.commands
  BY <1>2 DEF Honest
<1>5. /\ Asked(caps)' = Asked(Build(b)) /\ Builtin' = Builtin
      /\ UNCHANGED <<features, commands>>
  BY DEF fm
<1> QED
  BY <1>1, <1>3, <1>4, <1>5 DEF AdvertisedIsServed

\* The message the server reads next.
LEMMA MessageOK ==
  ASSUME WireOK, CalledOnce, toServer # <<>>
  PROVE  /\ Message \in ClientMessages /\ Tail(toServer) \in Seq(ClientMessages)
         /\ Message.kind # "response" => Message.method \in called
<1>1. /\ DOMAIN toServer = 1 .. Len(toServer) /\ Len(toServer) \in Nat \ {0}
      /\ Message = toServer[1] /\ Message \in ClientMessages
      /\ Tail(toServer) \in Seq(ClientMessages)
  BY Taken DEF WireOK, Message
<1>2. Message.kind # "response" => 1 \in Unread
  BY <1>1 DEF Unread
<1> QED
  BY <1>1, <1>2 DEF CalledOnce

LEMMA MessageMethod ==
  ASSUME WireOK, CalledOnce, toServer # <<>>
  PROVE  Message.method \in called \cup made
<1>1. Message.kind = "response" => Message.method \in made
  BY MessageOK DEF ClientMessages
<1> QED
  BY <1>1, MessageOK

\* A step of the server, with the wire and the capabilities it leaves behind.
LEMMA ServerKeeps ==
  ASSUME SessionInv, UNCHANGED <<program, fm, called, made, answer>>,
         toServer' \in Seq(ClientMessages), toClient' \in Seq(ServerMessages),
         running' \subseteq Runs, CalledOnce', InitializedOnce',
         UNCHANGED caps \/ \E b : BuilderOf(b) /\ caps' = Build(b)
  PROVE  SessionInv'
<1>1. WireOK'
  BY MessagesStay DEF SessionInv, WireOK
<1>2. RegistryInv'
  BY RegistryStays DEF SessionInv
<1>3. ErrorIsKept'
  BY ErrorStays DEF SessionInv
<1>4. AdvertisedIsServed'
  <2>1. CASE UNCHANGED caps
    BY <2>1, AdvertisedStays DEF SessionInv, fm
  <2>2. CASE \E b : BuilderOf(b) /\ caps' = Build(b)
    BY <2>2, AdvertisedBuilt
  <2> QED
    BY <2>1, <2>2
<1> QED
  BY <1>1, <1>2, <1>3, <1>4 DEF SessionInv

\* The server reads a message, see OnceRead.
LEMMA ReadKeeps ==
  ASSUME SessionInv, Read, UNCHANGED made,
         toClient' \in Seq(ServerMessages), running' \subseteq Runs,
         \A r \in running' : \/ \E q \in running : q.method = r.method
                             \/ Message.kind # "response" /\ r.method = Message.method,
         DOMAIN workspace' = DOMAIN NoWorkspace,
         workspace'.documents # {} => workspace'.exists,
         workspace'.exists => \/ workspace.exists
                              \/ Message.kind # "response" /\ Message.method = "initialize",
         UNCHANGED caps \/ \E b : BuilderOf(b) /\ caps' = Build(b)
  PROVE  SessionInv'
<1>1. /\ toServer # <<>> /\ toServer' = Tail(toServer)
      /\ UNCHANGED <<program, fm, called, answer>>
  BY DEF Read
<1>2. toServer' \in Seq(ClientMessages)
  BY <1>1, MessageOK DEF SessionInv
<1>3. CalledOnce' /\ InitializedOnce'
  BY <1>1, OnceRead DEF SessionInv
<1> QED
  BY <1>1, <1>2, <1>3, ServerKeeps

\* A handler that starts, of the message that is read.
LEMMA StartOK ==
  ASSUME SessionInv, toServer # <<>>, Message.kind \in {"request", "notification"},
         NEW h, Start(Message, h)
  PROVE  /\ running' \subseteq Runs
         /\ \A r \in running' : \/ \E q \in running : q.method = r.method
                                \/ Message.kind # "response" /\ r.method = Message.method
<1> DEFINE new == [method |-> Message.method, kind |-> Message.kind, mode |-> Mode(h),
                   cancelled |-> FALSE]
<1>1. Message.method \in called
  BY MessageOK DEF SessionInv
<1>2. Mode(h) \in {"inline", "task", "thread"}
  BY DEF Mode
<1>3. new \in Runs /\ new.method = Message.method
  BY <1>1, <1>2 DEF Runs
<1>4. running' = running \cup {new} /\ running \subseteq Runs
  BY DEF Start, SessionInv, WireOK
<1> HIDE DEF new
<1> QED
  BY <1>3, <1>4

\* What a message does to the workspace: initialize makes it, and documents are
\* opened in one that is there.
LEMMA EffectOK ==
  ASSUME InitializedOnce, NEW m, NEW params, ~BuiltinRaises(m, params),
         NEW ws, ws = Effect(m, params)
  PROVE  /\ DOMAIN ws = DOMAIN NoWorkspace
         /\ ws.documents # {} => ws.exists
         /\ ws.exists => workspace.exists \/ m = "initialize"
<1>1. CASE m = "initialize"
  BY <1>1 DEF Effect, NewWorkspace, NoWorkspace
<1>2. CASE m # "initialize"
  <2>d. DOMAIN workspace = {"exists", "root", "uri", "encoding", "documents"}
    BY DEF InitializedOnce, NoWorkspace
  <2>1. /\ DOMAIN ws = DOMAIN workspace /\ ws.exists = workspace.exists
        /\ ws.documents = (workspace.documents
                             \cup {d \in {"textDocument", "notebookDocument"} : <<m, d>> \in Opens})
                             \ {d \in workspace.documents : <<m, d>> \in Closes}
    BY <1>2, <2>d DEF Effect
  <2>2. m \in {"textDocument/didOpen", "notebookDocument/didOpen"} => workspace.exists
    BY DEF BuiltinRaises, Synchronising, NotebookSync
  <2>3. \A d : <<m, d>> \in Opens => m \in {"textDocument/didOpen", "notebookDocument/didOpen"}
    BY DEF Opens
  <2> QED
    BY <2>1, <2>2, <2>3 DEF InitializedOnce
<1> QED
  BY <1>1, <1>2

LEMMA HandleCancelKeeps == SessionInv /\ HandleCancel => SessionInv'
<1> SUFFICES ASSUME SessionInv, HandleCancel PROVE SessionInv'
  OBVIOUS
<1> DEFINE target == {r \in running : r.kind = "request" /\ r.method = Message.params[1]
                                        /\ ~r.cancelled}
           done == {r \in target : r.method \in Builtin}
           reply == Error(Message.params[1], Default("JsonRpcRequestCancelled"))
<1>1. /\ Read /\ UNCHANGED <<made, lifeVars>>
      /\ running' = (running \ target) \cup Cancel(target)
      /\ toClient' = IF done = {} THEN toClient ELSE Append(toClient, reply)
  BY DEF HandleCancel
<1>2. /\ target \in SUBSET Runs /\ running \subseteq Runs
      /\ toClient \in Seq(ServerMessages)
  BY DEF SessionInv, WireOK
<1>3. Cancel(target) \subseteq Runs /\ \A r \in Cancel(target) : \E q \in target : q.method = r.method
  BY <1>2, CancelOK
<1>4. running' \subseteq Runs
      /\ \A r \in running' : \E q \in running : q.method = r.method
  BY <1>1, <1>2, <1>3
<1>5. toClient' \in Seq(ServerMessages)
  <2>1. CASE done = {}
    BY <1>1, <1>2, <2>1
  <2>2. CASE done # {}
    <3>1. PICK q \in running : q.method = Message.params[1]
      BY <2>2
    <3>2. Message.params[1] \in called
      BY <1>2, <3>1 DEF Runs
    <3>3. reply \in ServerMessages
      BY <3>2, ReplyOK, DefaultIsException
    <3> QED
      BY <1>1, <1>2, <2>2, <3>3, OneReplyOK
  <2> QED
    BY <2>1, <2>2
<1> QED
  BY <1>1, <1>4, <1>5, ReadKeeps DEF SessionInv, InitializedOnce, lifeVars

LEMMA ReadsKeep == SessionInv /\ Reads => SessionInv'
<1> SUFFICES ASSUME SessionInv, Reads PROVE SessionInv'
  OBVIOUS
<1>w. /\ toClient \in Seq(ServerMessages) /\ running \subseteq Runs
      /\ DOMAIN workspace = DOMAIN NoWorkspace
      /\ workspace.documents # {} => workspace.exists
  BY DEF SessionInv, WireOK, InitializedOnce
<1>m. ASSUME Calling
      PROVE  /\ Read /\ toServer # <<>> /\ Message.method \in called
             /\ Message.kind \in {"request", "notification"} /\ Message.kind # "response"
  BY <1>m, MessageOK DEF SessionInv, Calling, Read
<1>1. CASE DropMessage
  BY <1>1, <1>w, ReadKeeps DEF DropMessage, callVars, lifeVars
<1>2. CASE HandleResponse
  BY <1>2, <1>w, ReadKeeps DEF HandleResponse, lifeVars
<1>3. CASE HandleCancel
  BY <1>3, HandleCancelKeeps
<1>4. CASE HandleFeature
  <2>1. /\ Calling /\ Start(Message, features[Message.method])
        /\ UNCHANGED <<toClient, made, caps, workspace>>
    BY <1>4 DEF HandleFeature, callVars, lifeVars
  <2> QED
    BY <1>w, <1>m, <2>1, StartOK, ReadKeeps
<1>5. CASE HandleUnknown
  <2>1. /\ Calling /\ UNCHANGED <<made, caps, workspace, running>>
        /\ \/ UNCHANGED toClient
           \/ Fail(Message.method, "request", Default("JsonRpcMethodNotFound"))
    BY <1>5 DEF HandleUnknown, lifeVars
  <2>2. toClient' \in Seq(ServerMessages)
    BY <1>w, <1>m, <2>1, FailOK, DefaultIsException
  <2> QED
    BY <1>w, <1>m, <2>1, <2>2, ReadKeeps
<1>6. CASE BuiltinFails
  <2>1. /\ Calling /\ UNCHANGED <<made, caps, workspace, running>>
        /\ Fail(Message.method, Message.kind, Default("JsonRpcInternalError"))
    BY <1>6 DEF BuiltinFails
  <2>2. toClient' \in Seq(ServerMessages)
    BY <1>w, <1>m, <2>1, FailOK, DefaultIsException
  <2> QED
    BY <1>w, <1>m, <2>1, <2>2, ReadKeeps
<1>7. CASE HandleBuiltin
  <2> DEFINE m == Message.method
             ws == Effect(m, Message.params)
  <2>1. /\ Calling /\ ~BuiltinRaises(m, Message.params)
        /\ \/ /\ Start(Message, features[m]) /\ workspace' = ws
              /\ UNCHANGED <<toClient, made, caps>>
           \/ Finish(m, Message.kind, running, ws)
    BY <1>7 DEF HandleBuiltin, callVars
  <2>2. /\ DOMAIN ws = DOMAIN NoWorkspace
        /\ ws.documents # {} => ws.exists
        /\ ws.exists => workspace.exists \/ m = "initialize"
    BY <2>1, EffectOK DEF SessionInv
  <2>u. UNCHANGED <<program, called>>
    BY <1>m, <2>1 DEF Read
  <2> HIDE DEF ws
  <2>3. CASE Start(Message, features[m]) /\ workspace' = ws /\ UNCHANGED <<toClient, made, caps>>
    BY <1>w, <1>m, <2>1, <2>2, <2>3, StartOK, ReadKeeps
  <2>4. CASE Finish(m, Message.kind, running, ws)
    <3>1. /\ UNCHANGED made
          /\ toClient' \in Seq(ServerMessages)
          /\ running' \subseteq Runs
          /\ \A r \in running' : \E q \in running : q.method = r.method
          /\ workspace' = ws
          /\ UNCHANGED caps \/ \E b : BuilderOf(b) /\ caps' = Build(b)
      BY <1>m, <2>1, <2>4, <2>u, FinishOK DEF SessionInv
    <3> QED
      BY <1>m, <2>1, <2>2, <3>1, ReadKeeps
  <2> QED
    BY <2>1, <2>3, <2>4
<1>8. CASE ExecuteCommand
  <2> DEFINE m == "workspace/executeCommand"
  <2>1. /\ Calling /\ Message.method = m /\ UNCHANGED <<made, caps, workspace>>
        /\ \/ Fail(m, "request", Default("JsonRpcInvalidParams")) /\ UNCHANGED running
           \/ Fail(m, "request", Default("JsonRpcInternalError")) /\ UNCHANGED running
           \/ Start(Message, commands[Message.params[1]]) /\ UNCHANGED toClient
    BY <1>8 DEF ExecuteCommand, lifeVars
  <2>2. toClient' \in Seq(ServerMessages)
    BY <1>w, <1>m, <2>1, FailOK, DefaultIsException
  <2>3. /\ running' \subseteq Runs
        /\ \A r \in running' : \/ \E q \in running : q.method = r.method
                               \/ Message.kind # "response" /\ r.method = Message.method
    BY <1>w, <1>m, <2>1, StartOK
  <2> QED
    BY <1>w, <1>m, <2>1, <2>2, <2>3, ReadKeeps
<1>9. CASE ReadFails
  <2>1. /\ Read /\ toClient' = Append(toClient, Server!Shown(Message.method))
        /\ UNCHANGED <<made, caps, workspace, running>>
    BY <1>9 DEF ReadFails, lifeVars
  <2>2. Message.method \in called \cup made
    BY <2>1, MessageMethod DEF SessionInv, Read
  <2>3. toClient' \in Seq(ServerMessages)
    BY <1>w, <2>1, <2>2, ShownOK, OneReplyOK
  <2> QED
    BY <1>w, <2>1, <2>3, ReadKeeps
<1> QED
  BY <1>1, <1>2, <1>3, <1>4, <1>5, <1>6, <1>7, <1>8, <1>9 DEF Reads

LEMMA EndsKeep == SessionInv /\ Ends => SessionInv'
<1> SUFFICES ASSUME SessionInv, NEW r \in running,
                    HandlerReturns(r) \/ HandlerRaises(r) \/ HandlerCancelled(r)
             PROVE  SessionInv'
  BY DEF Ends
<1>w. /\ toClient \in Seq(ServerMessages) /\ running \subseteq Runs
      /\ program.raises \subseteq Exceptions
  BY SessionAssumption DEF SessionInv, WireOK
<1>r. r.method \in called
  BY <1>w DEF Runs
<1>u. UNCHANGED <<program, fm, toServer, called, answer>>
  BY DEF HandlerReturns, HandlerRaises, HandlerCancelled, clientVars
\* The wire is as it was, and no handler is new.
<1>e. ASSUME UNCHANGED <<made, workspace>>,
             toClient' \in Seq(ServerMessages), running' \subseteq Runs,
             \A q \in running' : \E p \in running : p.method = q.method,
             UNCHANGED caps \/ \E b : BuilderOf(b) /\ caps' = Build(b)
      PROVE  SessionInv'
  <2>1. CalledOnce' /\ InitializedOnce'
    BY <1>e, <1>u, OnceStays DEF SessionInv
  <2>2. toServer' \in Seq(ClientMessages)
    BY <1>u DEF SessionInv, WireOK
  <2> QED
    BY <1>e, <1>u, <2>1, <2>2, ServerKeeps
<1>n. CASE ForNobody(r)
  BY <1>w, <1>e, <1>n DEF ForNobody, callVars, lifeVars
<1>1. CASE HandlerReturns(r)
  <2>2. CASE Finish(r.method, r.kind, running \ {r}, workspace)
    <3>1. running \ {r} \in SUBSET running
      OBVIOUS
    <3>2. /\ UNCHANGED <<made, workspace>>
          /\ toClient' \in Seq(ServerMessages)
          /\ running' \subseteq Runs
          /\ \A q \in running' : \E p \in running \ {r} : p.method = q.method
          /\ UNCHANGED caps \/ \E b : BuilderOf(b) /\ caps' = Build(b)
      BY <1>r, <1>u, <2>2, <3>1, FinishOK DEF SessionInv
    <3> QED
      BY <1>e, <3>2
  <2> QED
    BY <1>1, <1>n, <2>2 DEF HandlerReturns
<1>2. CASE HandlerRaises(r)
  <2> SUFFICES ASSUME ~ForNobody(r) PROVE SessionInv'
    BY <1>n
  <2>1. \/ \E exc \in program.raises : Fail(r.method, r.kind, exc)
        \/ Unsent(r.method, r.kind)
    BY <1>2 DEF HandlerRaises
  <2>2. toClient' \in Seq(ServerMessages)
    BY <1>w, <1>r, <2>1, FailOK, UnsentOK
  <2>3. running' = running \ {r} /\ UNCHANGED <<made, caps, workspace>>
    BY <1>2 DEF HandlerRaises
  <2> QED
    BY <1>w, <1>e, <2>2, <2>3
<1>3. CASE HandlerCancelled(r)
  <2>1. toClient' \in Seq(ServerMessages)
    BY <1>3, <1>w, <1>r, ReplyOK, OneReplyOK, DefaultIsException DEF HandlerCancelled
  <2> QED
    BY <1>3, <1>w, <1>e, <2>1 DEF HandlerCancelled, lifeVars
<1> QED
  BY <1>1, <1>2, <1>3

LEMMA ClientKeeps == SessionInv /\ ClientCalls => SessionInv'
<1> SUFFICES ASSUME SessionInv, ClientCalls PROVE SessionInv'
  OBVIOUS
<1>1. PICK msg \in ClientMessages' :
        /\ msg.kind # "response" /\ msg.method \notin called
        /\ called' = called \cup {msg.method}
        /\ UNCHANGED toServer \/ toServer' = Append(toServer, msg)
        /\ UNCHANGED <<program, stopped>>
  BY ClientSends DEF SessionInv
<1>2. UNCHANGED <<fm, toClient, made, caps, workspace, running, answer>>
  BY DEF ClientCalls, callVars, lifeVars
<1>3. /\ ClientMessages \subseteq ClientMessages' /\ ServerMessages \subseteq ServerMessages'
      /\ Runs \subseteq Runs'
  BY <1>1, <1>2, MessagesGrow
<1>4. toServer \in Seq(ClientMessages') /\ toClient' \in Seq(ServerMessages')
  BY <1>2, <1>3, SeqGrows DEF SessionInv, WireOK
<1>5. toServer' \in Seq(ClientMessages')
  BY <1>1, <1>4, Appended
<1>6. WireOK'
  BY <1>1, <1>2, <1>3, <1>4, <1>5 DEF SessionInv, WireOK
<1>7. CalledOnce' /\ InitializedOnce'
  <2>1. CASE toServer' = Append(toServer, msg)
    BY <1>1, <1>2, <2>1, OnceSent DEF SessionInv
  <2>2. CASE UNCHANGED toServer
    BY <1>1, <1>2, <2>2, OnceStays DEF SessionInv
  <2> QED
    BY <1>1, <2>1, <2>2
<1>8. RegistryInv'
  BY <1>1, <1>2, RegistryStays DEF SessionInv
<1>9. ErrorIsKept' /\ AdvertisedIsServed'
  BY <1>2, ErrorStays, AdvertisedStays DEF SessionInv, fm
<1> QED
  BY <1>6, <1>7, <1>8, <1>9 DEF SessionInv

LEMMA ServerCallsKeep == SessionInv /\ ServerCalls => SessionInv'
<1> SUFFICES ASSUME SessionInv, ServerCalls PROVE SessionInv'
  OBVIOUS
<1>1. /\ UNCHANGED <<program, fm, toServer, called, running, workspace, caps, answer>>
      /\ made \subseteq made' /\ toClient' \in Seq(ServerMessages')
  BY ServerSends DEF SessionInv
<1>2. ClientMessages \subseteq ClientMessages' /\ Runs \subseteq Runs'
  BY <1>1, MessagesGrow
<1>3. toServer' \in Seq(ClientMessages')
  BY <1>1, <1>2, SeqGrows DEF SessionInv, WireOK
<1>4. WireOK'
  BY <1>1, <1>2, <1>3 DEF SessionInv, WireOK
<1>5. CalledOnce' /\ InitializedOnce'
  BY <1>1, OnceStays DEF SessionInv
<1>6. RegistryInv'
  BY <1>1, RegistryStays DEF SessionInv
<1>7. ErrorIsKept' /\ AdvertisedIsServed'
  BY <1>1, ErrorStays, AdvertisedStays DEF SessionInv, fm
<1> QED
  BY <1>4, <1>5, <1>6, <1>7 DEF SessionInv

LEMMA RegistersKeep == SessionInv /\ Registers => SessionInv'
<1> SUFFICES ASSUME SessionInv, Registers PROVE SessionInv'
  OBVIOUS
<1>1. UNCHANGED <<program, toServer, called, toClient, made, caps, workspace, running, answer>>
  BY DEF Registers, clientVars, callVars, lifeVars
<1>2. \/ \E f \in program.funs, o \in program.offers : feature(f, o[1], o[2])
      \/ \E f \in program.funs, c \in program.commands : command(f, c)
      \/ \E f \in program.funs : thread(f)
  BY DEF Registers
<1>3. RegistryInv'
  BY <1>1, <1>2, FeatureKeeps, CommandKeeps, ThreadKeeps DEF SessionInv
<1>4. DOMAIN features \subseteq DOMAIN features' /\ DOMAIN commands \subseteq DOMAIN commands'
  BY <1>2 DEF feature, command, thread, Put, Mark
<1>5. AdvertisedIsServed'
  BY <1>1, <1>4, AdvertisedStays DEF SessionInv
<1>6. CalledOnce' /\ InitializedOnce'
  BY <1>1, OnceStays DEF SessionInv
<1>7. WireOK' /\ ErrorIsKept'
  BY <1>1, MessagesStay, ErrorStays DEF SessionInv, WireOK
<1> QED
  BY <1>3, <1>5, <1>6, <1>7 DEF SessionInv

\* The client reads a message, and answers it if it is a request.
LEMMA ReceiveKeeps == SessionInv /\ Receive => SessionInv'
<1> SUFFICES ASSUME SessionInv, Receive PROVE SessionInv'
  OBVIOUS
<1> DEFINE msg == Head(toClient)
           response == [kind |-> "response", method |-> msg.method]
<1>1. /\ toClient # <<>> /\ toClient' = Tail(toClient)
      /\ UNCHANGED <<program, fm, called, made, caps, workspace, running>>
      /\ \/ msg.kind = "request" /\ toServer' = Append(toServer, response)
         \/ UNCHANGED toServer
      /\ \/ /\ msg.kind = "error"
            /\ \E seen \in FromError(msg.exc.code) :
                 answer' = [method |-> msg.method, raised |-> msg.exc, seen |-> seen]
         \/ UNCHANGED answer
  BY DEF Receive, lifeVars
<1>2. msg \in ServerMessages /\ toClient' \in Seq(ServerMessages)
  BY <1>1, Taken DEF SessionInv, WireOK
<1>s. toServer \in Seq(ClientMessages)
  BY DEF SessionInv, WireOK
<1> HIDE DEF msg
<1>3. msg.kind = "request" => msg.method \in made
  BY <1>2 DEF ServerMessages
<1>4. msg.kind = "error" => msg.exc \in Exceptions
  BY <1>2 DEF ServerMessages
<1>5. toServer' \in Seq(ClientMessages)
  <2>1. CASE msg.kind = "request" /\ toServer' = Append(toServer, response)
    <3>1. response \in ClientMessages
      BY <1>3, <2>1 DEF ClientMessages
    <3> HIDE DEF response
    <3> QED
      BY <1>s, <2>1, <3>1, Appended
  <2>2. CASE UNCHANGED toServer
    BY <1>s, <2>2
  <2> QED
    BY <1>1, <2>1, <2>2
<1>6. CalledOnce' /\ InitializedOnce'
  <2>1. CASE toServer' = Append(toServer, response)
    <3>1. response.kind = "response"
      OBVIOUS
    <3> HIDE DEF response
    <3> QED
      BY <1>1, <2>1, <3>1, OnceAnswered DEF SessionInv
  <2>2. CASE UNCHANGED toServer
    BY <1>1, <2>2, OnceStays DEF SessionInv
  <2> QED
    BY <1>1, <2>1, <2>2
<1>7. ErrorIsKept'
  <2>1. CASE UNCHANGED answer
    BY <2>1, ErrorStays DEF SessionInv
  <2>2. ASSUME msg.kind = "error", NEW seen \in FromError(msg.exc.code),
               answer' = [method |-> msg.method, raised |-> msg.exc, seen |-> seen]
        PROVE  ErrorIsKept'
    <3>1. answer'.raised = msg.exc /\ answer'.seen = seen
      BY <2>2
    <3>2. PICK exc : exc = msg.exc
      OBVIOUS
    <3>3. /\ seen.code = exc.code
          /\ FromError(exc.code) = {seen}
          /\ seen.class # "JsonRpcException" => SupportsCode(seen.class, seen.code)
          /\ exc.class \in ReceivedClasses /\ SupportsCode(exc.class, exc.code) =>
               seen.class = exc.class
      BY <1>4, <2>2, <3>2, ErrorReconstructed
    <3> QED
      BY <3>1, <3>2, <3>3 DEF ErrorIsKept
  <2> QED
    BY <1>1, <2>1, <2>2
<1>8. WireOK'
  BY <1>1, <1>2, <1>5, MessagesStay DEF SessionInv, WireOK
<1>9. RegistryInv' /\ AdvertisedIsServed'
  BY <1>1, RegistryStays, AdvertisedStays DEF SessionInv, fm
<1> QED
  BY <1>6, <1>7, <1>8, <1>9 DEF SessionInv

\* Nothing the invariant speaks of changes.
LEMMA NothingKeeps ==
  ASSUME SessionInv,
         UNCHANGED <<program, fm, toServer, called, toClient, made, caps, workspace, running,
                     answer>>
  PROVE  SessionInv'
<1>1. CalledOnce' /\ InitializedOnce'
  BY OnceStays DEF SessionInv
<1>2. /\ toServer' \in Seq(ClientMessages) /\ toClient' \in Seq(ServerMessages)
      /\ running' \subseteq Runs
  BY DEF SessionInv, WireOK
<1> QED
  BY <1>1, <1>2, ServerKeeps

\* A message the client cannot structure.
LEMMA ReceiveFailsKeeps == SessionInv /\ ReceiveFails => SessionInv'
<1> SUFFICES ASSUME SessionInv, ReceiveFails PROVE SessionInv'
  OBVIOUS
<1>1. /\ toClient # <<>> /\ toClient' = Tail(toClient)
      /\ UNCHANGED <<program, fm, toServer, called, made, caps, workspace, running, answer>>
  BY DEF ReceiveFails, clientVars, lifeVars
<1>2. toClient' \in Seq(ServerMessages)
  BY <1>1, Taken DEF SessionInv, WireOK
<1>3. CalledOnce' /\ InitializedOnce'
  BY <1>1, OnceStays DEF SessionInv
<1>4. toServer' \in Seq(ClientMessages) /\ running' \subseteq Runs
  BY <1>1 DEF SessionInv, WireOK
<1> QED
  BY <1>1, <1>2, <1>3, <1>4, ServerKeeps

LEMMA SessionStep == SessionInv /\ [Next]_vars => SessionInv'
<1>1. CASE SessionInv /\ ServerGone
  BY <1>1, NothingKeeps DEF ServerGone, callVars, lifeVars
<1>2. CASE SessionInv /\ UNCHANGED vars
  BY <1>2, NothingKeeps DEF vars, clientVars, callVars, lifeVars
<1> QED
  BY <1>1, <1>2, ClientKeeps, ServerCallsKeep, RegistersKeep, ReadsKeep, EndsKeep, ReceiveKeeps,
     ReceiveFailsKeeps
  DEF Next, Receives

LEMMA SessionStart == Init => SessionInv
<1> SUFFICES ASSUME Init PROVE SessionInv
  OBVIOUS
<1>1. /\ program \in Programs /\ toServer = <<>> /\ toClient = <<>> /\ running = {}
      /\ caps = {} /\ workspace = NoWorkspace
      /\ answer = [method |-> "none", raised |-> NoError, seen |-> NoError]
  BY DEF Init
<1>2. WireOK
  BY <1>1 DEF WireOK
<1>3. Unread = {}
  BY <1>1 DEF Unread
<1>4. CalledOnce /\ InitializedOnce
  BY <1>1, <1>3 DEF CalledOnce, InitializedOnce, NoWorkspace
<1>5. /\ DOMAIN features = {} /\ DOMAIN commands = {} /\ marked = {} /\ decorated = {}
      /\ attrs = [f \in program.funs |-> Unregistered]
  BY DEF Init, FMInit, NoHandlers
<1>6. Handlers = {}
  BY <1>5 DEF Handlers, Range
<1>7. RegistryInv
  BY <1>5, <1>6, FS_EmptySet DEF RegistryInv, AttributesLead, MarksFollow
<1>8. ErrorIsKept
  BY <1>1 DEF ErrorIsKept
<1>9. AdvertisedIsServed
  BY <1>1 DEF AdvertisedIsServed, Asked
<1> QED
  BY <1>2, <1>4, <1>7, <1>8, <1>9 DEF SessionInv

-----------------------------------------------------------------------------
(* The theorems.                                                            *)

\* The invariant holds in every session of any programs.
THEOREM SessionInvariant == Spec => []SessionInv
BY SessionStart, SessionStep, PTL DEF Spec

\* "Allow any decorator order" (FeatureManager.thread): whatever the order of
\* feature, command and thread, on any functions, a handler runs in a thread
\* exactly if its function was decorated, as far as ThreadsAsDecorated says.
THEOREM DecoratorOrder == Spec => []ThreadsAsDecorated
<1>1. SessionInv => ThreadsAsDecorated
  BY RegistryThreads DEF SessionInv
<1> QED
  BY <1>1, SessionInvariant, PTL

\* Whatever a user registers and whatever the client supports, the capabilities
\* built by ServerCapabilitiesBuilder never invite a call nobody serves, the
\* follow-ups of AdvertisedIsServed's comment aside.
THEOREM CapabilitiesAreHonest == Spec => []AdvertisedIsServed
<1>1. SessionInv => AdvertisedIsServed
  BY DEF SessionInv
<1> QED
  BY <1>1, SessionInvariant, PTL

\* Any exception a handler may raise, with any code, has one image in the client,
\* whichever class JsonRpcException.from_error looks at first: the code is kept, and
\* the class where the client knows it and it supports the code.
THEOREM ErrorsSurviveTheWire == Spec => []ErrorIsKept
<1>1. SessionInv => ErrorIsKept
  BY DEF SessionInv
<1> QED
  BY <1>1, SessionInvariant, PTL

-----------------------------------------------------------------------------
(* What a step may never do.                                                *)

\* The message the server reads next has not been handled, and no initialize is
\* read twice.
LEMMA ReadOnce ==
  ASSUME SessionInv, toServer # <<>>, Message.kind # "response"
  PROVE  /\ \A r \in running : r.method # Message.method
         /\ Message.method = "initialize" => workspace.documents = {}
<1>1. /\ DOMAIN toServer = 1 .. Len(toServer) /\ Len(toServer) \in Nat \ {0}
      /\ Message = toServer[1]
  BY Taken DEF SessionInv, WireOK, Message
<1>2. 1 \in Unread
  BY <1>1 DEF Unread
<1> QED
  BY <1>1, <1>2 DEF SessionInv, CalledOnce, InitializedOnce

\* Only reading a built-in message changes the workspace.
LEMMA WorkspaceSteps ==
  ASSUME SessionInv, [Next]_vars
  PROVE  UNCHANGED workspace \/ HandleBuiltin
<1>1. CASE Ends
  <2>1. PICK r \in running : HandlerReturns(r) \/ HandlerRaises(r) \/ HandlerCancelled(r)
    BY <1>1 DEF Ends
  <2> QED
    BY <2>1 DEF HandlerReturns, HandlerRaises, HandlerCancelled, ForNobody, Finish,
                FinishInitialize, lifeVars
<1>2. CASE Reads
  BY <1>2 DEF Reads, DropMessage, ReadFails, HandleResponse, HandleCancel, HandleFeature, HandleUnknown,
              BuiltinFails, ExecuteCommand, lifeVars
<1>3. CASE ClientCalls \/ ServerCalls \/ Registers \/ Receives \/ ServerGone
  BY <1>3 DEF ClientCalls, ServerCalls, Registers, Receives, Receive, ReceiveFails, ServerGone,
              lifeVars
<1>4. CASE UNCHANGED vars
  BY <1>4 DEF vars, lifeVars
<1> QED
  BY <1>1, <1>2, <1>3, <1>4 DEF Next

\* Only a message that closes a document takes it out of the workspace, also
\* when lsp_initialize makes the workspace and its user handler yields.
THEOREM DocumentsAreKept == Spec => OpenedIsKept
<1> DEFINE Kept == \A d \in workspace.documents \ workspace'.documents :
                     toServer # <<>> /\ <<Message.method, d>> \in Closes
<1>1. SessionInv /\ [Next]_vars => Kept
  <2> SUFFICES ASSUME SessionInv, [Next]_vars,
                      NEW d \in workspace.documents, d \notin workspace'.documents
               PROVE  toServer # <<>> /\ <<Message.method, d>> \in Closes
    OBVIOUS
  <2> DEFINE m == Message.method
             ws == Effect(m, Message.params)
  <2>1. HandleBuiltin
    BY WorkspaceSteps
  <2>2. /\ toServer # <<>> /\ Message.kind # "response" /\ workspace' = ws
    BY <2>1 DEF HandleBuiltin, Calling, Read, Finish, FinishInitialize
  <2>3. m # "initialize"
    BY <2>2, ReadOnce
  <2>4. DOMAIN workspace = {"exists", "root", "uri", "encoding", "documents"}
    BY DEF SessionInv, InitializedOnce, NoWorkspace
  <2>5. ws.documents = (workspace.documents
                          \cup {e \in {"textDocument", "notebookDocument"} : <<m, e>> \in Opens})
                          \ {e \in workspace.documents : <<m, e>> \in Closes}
    BY <2>3, <2>4 DEF Effect
  <2> QED
    BY <2>2, <2>5
<1>2. SessionInv /\ [Next]_vars => [Kept]_vars
  BY <1>1
<1> QED
  BY <1>2, SessionInvariant, PTL DEF Spec, OpenedIsKept

\* The root the workspace works with is the path the client gave, in its native
\* form, for absolute paths of any length: from_fs_path and to_fs_path undo each
\* other, but for the names on POSIX that are taken for drives.
THEOREM RootSurvives == Spec => []RootIsKept
<1>1. Init => RootIsKept
  BY DEF Init, RootIsKept, NoWorkspace
<1>2. SessionInv /\ RootIsKept /\ [Next]_vars => RootIsKept'
  <2> SUFFICES ASSUME SessionInv, RootIsKept, [Next]_vars PROVE RootIsKept'
    OBVIOUS
  <2>1. ASSUME UNCHANGED <<workspace.root, workspace.uri>> PROVE RootIsKept'
    BY <2>1 DEF RootIsKept
  <2>2. CASE HandleBuiltin
    <3> DEFINE m == Message.method
               ws == Effect(m, Message.params)
    <3>1. /\ toServer # <<>> /\ Message.kind \in {"request", "notification"}
          /\ workspace' = ws /\ ~BuiltinRaises(m, Message.params)
      BY <2>2 DEF HandleBuiltin, Calling, Read, Finish, FinishInitialize
    <3>2. CASE m # "initialize"
      <4>1. DOMAIN workspace = {"exists", "root", "uri", "encoding", "documents"}
        BY DEF SessionInv, InitializedOnce, NoWorkspace
      <4>2. ws.root = workspace.root /\ ws.uri = workspace.uri
        BY <3>2, <4>1 DEF Effect
      <4> QED
        BY <2>1, <3>1, <4>2
    <3>3. CASE m = "initialize"
      <4>1. PICK root \in program.roots : Message.params = <<root>>
        <5>1. Message \in ClientMessages
          BY <3>1, MessageOK DEF SessionInv
        <5> QED
          BY <3>1, <3>3, <5>1 DEF ClientMessages
      <4>2. ws = NewWorkspace(root) /\ ~Raises(root.win, root.path)
        BY <3>1, <3>3, <4>1 DEF Effect, BuiltinRaises
      <4>3. root.win \in BOOLEAN /\ (root.path # <<>> => IsAbsolute(root.win, root.path))
        BY SessionAssumption DEF SessionInv, WireOK
      <4>4. /\ workspace'.root = root
            /\ root.path # <<>> => workspace'.uri = FromFsPath(root.win, root.path)
        BY <3>1, <4>2 DEF NewWorkspace
      <4>5. root.path # <<>> /\ (~root.win => ~TakenForDrive(root.path)) =>
              ToFsPath(root.win, workspace'.uri) = NativeForm(root.win, root.path)
        BY <4>2, <4>3, <4>4, RootRoundTrip
      <4> QED
        BY <4>4, <4>5 DEF RootIsKept
    <3> QED
      BY <3>2, <3>3
  <2>3. CASE UNCHANGED workspace
    BY <2>1, <2>3
  <2> QED
    BY <2>2, <2>3, WorkspaceSteps
<1> QED
  BY <1>1, <1>2, SessionInvariant, PTL DEF Spec

\* Only the rest of initialize makes a server ready.
LEMMA ReadySteps ==
  ASSUME [Next]_vars, phase # "ready", phase' = "ready"
  PROVE  UNCHANGED fm /\ \E ws : FinishInitialize(ws)
<1>1. CASE Ends
  <2>1. PICK r \in running : HandlerReturns(r) \/ HandlerRaises(r) \/ HandlerCancelled(r)
    BY <1>1 DEF Ends
  <2> QED
    BY <2>1 DEF HandlerReturns, HandlerRaises, HandlerCancelled, ForNobody, Finish, lifeVars
<1>2. CASE Reads
  <2>1. UNCHANGED fm
    BY <1>2 DEF Reads, DropMessage, ReadFails, HandleResponse, HandleCancel, HandleFeature, HandleUnknown,
                BuiltinFails, HandleBuiltin, ExecuteCommand, Calling, Read
  <2>2. HandleBuiltin
    BY <1>2 DEF Reads, DropMessage, ReadFails, HandleResponse, HandleCancel, HandleFeature, HandleUnknown,
                BuiltinFails, ExecuteCommand, lifeVars
  <2> QED
    BY <2>1, <2>2 DEF HandleBuiltin, Finish
<1>3. CASE ClientCalls \/ ServerCalls \/ Registers \/ Receives \/ ServerGone
  BY <1>3 DEF ClientCalls, ServerCalls, Registers, Receives, Receive, ReceiveFails, ServerGone,
              lifeVars
<1>4. CASE UNCHANGED vars
  BY <1>4 DEF vars, lifeVars
<1> QED
  BY <1>1, <1>2, <1>3, <1>4 DEF Next

\* The capabilities leave out nothing that was registered before the user's
\* initialize handler was done, for any features, options and commands.
THEOREM NothingIsForgotten == Spec => RegisteredIsAdvertised
<1> DEFINE Announced ==
      phase # "ready" /\ phase' = "ready" =>
        /\ \A m \in DOMAIN features : Announceable(m) => m \in Invited(caps')
        /\ \A c \in DOMAIN commands : <<"execute_command", c>> \in caps'
<1>1. [Next]_vars => Announced
  <2> SUFFICES ASSUME [Next]_vars, phase # "ready", phase' = "ready"
               PROVE  /\ \A m \in DOMAIN features : Announceable(m) => m \in Invited(caps')
                      /\ \A c \in DOMAIN commands : <<"execute_command", c>> \in caps'
    OBVIOUS
  <2>1. PICK b : BuilderOf(b) /\ caps' = Build(b)
    BY ReadySteps DEF FinishInitialize, BuilderOf
  <2>2. \A m \in DOMAIN features : Announceable(m) => m \in Invited(caps')
    BY <2>1, BuildComplete
  <2>3. ASSUME NEW c \in DOMAIN commands PROVE <<"execute_command", c>> \in caps'
    <3>1. <<"execute_command", c>> \in WithExecuteCommand(b)
      BY <2>1 DEF BuilderOf, WithExecuteCommand, Field
    <3> QED
      BY <2>1, <3>1 DEF Build
  <2> QED
    BY <2>2, <2>3
<1>2. [Next]_vars => [Announced]_vars
  BY <1>1
<1> QED
  BY <1>2, PTL DEF Spec, RegisteredIsAdvertised

LEMMA Shorter ==
  ASSUME NEW k \in Nat, NEW s, NEW t, Len(s) = k - 1, Len(t) = k \/ Len(t) = k + 1
  PROVE  s # t
<1> SUFFICES ASSUME s = t PROVE FALSE
  OBVIOUS
<1>1. k - 1 = k \/ k - 1 = k + 1
  OBVIOUS
<1> QED
  BY <1>1

\* A message with the parameters of a command is executed.
LEMMA CommandSteps ==
  ASSUME SessionInv, [Next]_vars, toServer # <<>>, toServer' = Tail(toServer), ~stopping,
         "workspace/executeCommand" \notin program.faulty,
         NEW call \in program.commandCalls, Message.kind = "request", Message.params = call
  PROVE  ExecuteCommand /\ Message.method = "workspace/executeCommand"
<1>s. toServer \in Seq(ClientMessages)
  BY DEF SessionInv, WireOK
<1>l. Len(toServer) \in Nat /\ Len(Tail(toServer)) = Len(toServer) - 1
  BY <1>s
<1>g. ASSUME NEW msg PROVE Tail(toServer) # Append(toServer, msg)
  <2>1. toServer \in Seq(ClientMessages \cup {msg})
    BY <1>s, SeqGrows
  <2>2. Len(Append(toServer, msg)) = Len(toServer) + 1
    BY <2>1
  <2> QED
    BY <1>l, <2>2, Shorter
<1>n. Tail(toServer) # toServer
  BY <1>l, Shorter
<1>m. Message.method = "workspace/executeCommand"
  <2>1. Message \in ClientMessages
    BY MessageOK DEF SessionInv
  <2>2. PICK c, n, fit : call = <<c, n, fit>>
    BY SessionAssumption DEF SessionInv, WireOK
  <2>3. (\A root : call # <<root>>) /\ call # <<>>
    BY <2>2
  <2> QED
    BY <2>1, <2>3 DEF ClientMessages
<1>1. ASSUME ClientCalls PROVE FALSE
  BY <1>1, <1>g, <1>n, ClientSends DEF SessionInv
<1>2. ASSUME ServerCalls \/ Registers \/ ServerGone \/ UNCHANGED vars PROVE FALSE
  BY <1>2, <1>n DEF ServerCalls, Registers, ServerGone, vars, clientVars
<1>3. ASSUME Receives PROVE FALSE
  BY <1>3, <1>g, <1>n DEF Receives, Receive, ReceiveFails, clientVars
<1>4. ASSUME Ends PROVE FALSE
  BY <1>4, <1>n DEF Ends, HandlerReturns, HandlerRaises, HandlerCancelled, clientVars
<1>5. Reads
  BY <1>1, <1>2, <1>3, <1>4 DEF Next
<1>6. ~BuiltinRaises(Message.method, Message.params)
  BY <1>m DEF BuiltinRaises, Synchronising, NotebookSync, Changes
<1>7. Message.method \in Builtin
  BY <1>m DEF Builtin
<1> QED
  BY <1>m, <1>5, <1>6, <1>7 DEF Reads, DropMessage, Dropped, ReadFails, HandleResponse, HandleCancel,
     HandleFeature, HandleUnknown, BuiltinFails, HandleBuiltin

\* The rule of _prepare_command_arguments and Python's own agree on the regular
\* functions, but for parameters with defaults.
LEMMA PreparedIsCallable ==
  ASSUME NEW f \in DOMAIN Signature, Regular(f), NEW n \in Nat, NEW fit
  PROVE  LET all == Parameters(f) - (IF f \in ServerFuns THEN 1 ELSE 0) IN
         /\ Prepared(f, n, fit) => Callable(f, n)
         /\ Callable(f, n) /\ fit /\ (Signature[f].defaults = 0 \/ n = all) =>
              Prepared(f, n, fit)
<1>1. /\ Signature[f].others \in Nat /\ Signature[f].defaults \in Nat
      /\ Signature[f].keywords \in Nat
      /\ Signature[f].needed => Signature[f].keywords > 0
  BY SessionAssumption
<1>2. f \in ServerFuns <=> Signature[f].first \in {"ls", "exact", "derived"}
  BY DEF ServerFuns, Regular
<1>3. Parameters(f) \in Nat
  BY <1>1 DEF Parameters
<1>k. Keywords(f) = 0 /\ ~Signature[f].needed /\ Signature[f].first # "generic"
  <2>1. Keywords(f) = 0 /\ Signature[f].first # "generic"
    BY DEF Regular
  <2>2. Signature[f].keywords = 0
    BY <1>1, <2>1 DEF Keywords
  <2> QED
    BY <1>1, <2>1, <2>2
<1> DEFINE s == IF f \in ServerFuns THEN 1 ELSE 0
           p == Parameters(f)
           d == Signature[f].defaults
           var == Signature[f].var
<1>n. n # NoArguments
  BY DEF NoArguments
<1>6. s \in {0, 1} /\ p \in Nat /\ d \in Nat
  BY <1>1, <1>3
<1>4. Prepared(f, n, fit) <=> fit /\ p - s <= n /\ (n <= p - s \/ var)
  <2>1. p - s + 0 = p - s
    BY <1>6
  <2> QED
    BY <1>2, <1>k, <1>n, <2>1 DEF Prepared, Takes
<1>5. Callable(f, n) <=> p - d <= n + s /\ (n + s <= p \/ var)
  BY <1>k, <1>n DEF Callable, Takes
<1> HIDE DEF s, p, d, var
<1>7. /\ Prepared(f, n, fit) => Callable(f, n)
      /\ Callable(f, n) /\ fit /\ (d = 0 \/ n = p - s) => Prepared(f, n, fit)
  BY <1>4, <1>5, <1>6
<1> QED
  BY <1>7 DEF s, p, d

\* The last message says that the parameters were invalid.
LEMMA FailureIsLast ==
  ASSUME WireOK, NEW m \in called, NEW exc \in Exceptions, Fail(m, "request", exc)
  PROVE  toClient'[Len(toClient')].exc = exc
<1>1. FailureReply(m, "request", exc) = <<Error(m, exc)>>
  BY DEF FailureReply, report_server_error
<1>2. toClient \in Seq(ServerMessages) /\ Error(m, exc) \in ServerMessages
  BY ReplyOK DEF WireOK
<1>3. toClient' = toClient \o <<Error(m, exc)>>
  BY <1>1 DEF Fail
<1>4. Len(toClient') = Len(toClient) + 1 /\ toClient'[Len(toClient) + 1] = Error(m, exc)
  BY <1>2, <1>3
<1> QED
  BY <1>4 DEF Error

\* A command runs only if Python accepts the call, and a regular function whose
\* arguments fit runs if Python does, whatever the signatures and the calls.
THEOREM CommandsGetTheirArguments == Spec => CommandArity
<1> DEFINE Outcome(f, n, fit) ==
             LET all  == Parameters(f) - (IF f \in ServerFuns THEN 1 ELSE 0)
                 fits == Callable(f, n) /\ fit /\ (Signature[f].defaults = 0 \/ n = all)
                 ran  == \E r \in running' : r.method = "workspace/executeCommand"
                 said == toClient'[Len(toClient')].exc.class
             IN  /\ Regular(f) /\ fits => ran
                 /\ ran => Callable(f, n)
                 /\ ~ran => \/ said = "JsonRpcInvalidParams"
                            \/ /\ said = "JsonRpcInternalError"
                               /\ n = NoArguments \/ ~Regular(f)
           Arity ==
             \A c \in DOMAIN commands, call \in program.commandCalls :
               /\ toServer # <<>> /\ toServer' = Tail(toServer) /\ ~stopping
               /\ "workspace/executeCommand" \notin program.faulty
               /\ Message.kind = "request" /\ Message.params = call /\ call[1] = c
               => Outcome(commands[c].fun, call[2], call[3])
<1>1. SessionInv /\ [Next]_vars => Arity
  <2> SUFFICES ASSUME SessionInv, [Next]_vars,
                      NEW c \in DOMAIN commands, NEW call \in program.commandCalls,
                      toServer # <<>>, toServer' = Tail(toServer), ~stopping,
                      "workspace/executeCommand" \notin program.faulty,
                      Message.kind = "request", Message.params = call, call[1] = c
               PROVE  Outcome(commands[c].fun, call[2], call[3])
    OBVIOUS
  <2> DEFINE m == "workspace/executeCommand"
             f == commands[c].fun
             n == call[2]
             fit == call[3]
             all == Parameters(f) - (IF f \in ServerFuns THEN 1 ELSE 0)
             fits == Callable(f, n) /\ fit /\ (Signature[f].defaults = 0 \/ n = all)
             ran == \E r \in running' : r.method = m
             said == toClient'[Len(toClient')].exc.class
  <2>1. ExecuteCommand /\ Message.method = m
    BY CommandSteps
  <2>3. /\ ~Prepared(f, n, fit) =>
             Fail(m, "request", Default("JsonRpcInvalidParams")) /\ UNCHANGED running
        /\ Prepared(f, n, fit) /\ ~Callable(f, n) =>
             Fail(m, "request", Default("JsonRpcInternalError")) /\ UNCHANGED running
        /\ Prepared(f, n, fit) /\ Callable(f, n) => Start(Message, commands[c])
    BY <2>1 DEF ExecuteCommand
  <2>4. m \in called /\ \A r \in running : r.method # m
    BY <2>1, MessageOK, ReadOnce DEF SessionInv
  <2>5. UNCHANGED running => ~ran
    BY <2>4
  <2>6. Start(Message, commands[c]) => ran
    <3> DEFINE r == [method |-> Message.method, kind |-> Message.kind,
                     mode |-> Mode(commands[c]), cancelled |-> FALSE]
    <3>1. r.method = m
      BY <2>1
    <3>2. Start(Message, commands[c]) => r \in running'
      BY DEF Start
    <3> HIDE DEF r
    <3> QED
      BY <3>1, <3>2
  <2>7. f \in DOMAIN Signature
    <3>1. commands[c] \in Handlers
      BY DEF Handlers, Range
    <3>2. f \in program.funs
      BY <3>1 DEF SessionInv, RegistryInv, MarksFollow
    <3> QED
      BY <3>2, SessionAssumption DEF SessionInv, WireOK
  <2>8. n = NoArguments => Prepared(f, n, fit)
    BY DEF Prepared
  <2>9. n # NoArguments => n \in Nat
    BY SessionAssumption DEF SessionInv, WireOK, NoArguments
  <2>10. n # NoArguments /\ Regular(f) =>
           (Prepared(f, n, fit) => Callable(f, n)) /\ (fits => Prepared(f, n, fit))
    BY <2>7, <2>9, PreparedIsCallable
  <2>11. /\ Fail(m, "request", Default("JsonRpcInvalidParams")) => said = "JsonRpcInvalidParams"
         /\ Fail(m, "request", Default("JsonRpcInternalError")) => said = "JsonRpcInternalError"
    <3>1. /\ Default("JsonRpcInvalidParams").class = "JsonRpcInvalidParams"
          /\ Default("JsonRpcInternalError").class = "JsonRpcInternalError"
      BY DEF Default, Raise
    <3> QED
      BY <2>4, <3>1, FailureIsLast, DefaultIsException DEF SessionInv
  <2>12. fits => Callable(f, n)
    OBVIOUS
  <2> HIDE DEF m, f, n, fit, all, fits, ran, said
  <2>13. /\ Regular(f) /\ fits => ran
         /\ ran => Callable(f, n)
         /\ ~ran => \/ said = "JsonRpcInvalidParams"
                    \/ said = "JsonRpcInternalError" /\ (n = NoArguments \/ ~Regular(f))
    BY <2>3, <2>5, <2>6, <2>8, <2>10, <2>11, <2>12
  <2> QED
    BY <2>13 DEF m, f, n, fit, all, fits, ran, said
<1>2. SessionInv /\ [Next]_vars => [Arity]_vars
  BY <1>1
<1> QED
  BY <1>2, SessionInvariant, PTL DEF Spec, CommandArity

-----------------------------------------------------------------------------
(* Nothing is lost on the way.                                              *)

Answers == {"result", "error"}

LEMMA WireAdds ==
  ASSUME NEW S, NEW s \in Seq(S), NEW e, NEW t, t = Append(s, e)
  PROVE  \A K, m : /\ OnWire(s, K, m) => OnWire(t, K, m)
                   /\ e.kind \in K /\ e.method = m => OnWire(t, K, m)
<1>1. /\ DOMAIN s = 1 .. Len(s) /\ Len(s) \in Nat
      /\ DOMAIN t = 1 .. Len(s) + 1 /\ t[Len(s) + 1] = e
      /\ \A i \in 1 .. Len(s) : t[i] = s[i]
  BY Appended
<1>2. Len(s) + 1 \in DOMAIN t /\ \A i \in DOMAIN s : i \in DOMAIN t /\ t[i] = s[i]
  BY <1>1
<1> QED
  BY <1>1, <1>2 DEF OnWire

LEMMA WireTaken ==
  ASSUME NEW S, NEW s \in Seq(S), s # <<>>, NEW t, t = Tail(s)
  PROVE  \A K, m : OnWire(s, K, m) =>
           OnWire(t, K, m) \/ (Head(s).kind \in K /\ Head(s).method = m)
<1>1. /\ DOMAIN s = 1 .. Len(s) /\ Len(s) \in Nat \ {0}
      /\ DOMAIN t = 1 .. Len(s) - 1 /\ Head(s) = s[1]
      /\ \A i \in 1 .. Len(s) - 1 : t[i] = s[i + 1]
  BY Taken
<1>2. \A i \in DOMAIN s : i = 1 \/ (i - 1 \in DOMAIN t /\ t[i - 1] = s[i])
  BY <1>1
<1> QED
  BY <1>1, <1>2 DEF OnWire

\* The server adds to the client's wire, at its end.
Adds == \E more \in Seq(ServerMessages) : toClient' = toClient \o more

LEMMA AddsKeeps ==
  ASSUME toClient \in Seq(ServerMessages), Adds
  PROVE  \A K, m : OnWire(toClient, K, m) => OnWire(toClient', K, m)
<1>1. PICK more \in Seq(ServerMessages) : toClient' = toClient \o more
  BY DEF Adds
<1>2. \A i \in DOMAIN toClient : i \in DOMAIN toClient' /\ toClient'[i] = toClient[i]
  BY <1>1
<1> QED
  BY <1>2 DEF OnWire

LEMMA AddsOne ==
  ASSUME toClient \in Seq(ServerMessages), NEW msg \in ServerMessages,
         toClient' = Append(toClient, msg)
  PROVE  Adds /\ OnWire(toClient', {msg.kind}, msg.method)
<1>1. <<msg>> \in Seq(ServerMessages) /\ Append(toClient, msg) = toClient \o <<msg>>
  OBVIOUS
<1>2. OnWire(toClient', {msg.kind}, msg.method)
  BY WireAdds
<1> QED
  BY <1>1, <1>2 DEF Adds

LEMMA AddsNothing ==
  ASSUME toClient \in Seq(ServerMessages), UNCHANGED toClient
  PROVE  Adds
<1>1. <<>> \in Seq(ServerMessages) /\ toClient = toClient \o <<>>
  OBVIOUS
<1> QED
  BY <1>1 DEF Adds

\* A failure is told to the client in one message, and a request answered by it.
LEMMA FailTells ==
  ASSUME toClient \in Seq(ServerMessages), NEW m \in called,
         NEW kind \in {"request", "notification"}, NEW exc \in Exceptions, Fail(m, kind, exc)
  PROVE  /\ Adds
         /\ kind = "request" => OnWire(toClient', {"error"}, m)
<1>1. CASE kind = "request"
  <2>1. Error(m, exc) \in ServerMessages
    BY ReplyOK
  <2>2. FailureReply(m, kind, exc) = <<Error(m, exc)>>
    BY <1>1 DEF FailureReply, report_server_error
  <2>3. toClient' = Append(toClient, Error(m, exc))
    BY <2>1, <2>2 DEF Fail
  <2>4. Error(m, exc).kind = "error" /\ Error(m, exc).method = m
    BY DEF Error
  <2> QED
    BY <2>1, <2>3, <2>4, AddsOne
<1>2. CASE kind # "request"
  <2>1. Server!Shown(m) \in ServerMessages
    BY ShownOK
  <2>2. FailureReply(m, kind, exc) = <<Server!Shown(m)>>
    BY <1>2 DEF FailureReply, report_server_error
  <2>3. toClient' = Append(toClient, Server!Shown(m))
    BY <2>1, <2>2 DEF Fail
  <2> QED
    BY <1>2, <2>1, <2>3, AddsOne
<1> QED
  BY <1>1, <1>2

\* A reply that cannot be encoded is reported, and noted.
LEMMA UnsentTells ==
  ASSUME toClient \in Seq(ServerMessages), NEW m \in called, NEW kind, Unsent(m, kind)
  PROVE  Adds /\ m \in lost' /\ lost \subseteq lost'
<1>1. Server!Shown(m) \in ServerMessages
  BY ShownOK
<1> QED
  BY <1>1, AddsOne DEF Unsent

LEMMA ReplyTells ==
  ASSUME toClient \in Seq(ServerMessages), NEW msg \in ServerMessages,
         msg.kind \in Answers, toClient' = Append(toClient, msg)
  PROVE  Adds /\ OnWire(toClient', Answers, msg.method)
<1>1. OnWire(toClient', Answers, msg.method)
  BY WireAdds
<1> QED
  BY <1>1, AddsOne

LEMMA ErrorAnswers ==
  ASSUME NEW wire, NEW m, OnWire(wire, {"error"}, m)
  PROVE  OnWire(wire, Answers, m)
BY DEF OnWire, Answers

\* A handler that runs and will answer is one the next state has.
LEMMA StillHandled ==
  ASSUME NEW r \in running', WillAnswer(r)
  PROVE  BeingHandled(r.method)'
<1>1. Builtin' = Builtin
  BY DEF Builtin, Synchronising, NotebookSync
<1> QED
  BY <1>1 DEF BeingHandled, WillAnswer

\* Cancelling keeps the handlers of the user's features as they are, but for the
\* mark.
LEMMA CancelAnswers ==
  ASSUME NEW rs \in SUBSET Runs, NEW q \in rs, WillAnswer(q), q.method \notin Builtin
  PROVE  \E r \in Cancel(rs) : r.method = q.method /\ WillAnswer(r)
<1> DEFINE r == [q EXCEPT !.cancelled = @ \/ q.mode = "task" \/ q.method \in Builtin]
<1>1. r \in Cancel(rs)
  BY DEF Cancel
<1>2. r.method = q.method /\ r.kind = q.kind
  BY DEF Runs
<1> QED
  BY <1>1, <1>2 DEF WillAnswer

\* What a step of the server does for a request, and for those whose handlers ran
\* before it.
Settled(m) == BeingHandled(m)' \/ OnWire(toClient', Answers, m) \/ m \in lost'

Settles(rs) == \A q \in rs : WillAnswer(q) => Settled(q.method)

\* What is lost once is lost for good.
Loses == lost \subseteq lost' /\ mislaid \subseteq mislaid'

LEMMA SettlesStill ==
  ASSUME NEW rs, rs \subseteq running'
  PROVE  Settles(rs)
BY StillHandled DEF Settles, Settled

LEMMA FinishTells ==
  ASSUME WireOK, NEW m \in called, NEW kind, NEW rest \in SUBSET running, NEW ws,
         Finish(m, kind, rest, ws)
  PROVE  /\ Adds /\ Settles(rest) /\ Loses
         /\ kind = "request" => Settled(m)
         /\ outstanding' \subseteq outstanding
         /\ stopping => stopping'
<1>1. toClient \in Seq(ServerMessages) /\ rest \subseteq Runs
  BY DEF WireOK
<1>m. UNCHANGED mislaid
  BY DEF Finish
<1>2. CASE m = "shutdown" /\ FinishShutdown(rest)
  <2> DEFINE waiting == {r \in rest : r.kind = "request" /\ r.method \in Builtin /\ ~r.cancelled}
  <2>w. \A q \in rest : WillAnswer(q) => q \in waiting \/ q.method \notin Builtin
    BY DEF WillAnswer
  <2>1. ASSUME waiting = {}, stopping' = TRUE, running' = Cancel(rest), outstanding' = {},
               toClient' = Append(toClient, Result("shutdown")), UNCHANGED lost
        PROVE  /\ Adds /\ Settles(rest) /\ lost \subseteq lost'
               /\ OnWire(toClient', Answers, "shutdown")
               /\ outstanding' \subseteq outstanding
               /\ stopping => stopping'
    <3>1. /\ Result("shutdown") \in ServerMessages /\ Result("shutdown").kind \in Answers
          /\ Result("shutdown").method = "shutdown"
      BY <1>2, ReplyOK DEF Result, Answers
    <3>2. Adds /\ OnWire(toClient', Answers, "shutdown")
      BY <1>1, <2>1, <3>1, ReplyTells
    <3>3. Settles(rest)
      <4> SUFFICES ASSUME NEW q \in rest, WillAnswer(q) PROVE BeingHandled(q.method)'
        BY DEF Settles, Settled
      <4>1. q.method \notin Builtin /\ rest \in SUBSET Runs
        BY <1>1, <2>w, <2>1
      <4>2. PICK r \in Cancel(rest) : r.method = q.method /\ WillAnswer(r)
        BY <4>1, CancelAnswers
      <4>3. r \in running'
        BY <2>1, <4>2
      <4>4. BeingHandled(r.method)'
        BY <4>2, <4>3, StillHandled
      <4> QED
        BY <4>2, <4>4
    <3> QED
      BY <2>1, <3>2, <3>3
  <2>2. ASSUME NEW first \in waiting, NEW others \in SUBSET (rest \ waiting),
               running' = Cancel({first} \cup others) \cup (rest \ ({first} \cup others)),
               outstanding' \in SUBSET outstanding,
               toClient' = toClient \o
                 <<Error(first.method, Default("JsonRpcRequestCancelled")),
                   Error("shutdown", Default("JsonRpcInternalError"))>>,
               UNCHANGED <<stopping, lost>>
        PROVE  /\ Adds /\ Settles(rest) /\ lost \subseteq lost'
               /\ OnWire(toClient', Answers, "shutdown")
               /\ outstanding' \subseteq outstanding
               /\ stopping => stopping'
    <3> DEFINE told == Error(first.method, Default("JsonRpcRequestCancelled"))
               failed == Error("shutdown", Default("JsonRpcInternalError"))
    <3>1. first \in rest /\ first.method \in called /\ {first} \cup others \in SUBSET Runs
      BY <1>1 DEF Runs
    <3>2. told \in ServerMessages /\ failed \in ServerMessages
      BY <1>2, <3>1, ReplyOK, DefaultIsException
    <3>3. /\ told.kind = "error" /\ told.method = first.method
          /\ failed.kind = "error" /\ failed.method = "shutdown"
      BY DEF Error
    <3> HIDE DEF told, failed
    <3>4. toClient' = toClient \o <<told, failed>>
      BY <2>2 DEF told, failed
    <3>m. <<told, failed>> \in Seq(ServerMessages)
      BY <3>2
    <3>5. Adds
      BY <3>m, <3>4 DEF Adds
    <3>6. /\ Len(toClient) + 1 \in DOMAIN toClient' /\ toClient'[Len(toClient) + 1] = told
          /\ Len(toClient) + 2 \in DOMAIN toClient' /\ toClient'[Len(toClient) + 2] = failed
      BY <1>1, <3>2, <3>4
    <3>7. OnWire(toClient', {"error"}, first.method) /\ OnWire(toClient', {"error"}, "shutdown")
      BY <3>3, <3>6 DEF OnWire
    <3>8. OnWire(toClient', Answers, first.method) /\ OnWire(toClient', Answers, "shutdown")
      BY <3>7, ErrorAnswers
    <3>9. Settles(rest)
      <4> SUFFICES ASSUME NEW q \in rest, WillAnswer(q), q # first
                   PROVE  BeingHandled(q.method)'
        BY <3>8 DEF Settles, Settled
      <4>1. CASE q \in others
        <5>1. q.method \notin Builtin
          BY <2>w, <4>1
        <5>2. PICK r \in Cancel({first} \cup others) : r.method = q.method /\ WillAnswer(r)
          BY <3>1, <4>1, <5>1, CancelAnswers
        <5>3. r \in running'
          BY <2>2, <5>2
        <5>4. BeingHandled(r.method)'
          BY <5>2, <5>3, StillHandled
        <5> QED
          BY <5>2, <5>4
      <4>2. CASE q \notin others
        <5>1. q \in running'
          BY <2>2, <4>2
        <5> QED
          BY <5>1, StillHandled
      <4> QED
        BY <4>1, <4>2
    <3> QED
      BY <2>2, <3>5, <3>8, <3>9
  <2>3. /\ Adds /\ Settles(rest) /\ lost \subseteq lost'
        /\ OnWire(toClient', Answers, "shutdown")
        /\ outstanding' \subseteq outstanding
        /\ stopping => stopping'
    BY <1>2, <2>1, <2>2 DEF FinishShutdown
  <2> QED
    BY <1>2, <1>m, <2>3 DEF Settled, Loses
<1>3. CASE m # "shutdown" /\ FinishOther(m, kind, rest)
  <2>1. running' = rest /\ UNCHANGED <<outstanding, stopping>>
    BY <1>3 DEF FinishOther
  <2>2. Result(m) \in ServerMessages /\ Result(m).kind \in Answers /\ Result(m).method = m
    BY ReplyOK DEF Result, Answers
  <2>3. /\ Adds /\ lost \subseteq lost'
        /\ kind = "request" => OnWire(toClient', Answers, m) \/ m \in lost'
    <3>1. CASE Unsent(m, kind)
      BY <1>1, <3>1, UnsentTells
    <3>2. CASE kind = "request" /\ toClient' = Append(toClient, Result(m)) /\ UNCHANGED lost
      BY <1>1, <2>2, <3>2, ReplyTells
    <3>3. CASE kind # "request" /\ UNCHANGED <<toClient, lost>>
      BY <1>1, <3>3, AddsNothing
    <3> QED
      BY <1>3, <3>1, <3>2, <3>3 DEF FinishOther
  <2>4. Settles(rest)
    BY <2>1, SettlesStill
  <2> QED
    BY <1>m, <2>1, <2>3, <2>4 DEF Settled, Loses
<1> QED
  BY <1>2, <1>3 DEF Finish

\* What the server does when it reads a message: it answers a request or starts a
\* handler that will, and takes a response for the call it belongs to.
Advances ==
  /\ Adds /\ Settles(running) /\ Loses
  /\ \A m : Message.kind = "request" /\ Message.method = m => stopping \/ Settled(m)
  /\ \A m \in outstanding' \ mislaid' :
       m \in outstanding /\ (stopping \/ ~(Message.kind = "response" /\ Message.method = m))
  /\ stopping => stopping'

\* A handler is started for the message.
LEMMA StartAdvances ==
  ASSUME SessionInv, Calling, NEW h, Start(Message, h),
         UNCHANGED <<toClient, outstanding, stopping, lost, mislaid>>
  PROVE  Advances
<1>1. PICK new : new = [method |-> Message.method, kind |-> Message.kind, mode |-> Mode(h),
                        cancelled |-> FALSE]
  OBVIOUS
<1>2. /\ new \in running' /\ running \subseteq running'
      /\ new.method = Message.method /\ (Message.kind = "request" => WillAnswer(new))
  BY <1>1 DEF Start, WillAnswer
<1>3. WillAnswer(new) => BeingHandled(new.method)'
  BY <1>2, StillHandled
<1>4. Adds
  BY AddsNothing DEF SessionInv, WireOK
<1>5. Settles(running)
  BY <1>2, SettlesStill
<1> QED
  BY <1>2, <1>3, <1>4, <1>5 DEF Advances, Calling, Settled, Loses

\* The message has failed.
LEMMA FailAdvances ==
  ASSUME SessionInv, Calling, NEW exc \in Exceptions, Fail(Message.method, Message.kind, exc),
         UNCHANGED <<running, outstanding, stopping, mislaid>>
  PROVE  Advances
<1>1. PICK m, kind : m = Message.method /\ kind = Message.kind
  OBVIOUS
<1>2. /\ toClient \in Seq(ServerMessages) /\ m \in called
      /\ kind \in {"request", "notification"} /\ Fail(m, kind, exc)
  BY <1>1, MessageOK DEF SessionInv, WireOK, Calling, Read
<1>3. Adds /\ (kind = "request" => OnWire(toClient', {"error"}, m))
  BY <1>2, FailTells
<1>4. kind = "request" => OnWire(toClient', Answers, m)
  BY <1>3, ErrorAnswers
<1>5. Settles(running)
  BY SettlesStill
<1>6. Loses
  BY <1>2 DEF Fail, Loses
<1> QED
  BY <1>1, <1>2, <1>3, <1>4, <1>5, <1>6 DEF Advances, Settled

\* A command that is cancelled is answered at once.
LEMMA CancelAdvances ==
  ASSUME SessionInv, HandleCancel
  PROVE  Advances
<1>1. PICK x : x = Message.params[1]
  OBVIOUS
<1> DEFINE target == {r \in running : r.kind = "request" /\ r.method = x /\ ~r.cancelled}
           done == {r \in target : r.method \in Builtin}
           reply == Error(x, Default("JsonRpcRequestCancelled"))
<1>2. /\ UNCHANGED <<outstanding, stopping, lost, mislaid>> /\ Message.kind = "notification"
      /\ running' = (running \ target) \cup Cancel(target)
      /\ toClient' = IF done = {} THEN toClient ELSE Append(toClient, reply)
  BY <1>1 DEF HandleCancel, lifeVars
<1>3. target \in SUBSET Runs /\ running \subseteq Runs /\ toClient \in Seq(ServerMessages)
  BY DEF SessionInv, WireOK
<1>4. ASSUME done # {}
      PROVE  Adds /\ OnWire(toClient', Answers, x)
  <2>1. x \in called
    BY <1>3, <1>4 DEF Runs
  <2>2. reply \in ServerMessages /\ reply.kind \in Answers /\ reply.method = x
    BY <2>1, ReplyOK, DefaultIsException DEF Error, Answers
  <2> HIDE DEF reply
  <2>3. toClient' = Append(toClient, reply)
    BY <1>2, <1>4
  <2> QED
    BY <1>3, <2>2, <2>3, ReplyTells
<1>5. Adds
  <2>1. CASE done = {}
    BY <1>2, <1>3, <2>1, AddsNothing
  <2> QED
    BY <1>4, <2>1
<1>6. Settles(running)
  <2> SUFFICES ASSUME NEW q \in running, WillAnswer(q)
               PROVE  BeingHandled(q.method)' \/ OnWire(toClient', Answers, q.method)
    BY DEF Settles, Settled
  <2>1. CASE q \notin target
    <3>1. q \in running'
      BY <1>2, <2>1
    <3> QED
      BY <3>1, StillHandled
  <2>2. CASE q \in done
    BY <1>4, <2>2
  <2>3. CASE q \in target \ done
    <3>1. q.method \notin Builtin
      BY <2>3
    <3>2. PICK r \in Cancel(target) : r.method = q.method /\ WillAnswer(r)
      BY <1>3, <2>3, <3>1, CancelAnswers
    <3>3. r \in running'
      BY <1>2, <3>2
    <3>4. BeingHandled(r.method)'
      BY <3>2, <3>3, StillHandled
    <3> QED
      BY <3>2, <3>4
  <2> QED
    BY <2>1, <2>2, <2>3
<1> QED
  BY <1>2, <1>5, <1>6 DEF Advances, Loses

LEMMA ReadsAdvance ==
  ASSUME SessionInv, Reads
  PROVE  Advances
<1>w. toClient \in Seq(ServerMessages)
  BY DEF SessionInv, WireOK
\* Nothing but the message is gone.
<1>n. ASSUME UNCHANGED <<toClient, running, lost, mislaid>>
      PROVE  Adds /\ Settles(running) /\ Loses
  <2>1. Adds
    BY <1>w, <1>n, AddsNothing
  <2>2. Settles(running)
    BY <1>n, SettlesStill
  <2>3. Loses
    BY <1>n DEF Loses
  <2> QED
    BY <2>1, <2>2, <2>3
<1>1. CASE DropMessage
  BY <1>1, <1>n DEF DropMessage, Dropped, Advances, callVars, lifeVars
<1>2. CASE HandleResponse
  <2>1. /\ Message.kind = "response" /\ outstanding' = outstanding \ {Message.method}
        /\ UNCHANGED <<toClient, stopping, running, lost, mislaid>>
    BY <1>2 DEF HandleResponse, lifeVars
  <2> QED
    BY <1>n, <2>1 DEF Advances
<1>3. CASE HandleCancel
  BY <1>3, CancelAdvances
<1>4. CASE HandleFeature
  BY <1>4, StartAdvances DEF HandleFeature, callVars, lifeVars
<1>5. CASE HandleUnknown
  <2>1. Calling /\ UNCHANGED <<outstanding, stopping, running, mislaid>>
    BY <1>5 DEF HandleUnknown, lifeVars
  <2>2. CASE Message.kind = "request"
    BY <1>5, <2>1, <2>2, FailAdvances, DefaultIsException DEF HandleUnknown
  <2>3. CASE Message.kind # "request"
    <3>1. UNCHANGED <<toClient, lost>>
      BY <1>5, <2>3 DEF HandleUnknown
    <3> QED
      BY <1>n, <2>1, <2>3, <3>1 DEF Advances, Calling
  <2> QED
    BY <2>2, <2>3
<1>6. CASE BuiltinFails
  BY <1>6, FailAdvances, DefaultIsException DEF BuiltinFails
<1>7. CASE HandleBuiltin
  <2> DEFINE ws == Effect(Message.method, Message.params)
  <2>1. /\ Calling
        /\ \/ /\ Start(Message, features[Message.method])
              /\ UNCHANGED <<toClient, outstanding, stopping, lost, mislaid>>
           \/ Finish(Message.method, Message.kind, running, ws)
    BY <1>7 DEF HandleBuiltin, callVars
  <2>2. CASE /\ Start(Message, features[Message.method])
             /\ UNCHANGED <<toClient, outstanding, stopping, lost, mislaid>>
    BY <2>1, <2>2, StartAdvances
  <2>3. CASE Finish(Message.method, Message.kind, running, ws)
    <3>1. Message.method \in called /\ Message.kind # "response" /\ WireOK
      BY <2>1, MessageOK DEF SessionInv, Calling, Read
    <3> HIDE DEF ws
    <3>2. PICK m : m = Message.method
      OBVIOUS
    <3>3. /\ Adds /\ Settles(running) /\ Loses
          /\ Message.kind = "request" => Settled(m)
          /\ outstanding' \subseteq outstanding
          /\ stopping => stopping'
      BY <2>3, <3>1, <3>2, FinishTells
    <3> QED
      BY <3>1, <3>2, <3>3 DEF Advances
  <2> QED
    BY <2>1, <2>2, <2>3
<1>8. CASE ExecuteCommand
  <2> DEFINE m == "workspace/executeCommand"
  <2>1. /\ Calling /\ Message.method = m /\ UNCHANGED <<outstanding, stopping, mislaid>>
        /\ \/ Fail(m, "request", Default("JsonRpcInvalidParams")) /\ UNCHANGED running
           \/ Fail(m, "request", Default("JsonRpcInternalError")) /\ UNCHANGED running
           \/ /\ Start(Message, commands[Message.params[1]])
              /\ UNCHANGED <<toClient, lost>>
    BY <1>8 DEF ExecuteCommand, lifeVars
  <2>2. Message.kind = "request"
    <3>1. Message \in ClientMessages
      BY <2>1, MessageOK DEF SessionInv, Calling, Read
    <3> QED
      BY <2>1, <3>1 DEF ClientMessages, Calling
  <2> QED
    BY <2>1, <2>2, StartAdvances, FailAdvances, DefaultIsException
<1>9. CASE ReadFails
  <2>1. PICK m : m = Message.method
    OBVIOUS
  <2>2. /\ toClient' = Append(toClient, Server!Shown(m))
        /\ lost' = IF Message.kind = "request" THEN lost \cup {m} ELSE lost
        /\ mislaid' = IF Message.kind = "response" THEN mislaid \cup {m} ELSE mislaid
        /\ UNCHANGED <<outstanding, running, stopping>>
    BY <1>9, <2>1 DEF ReadFails, lifeVars
  <2>3. Server!Shown(m) \in ServerMessages
    BY <1>9, <2>1, ShownOK, MessageMethod DEF SessionInv, ReadFails, Read
  <2>4. Adds
    BY <1>w, <2>2, <2>3, AddsOne
  <2>5. Settles(running)
    BY <2>2, SettlesStill
  <2>6. Loses /\ (Message.kind = "request" => m \in lost')
              /\ (Message.kind = "response" => m \in mislaid')
    BY <2>2 DEF Loses
  <2> QED
    BY <2>1, <2>2, <2>4, <2>5, <2>6 DEF Advances, Settled
<1> QED
  BY <1>1, <1>2, <1>3, <1>4, <1>5, <1>6, <1>7, <1>8, <1>9 DEF Reads

LEMMA EndsAdvance ==
  ASSUME SessionInv, Ends
  PROVE  /\ Adds /\ Settles(running) /\ Loses
         /\ outstanding' \subseteq outstanding
         /\ stopping => stopping'
         /\ UNCHANGED <<toServer, pending>>
<1>1. PICK r \in running : HandlerReturns(r) \/ HandlerRaises(r) \/ HandlerCancelled(r)
  BY DEF Ends
<1>w. /\ toClient \in Seq(ServerMessages) /\ running \subseteq Runs /\ WireOK
      /\ program.raises \subseteq Exceptions
  BY SessionAssumption DEF SessionInv, WireOK
<1>r. r.method \in called /\ r.kind \in {"request", "notification"}
  BY <1>w DEF Runs
<1>u. UNCHANGED <<toServer, pending>>
  BY <1>1 DEF HandlerReturns, HandlerRaises, HandlerCancelled, clientVars
\* The others run on or are settled, and what has ended is answered.
<1>s. ASSUME Settles(running \ {r}),
             WillAnswer(r) => Settled(r.method)
      PROVE  Settles(running)
  BY <1>s DEF Settles
<1>n. CASE ForNobody(r)
  <2>1. /\ r.cancelled /\ r.method \in Builtin /\ running' = running \ {r}
        /\ UNCHANGED <<toClient, outstanding, stopping, lost, mislaid>>
    BY <1>n DEF ForNobody, callVars, lifeVars
  <2>2. Adds
    BY <1>w, <2>1, AddsNothing
  <2>3. ~WillAnswer(r)
    BY <2>1 DEF WillAnswer
  <2>4. Settles(running)
    BY <1>s, <2>1, <2>3, SettlesStill
  <2> QED
    BY <1>u, <2>1, <2>2, <2>4 DEF Loses
<1>2. CASE HandlerReturns(r)
  <2>2. CASE Finish(r.method, r.kind, running \ {r}, workspace)
    <3>1. running \ {r} \in SUBSET running
      OBVIOUS
    <3>2. /\ Adds /\ Settles(running \ {r}) /\ Loses
          /\ r.kind = "request" => Settled(r.method)
          /\ outstanding' \subseteq outstanding
          /\ stopping => stopping'
      BY <1>w, <1>r, <2>2, <3>1, FinishTells
    <3>3. Settles(running)
      BY <1>s, <3>2 DEF WillAnswer
    <3> QED
      BY <1>u, <3>2, <3>3
  <2> QED
    BY <1>2, <1>n, <2>2 DEF HandlerReturns
<1>3. CASE HandlerRaises(r)
  <2> SUFFICES ASSUME ~ForNobody(r) PROVE TRUE /\ Adds /\ Settles(running) /\ Loses
                 /\ outstanding' \subseteq outstanding /\ (stopping => stopping')
    BY <1>n, <1>u
  <2>1. running' = running \ {r} /\ UNCHANGED <<outstanding, stopping, mislaid>>
    BY <1>3 DEF HandlerRaises
  <2>2. Settles(running \ {r})
    BY <2>1, SettlesStill
  <2>3. CASE Unsent(r.method, r.kind)
    <3>1. Adds /\ r.method \in lost' /\ lost \subseteq lost'
      BY <1>w, <1>r, <2>3, UnsentTells
    <3> QED
      BY <1>s, <2>1, <2>2, <3>1 DEF Loses, Settled
  <2>4. ASSUME NEW exc \in program.raises, Fail(r.method, r.kind, exc)
        PROVE  Adds /\ Settles(running) /\ Loses
    <3>1. PICK m, kind : m = r.method /\ kind = r.kind
      OBVIOUS
    <3>2. Adds /\ (kind = "request" => OnWire(toClient', {"error"}, m))
      BY <1>w, <1>r, <2>4, <3>1, FailTells
    <3>3. WillAnswer(r) => Settled(r.method)
      BY <3>1, <3>2, ErrorAnswers DEF WillAnswer, Settled
    <3>4. Loses
      BY <2>1, <2>4 DEF Fail, Loses
    <3> QED
      BY <1>s, <2>2, <3>2, <3>3, <3>4
  <2> QED
    BY <1>3, <2>1, <2>3, <2>4 DEF HandlerRaises
<1>4. CASE HandlerCancelled(r)
  <2> DEFINE reply == Error(r.method, Default("JsonRpcRequestCancelled"))
  <2>1. /\ running' = running \ {r} /\ UNCHANGED <<outstanding, stopping, lost, mislaid>>
        /\ toClient' = IF r.kind = "request" THEN Append(toClient, reply) ELSE toClient
    BY <1>4 DEF HandlerCancelled, lifeVars
  <2>2. reply \in ServerMessages /\ reply.kind \in Answers /\ reply.method = r.method
    BY <1>r, ReplyOK, DefaultIsException DEF Error, Answers
  <2> HIDE DEF reply
  <2>3. Adds /\ (r.kind = "request" => OnWire(toClient', Answers, r.method))
    <3>1. CASE r.kind = "request"
      BY <1>w, <2>1, <2>2, <3>1, ReplyTells
    <3>2. CASE r.kind # "request"
      BY <1>w, <2>1, <3>2, AddsNothing
    <3> QED
      BY <3>1, <3>2
  <2>4. Settles(running)
    BY <1>s, <2>1, <2>3, SettlesStill DEF WillAnswer, Settled
  <2> QED
    BY <1>u, <2>1, <2>3, <2>4 DEF Loses
<1> QED
  BY <1>1, <1>2, <1>3, <1>4

\* A call of the client is on the wire when its future is pending, or lost.
LEMMA ClientAsks ==
  ASSUME WireOK, ClientCalls
  PROVE  /\ \A K, m : OnWire(toServer, K, m) => OnWire(toServer', K, m)
         /\ \A m \in pending' : m \in pending \/ OnWire(toServer', {"request"}, m) \/ m \in lost'
         /\ lost \subseteq lost'
<1> DEFINE Sent(kind, m, params) ==
             toServer' = Append(toServer, [kind |-> kind, method |-> m, params |-> params])
<1>1. \E m, params : \/ Client!Request(m, params)
                     \/ Client!Notify(m, params)
  BY ClientForms
  DEF ClientCalls, Client!initialize, Client!workspace_execute_command, Client!cancel_request
<1>2. PICK kind, m, params :
        /\ Client!Send(kind, m, params)
        /\ \/ kind = "request" /\ pending' = pending \cup {m}
           \/ pending' = pending
  BY <1>1 DEF Client!Request, Client!Notify
<1>3. CASE UNCHANGED toServer /\ lost' = lost \cup {m}
  BY <1>2, <1>3
<1>4. CASE Sent(kind, m, params) /\ UNCHANGED lost
  <2>1. PICK msg : msg = [kind |-> kind, method |-> m, params |-> params]
    OBVIOUS
  <2>2. toServer' = Append(toServer, msg) /\ toServer \in Seq(ClientMessages)
    BY <1>4, <2>1 DEF WireOK
  <2>3. msg.kind = kind /\ msg.method = m
    BY <2>1
  <2>4. \A K, x : /\ OnWire(toServer, K, x) => OnWire(toServer', K, x)
                  /\ msg.kind \in K /\ msg.method = x => OnWire(toServer', K, x)
    BY <2>2, WireAdds
  <2> QED
    BY <1>2, <1>4, <2>3, <2>4
<1> QED
  BY <1>2, <1>3, <1>4 DEF Client!Send

\* And so is a call of the server.
LEMMA ServerAsks ==
  ASSUME WireOK, ServerCalls
  PROVE  /\ \A K, m : OnWire(toClient, K, m) => OnWire(toClient', K, m)
         /\ \A m \in outstanding' :
              m \in outstanding \/ OnWire(toClient', {"request"}, m) \/ m \in mislaid'
         /\ Loses
         /\ UNCHANGED <<toServer, pending, running, stopping, lost>>
<1>1. Server!Calls /\ UNCHANGED <<toServer, pending, running, stopping, lost>>
  BY DEF ServerCalls, clientVars, lifeVars
<1>2. PICK m, kind : /\ Server!Send(kind, m)
                     /\ \/ kind = "request" /\ outstanding' = outstanding \cup {m}
                        \/ outstanding' = outstanding
  BY <1>1, ServerForms DEF Server!Request, Server!Notify
<1>3. PICK msg : /\ toClient' = Append(toClient, msg)
                 /\ \/ msg.kind = kind /\ msg.method = m /\ UNCHANGED mislaid
                    \/ mislaid' = mislaid \cup {m}
  <2> DEFINE call == [kind |-> kind, method |-> m]
  <2>1. call.kind = kind /\ call.method = m
    OBVIOUS
  <2> HIDE DEF call
  <2>2. \/ toClient' = Append(toClient, call) /\ UNCHANGED mislaid
        \/ toClient' = Append(toClient, Server!Shown(m)) /\ mislaid' = mislaid \cup {m}
    BY <1>2 DEF Server!Send, call
  <2> QED
    BY <2>1, <2>2
<1>4. toClient \in Seq(ServerMessages)
  BY DEF WireOK
<1>5. \A K, x : /\ OnWire(toClient, K, x) => OnWire(toClient', K, x)
                /\ msg.kind \in K /\ msg.method = x => OnWire(toClient', K, x)
  BY <1>3, <1>4, WireAdds
<1> QED
  BY <1>1, <1>2, <1>3, <1>5 DEF Loses

\* The client reads one message: it takes an answer, and answers a request.
LEMMA ReceiveTakes ==
  ASSUME SessionInv, Receive
  PROVE  /\ UNCHANGED <<outstanding, running, stopping, lost, mislaid>>
         /\ \A K, m : OnWire(toServer, K, m) => OnWire(toServer', K, m)
         /\ \A m \in pending' : OnWire(toClient, Answers, m) => OnWire(toClient', Answers, m)
         /\ pending' \subseteq pending
         /\ \A m : OnWire(toClient, {"request"}, m) =>
              OnWire(toClient', {"request"}, m) \/ OnWire(toServer', {"response"}, m)
<1>1. PICK msg : msg = Head(toClient)
  OBVIOUS
<1>2. PICK response : response = [kind |-> "response", method |-> msg.method]
  OBVIOUS
<1>3. /\ toClient # <<>> /\ toClient' = Tail(toClient)
      /\ UNCHANGED <<outstanding, running, stopping, lost, mislaid>>
      /\ pending' = IF msg.kind \in {"result", "error"} THEN pending \ {msg.method} ELSE pending
      /\ toServer' = IF msg.kind = "request" THEN Append(toServer, response) ELSE toServer
  BY <1>1, <1>2 DEF Receive, lifeVars
<1>4. toClient \in Seq(ServerMessages) /\ toServer \in Seq(ClientMessages)
  BY DEF SessionInv, WireOK
<1>6. \A K, m : OnWire(toClient, K, m) =>
        OnWire(toClient', K, m) \/ (msg.kind \in K /\ msg.method = m)
  BY <1>1, <1>3, <1>4, WireTaken
<1>7. /\ \A K, m : OnWire(toServer, K, m) => OnWire(toServer', K, m)
      /\ msg.kind = "request" => OnWire(toServer', {"response"}, msg.method)
  <2>1. CASE msg.kind = "request"
    <3>1. toServer' = Append(toServer, response)
      BY <1>3, <2>1
    <3>2. response.kind = "response" /\ response.method = msg.method
      BY <1>2
    <3>3. \A K, m : /\ OnWire(toServer, K, m) => OnWire(toServer', K, m)
                    /\ response.kind \in K /\ response.method = m => OnWire(toServer', K, m)
      BY <1>4, <3>1, WireAdds
    <3> QED
      BY <3>2, <3>3
  <2>2. CASE msg.kind # "request"
    BY <1>3, <2>2
  <2> QED
    BY <2>1, <2>2
<1>8. \A m \in pending' : OnWire(toClient, Answers, m) => OnWire(toClient', Answers, m)
  BY <1>3, <1>6 DEF Answers
<1>12. \A m : OnWire(toClient, {"request"}, m) =>
         OnWire(toClient', {"request"}, m) \/ OnWire(toServer', {"response"}, m)
  BY <1>6, <1>7
<1> QED
  BY <1>3, <1>7, <1>8, <1>12

\* A message the client cannot structure is taken off the wire, and noted.
LEMMA ReceiveLoses ==
  ASSUME SessionInv, ReceiveFails
  PROVE  /\ UNCHANGED <<toServer, pending, outstanding, running, stopping>>
         /\ Loses
         /\ \A m : OnWire(toClient, Answers, m) => OnWire(toClient', Answers, m) \/ m \in lost'
         /\ \A m : OnWire(toClient, {"request"}, m) =>
              OnWire(toClient', {"request"}, m) \/ m \in mislaid'
<1>1. PICK msg : msg = Head(toClient)
  OBVIOUS
<1>2. /\ toClient # <<>> /\ toClient' = Tail(toClient) /\ msg.kind # "error"
      /\ UNCHANGED <<toServer, pending, outstanding, running, stopping>>
      /\ lost' = IF msg.kind = "result" THEN lost \cup {msg.method} ELSE lost
      /\ mislaid' = IF msg.kind = "request" THEN mislaid \cup {msg.method} ELSE mislaid
  BY <1>1 DEF ReceiveFails, clientVars, lifeVars
<1>3. toClient \in Seq(ServerMessages)
  BY DEF SessionInv, WireOK
<1>4. \A K, m : OnWire(toClient, K, m) =>
        OnWire(toClient', K, m) \/ (msg.kind \in K /\ msg.method = m)
  BY <1>1, <1>2, <1>3, WireTaken
<1>5. \A m : OnWire(toClient, Answers, m) => OnWire(toClient', Answers, m) \/ m \in lost'
  BY <1>2, <1>4 DEF Answers
<1>6. \A m : OnWire(toClient, {"request"}, m) =>
        OnWire(toClient', {"request"}, m) \/ m \in mislaid'
  BY <1>2, <1>4
<1> QED
  BY <1>2, <1>5, <1>6 DEF Loses

LEMMA HandledStays ==
  ASSUME UNCHANGED running
  PROVE  \A m : BeingHandled(m) => BeingHandled(m)'
<1>1. Builtin' = Builtin
  BY DEF Builtin, Synchronising, NotebookSync
<1> QED
  BY <1>1 DEF BeingHandled, WillAnswer

LEMMA HandledSettles ==
  ASSUME Settles(running), NEW m, BeingHandled(m)
  PROVE  Settled(m)
<1>1. PICK r \in running : r.method = m /\ WillAnswer(r)
  BY DEF BeingHandled
<1>2. Settled(r.method)
  BY <1>1 DEF Settles
<1> QED
  BY <1>1, <1>2

LEMMA CallsStep == SessionInv /\ CallsOnTheirWay /\ [Next]_vars => CallsOnTheirWay'
<1> SUFFICES ASSUME SessionInv, CallsOnTheirWay, [Next]_vars PROVE CallsOnTheirWay'
  OBVIOUS
<1> DEFINE Waits(m) == \/ OnWire(toServer, {"request"}, m) \/ BeingHandled(m)
                       \/ OnWire(toClient, Answers, m)
           Asks(m) == OnWire(toClient, {"request"}, m) \/ OnWire(toServer, {"response"}, m)
<1>w. WireOK /\ toClient \in Seq(ServerMessages) /\ toServer \in Seq(ClientMessages)
  BY DEF SessionInv, WireOK
<1>i. \/ stopping
      \/ (\A m \in pending \ lost : Waits(m)) /\ \A m \in outstanding \ mislaid : Asks(m)
  BY DEF CallsOnTheirWay, Answers
<1>g. ASSUME \/ stopping'
             \/ /\ \A m \in pending' \ lost' : \/ OnWire(toServer', {"request"}, m)
                                               \/ BeingHandled(m)'
                                               \/ OnWire(toClient', Answers, m)
                /\ \A m \in outstanding' \ mislaid' : \/ OnWire(toClient', {"request"}, m)
                                                      \/ OnWire(toServer', {"response"}, m)
      PROVE  CallsOnTheirWay'
  BY <1>g DEF CallsOnTheirWay, Answers
<1>1. CASE ClientCalls
  <2>1. UNCHANGED <<toClient, outstanding, mislaid, running, stopping>>
    BY <1>1 DEF ClientCalls, callVars, lifeVars
  <2>2. \A m \in pending' \ lost' : \/ m \in pending \ lost
                                    \/ OnWire(toServer', {"request"}, m)
    BY <1>1, <1>w, ClientAsks
  <2>3. \A K, m : OnWire(toServer, K, m) => OnWire(toServer', K, m)
    BY <1>1, <1>w, ClientAsks
  <2>4. \A m : BeingHandled(m) => BeingHandled(m)'
    BY <2>1, HandledStays
  <2> QED
    BY <1>i, <1>g, <2>1, <2>2, <2>3, <2>4
<1>2. CASE ServerCalls
  <2>1. /\ UNCHANGED <<toServer, pending, running, stopping, lost>>
        /\ \A K, m : OnWire(toClient, K, m) => OnWire(toClient', K, m)
    BY <1>2, <1>w, ServerAsks
  <2>2. \A m \in outstanding' \ mislaid' : \/ m \in outstanding \ mislaid
                                           \/ OnWire(toClient', {"request"}, m)
    BY <1>2, <1>w, ServerAsks DEF Loses
  <2>3. \A m : BeingHandled(m) => BeingHandled(m)'
    BY <2>1, HandledStays
  <2> QED
    BY <1>i, <1>g, <2>1, <2>2, <2>3
<1>3. CASE Registers
  <2>1. UNCHANGED <<toServer, pending, toClient, outstanding, running, stopping, lost, mislaid>>
    BY <1>3 DEF Registers, clientVars, callVars, lifeVars
  <2> QED
    BY <1>i, <1>g, <2>1, HandledStays
<1>4. CASE Reads
  <2>1. Advances
    BY <1>4, ReadsAdvance
  <2>2. toServer # <<>> /\ toServer' = Tail(toServer) /\ UNCHANGED pending
    BY <1>4 DEF Reads, DropMessage, ReadFails, HandleResponse, HandleCancel, HandleFeature,
                HandleUnknown, BuiltinFails, HandleBuiltin, ExecuteCommand, Calling, Read
  <2>3. \A K, m : OnWire(toServer, K, m) =>
          OnWire(toServer', K, m) \/ (Message.kind \in K /\ Message.method = m)
    BY <1>w, <2>2, WireTaken DEF Message
  <2>4. \A K, m : OnWire(toClient, K, m) => OnWire(toClient', K, m)
    BY <1>w, <2>1, AddsKeeps DEF Advances
  <2>l. lost \subseteq lost' /\ mislaid \subseteq mislaid'
    BY <2>1 DEF Advances, Loses
  <2>5. CASE stopping
    BY <1>g, <2>1, <2>5 DEF Advances
  <2>6. CASE ~stopping
    <3>1. ASSUME NEW m \in pending' \ lost'
          PROVE  \/ OnWire(toServer', {"request"}, m) \/ BeingHandled(m)'
                 \/ OnWire(toClient', Answers, m)
      <4>1. Waits(m)
        BY <1>i, <2>2, <2>6, <2>l, <3>1
      <4>2. CASE OnWire(toServer, {"request"}, m)
        BY <2>1, <2>3, <2>6, <3>1, <4>2 DEF Advances, Settled
      <4>3. CASE BeingHandled(m)
        BY <2>1, <3>1, <4>3, HandledSettles DEF Advances, Settled
      <4>4. CASE OnWire(toClient, Answers, m)
        BY <2>4, <4>4
      <4> QED
        BY <4>1, <4>2, <4>3, <4>4
    <3>2. ASSUME NEW m \in outstanding' \ mislaid'
          PROVE  OnWire(toClient', {"request"}, m) \/ OnWire(toServer', {"response"}, m)
      <4>1. m \in outstanding /\ ~(Message.kind = "response" /\ Message.method = m)
        BY <2>1, <2>6, <3>2 DEF Advances
      <4>2. Asks(m)
        BY <1>i, <2>6, <2>l, <3>2, <4>1
      <4> QED
        BY <2>3, <2>4, <4>1, <4>2
    <3> QED
      BY <1>g, <3>1, <3>2
  <2> QED
    BY <2>5, <2>6
<1>5. CASE Ends
  <2>1. /\ Adds /\ Settles(running)
        /\ outstanding' \subseteq outstanding
        /\ stopping => stopping'
        /\ UNCHANGED <<toServer, pending>>
        /\ lost \subseteq lost' /\ mislaid \subseteq mislaid'
    BY <1>5, EndsAdvance DEF Loses
  <2>2. \A K, m : OnWire(toClient, K, m) => OnWire(toClient', K, m)
    BY <1>w, <2>1, AddsKeeps
  <2>3. CASE stopping
    BY <1>g, <2>1, <2>3
  <2>4. CASE ~stopping
    <3>1. ASSUME NEW m \in pending' \ lost'
          PROVE  \/ OnWire(toServer', {"request"}, m) \/ BeingHandled(m)'
                 \/ OnWire(toClient', Answers, m)
      <4>1. Waits(m)
        BY <1>i, <2>1, <2>4, <3>1
      <4>2. BeingHandled(m) => Settled(m)
        BY <2>1, HandledSettles
      <4> QED
        BY <2>1, <2>2, <3>1, <4>1, <4>2 DEF Settled
    <3>2. \A m \in outstanding' \ mislaid' :
            OnWire(toClient', {"request"}, m) \/ OnWire(toServer', {"response"}, m)
      BY <1>i, <2>1, <2>2, <2>4
    <3> QED
      BY <1>g, <3>1, <3>2
  <2> QED
    BY <2>3, <2>4
<1>6. CASE Receive
  <2>1. \A m : BeingHandled(m) => BeingHandled(m)'
    BY <1>6, ReceiveTakes, HandledStays
  <2> QED
    BY <1>6, <1>i, <1>g, <2>1, ReceiveTakes
<1>7. CASE ReceiveFails
  <2>1. \A m : BeingHandled(m) => BeingHandled(m)'
    BY <1>7, ReceiveLoses, HandledStays
  <2> QED
    BY <1>7, <1>i, <1>g, <2>1, ReceiveLoses DEF Loses
<1>8. CASE ServerGone
  <2>1. pending' = {} /\ UNCHANGED <<toServer, toClient, outstanding, running, stopping, mislaid>>
    BY <1>8 DEF ServerGone, callVars, lifeVars
  <2> QED
    BY <1>i, <1>g, <2>1
<1>9. CASE UNCHANGED vars
  <2>1. UNCHANGED <<toServer, pending, toClient, outstanding, running, stopping, lost, mislaid>>
    BY <1>9 DEF vars, clientVars, callVars, lifeVars
  <2> QED
    BY <1>i, <1>g, <2>1, HandledStays
<1> QED
  BY <1>1, <1>2, <1>3, <1>4, <1>5, <1>6, <1>7, <1>8, <1>9 DEF Next, Receives

\* Until the server shuts down a call of either side is lost only when one of its
\* messages could not be encoded or structured, for any programs on both sides:
\* whatever the interleaving of messages, handlers, cancellations and a shutdown that
\* fails half way, any other call without an answer is waiting to be read, is
\* being handled, or its answer is under way.  EveryCallAnswered follows when the
\* messages are read and the handlers end.
THEOREM NoCallIsLost == Spec => []CallsOnTheirWay
<1>1. Init => CallsOnTheirWay
  BY DEF Init, CallsOnTheirWay
<1> QED
  BY <1>1, CallsStep, SessionInvariant, PTL DEF Spec

=============================================================================
