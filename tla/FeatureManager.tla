--------------------------- MODULE FeatureManager ---------------------------
(***************************************************************************)
(* The registry of handlers (pygls.feature_manager) and the decorators     *)
(* `feature`, `command` and `thread` a user program applies to its         *)
(* functions, in any order and to one function several times.              *)
(*                                                                         *)
(* A function that takes the server is wrapped at every registration, in   *)
(* an object of its own (functools.partial, or a coroutine function); any  *)
(* other function is registered itself.  The mark of a threaded function   *)
(* is an attribute of the object it is set on.                             *)
(***************************************************************************)
EXTENDS Naturals, FiniteSets, Functions

\* The user's functions: whether they are coroutine functions (async); the
\* first parameter ("absent", "plain", named "ls", or annotated with the
\* "exact" class of the server, a "base" class of it, a "derived" one that is
\* not its class, or a "generic" type, which is no class); the number of other
\* positional parameters, and of those among them that have defaults; whether
\* *args follow (var); the number of keyword-only parameters, whether one of
\* them has no default (needed), and whether there is a **kwargs (varkw).
CONSTANT Signature

VARIABLES
  program,     \* what the user's program may do, see Session
  features,    \* `_features`: names -> handlers
  options,     \* `_feature_options`: names -> options
  commands,    \* `_commands`: names -> handlers
  attrs,       \* functions -> where the help attributes say they are registered
  marked,      \* functions with the thread attribute
  decorated    \* functions the thread decorator accepted

fm == <<features, options, commands, attrs, marked, decorated>>

AsyncFuns == {f \in DOMAIN Signature : Signature[f].async}

\* has_ls_param_or_annotation: the server can be passed for the first parameter.
ServerFuns == {f \in DOMAIN Signature : Signature[f].first \in {"ls", "exact", "base"}}

Handler(f, thread) == [fun |-> f, thread |-> thread]

Unregistered == <<"none", "none">>

NoHandlers == [n \in {} |-> Handler("none", FALSE)]

FMInit ==
  /\ features = NoHandlers
  /\ options = [n \in {} |-> "none"]
  /\ commands = NoHandlers
  /\ attrs = [f \in program.funs |-> Unregistered]
  /\ marked = {}
  /\ decorated = {}

Put(f, key, value) == [k \in DOMAIN f \cup {key} |-> IF k = key THEN value ELSE f[k]]

\* wrap_with_server: the wrapper of a threaded function is marked too.
WrapWithServer(f) == Handler(f, f \in ServerFuns /\ f \in marked)

\* is_thread_function of a registered handler.
IsThreadFunction(h) == IF h.fun \in ServerFuns THEN h.thread ELSE h.fun \in marked

\* get_method_options_type finds no type for a custom method, or the options
\* have another one; both raise.
Methodless == {"custom/method"}

OptionsRaise(name, opts) == opts = "wrong" \/ name \in Methodless

\* Mutant: a duplicate is noticed after the function got its new attributes.
featureLateCheck(f, name, opts) ==
  /\ attrs' = [attrs EXCEPT ![f] = <<"feature", name>>]
  /\ features' = IF name \in DOMAIN features THEN features
                 ELSE Put(features, name, WrapWithServer(f))
  /\ options' = IF opts # "none" /\ name \notin DOMAIN features /\ ~OptionsRaise(name, opts)
                  THEN Put(options, name, opts) ELSE options
  /\ UNCHANGED <<commands, marked, decorated>>

\* The decorator `feature`.  A name that is taken raises and changes nothing.
\* Wrong options raise when the handler is in place already: it stays, without
\* options.
feature(f, name, opts) ==
  /\ name \notin DOMAIN features
  /\ features' = Put(features, name, WrapWithServer(f))
  /\ attrs' = [attrs EXCEPT ![f] = <<"feature", name>>]
  /\ options' = IF opts = "none" \/ OptionsRaise(name, opts)
                  THEN options ELSE Put(options, name, opts)
  /\ UNCHANGED <<commands, marked, decorated>>

command(f, name) ==
  /\ name \notin DOMAIN commands
  /\ commands' = Put(commands, name, WrapWithServer(f))
  /\ attrs' = [attrs EXCEPT ![f] = <<"command", name>>]
  /\ UNCHANGED <<features, options, marked, decorated>>

\* assign_thread_attr on what is registered under a name.
Mark(handlers, name) ==
  IF handlers[name].fun \in ServerFuns
    THEN [handlers EXCEPT ![name].thread = TRUE] ELSE handlers

\* The decorator `thread`, refused for coroutine functions.  A function that is
\* registered passes the mark on to the handler of its last registration.
thread(f) ==
  LET kind == attrs[f][1]
      name == attrs[f][2]
  IN
  /\ f \notin AsyncFuns
  /\ features' = IF kind = "feature" THEN Mark(features, name) ELSE features
  /\ commands' = IF kind = "command" THEN Mark(commands, name) ELSE commands
  /\ marked' = IF kind = "none" \/ f \notin ServerFuns THEN marked \cup {f} ELSE marked
  /\ decorated' = decorated \cup {f}
  /\ UNCHANGED <<options, attrs>>

Registrations(f) ==
  Cardinality({n \in DOMAIN features : features[n].fun = f})
    + Cardinality({n \in DOMAIN commands : commands[n].fun = f})

-----------------------------------------------------------------------------
(* Properties.                                                              *)

\* "Allow any decorator order" (FeatureManager.thread): a handler runs in a
\* thread exactly if its function was given to the thread decorator, before or
\* after the registration, and never because another function was refused under
\* its name.  Of the registrations of one function that takes the server only
\* the last one is sure to be marked.
ThreadsAsDecorated ==
  \A h \in Range(features) \cup Range(commands) :
    /\ IsThreadFunction(h) => h.fun \in decorated
    /\ h.fun \in decorated /\ (Registrations(h.fun) = 1 \/ h.fun \notin ServerFuns) =>
         IsThreadFunction(h)

-----------------------------------------------------------------------------
(* The invariant of the registry.                                           *)

Handlers == Range(features) \cup Range(commands)

\* The attributes of a function lead to a handler of it, if there is any.
AttributesLead ==
  \A f \in program.funs :
    \/ attrs[f] = Unregistered /\ \A h \in Handlers : h.fun # f
    \/ \E n \in DOMAIN features : attrs[f] = <<"feature", n>> /\ features[n].fun = f
    \/ \E n \in DOMAIN commands : attrs[f] = <<"command", n>> /\ commands[n].fun = f

\* A mark is on the function if it does not take the server or was decorated
\* before its first registration, and then on all its handlers; otherwise on
\* one of them.
MarksFollow ==
  /\ marked \subseteq decorated
  /\ \A h \in Handlers :
       /\ h \in [fun : program.funs, thread : BOOLEAN]
       /\ h.thread => h.fun \in decorated
       /\ h.fun \in marked \cap ServerFuns => h.thread
  /\ \A f \in decorated :
       \/ f \in marked
       \/ f \in ServerFuns /\ \E h \in Handlers : h.fun = f /\ h.thread

RegistryInv ==
  /\ DOMAIN attrs = program.funs
  /\ IsFiniteSet(DOMAIN features) /\ IsFiniteSet(DOMAIN commands)
  /\ AttributesLead
  /\ MarksFollow

=============================================================================
