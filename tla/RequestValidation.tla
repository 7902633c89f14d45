--------------------------- MODULE RequestValidation ---------------------------
(***************************************************************************)
(* What process_action of safa-core/src/pipeline.rs demands of a request    *)
(* before it charges and starts it, and the command that actuate builds of  *)
(* a shell request: operators only, which ActionService uses.               *)
(*                                                                         *)
(* A target, an argument and an allowlist pattern are strings, here the     *)
(* sequence of their parts between slashes; "https://h/a" is                *)
(* <<"https:", "", "h", "a">>, the empty string is <<"">>.  The With...     *)
(* constants say which parts have a special character.  A payload is its    *)
(* length.  A method is in upper case, as HttpMethod::parse reads it.       *)
(***************************************************************************)
EXTENDS Naturals, Sequences, FiniteSets
LOCAL INSTANCE SequencesExt

CONSTANTS
    DomainOf,    \* domains.toml: the domain of each action that has one
    MaxPayload,  \* its max_payload_bytes, or 1 MiB and 256 KiB by default
    Intents,     \* intents.toml: [template, validators] of each intent
    Allowlist,   \* allowlist.toml: patterns [prefix, open], open for ".../*"
    Words,       \* the alphanumeric (or _) parts
    WithColon, WithNul, WithAt, WithHash,
    Resolution,  \* of each agent: where the paths that exist lead
    None         \* a field that is absent

IsList(s) == Len(s) \in Nat /\ DOMAIN s = 1 .. Len(s)

ASSUME ValidationConstants ==
    /\ {"file_write", "http_request"} \subseteq DOMAIN MaxPayload
    /\ \A a \in DOMAIN MaxPayload : MaxPayload[a] \in Nat
    /\ \A i \in DOMAIN Intents : IsList(Intents[i].template)
    /\ None \notin Nat

(* validate_field_exclusivity.                                               *)
Required  == [file_write |-> {"payload"}, file_read |-> {},
              shell_exec |-> {"args"}, http_request |-> {"method"}]
Forbidden == [file_write |-> {"args"}, file_read |-> {"payload", "args"},
              shell_exec |-> {"payload"}, http_request |-> {"args"}]
Given(b)  == {f \in {"payload", "args", "method"} : b[f] # None}

FieldsFit(b) ==
    b.action \in DOMAIN Required =>
        /\ Required[b.action] \subseteq Given(b)
        /\ Forbidden[b.action] \cap Given(b) = {}

-----------------------------------------------------------------------------
(* The newtypes.                                                             *)
Parts(s) == {s[i] : i \in DOMAIN s}

(* WorkspacePath::new_with_agent.  canonicalize() follows links of what      *)
(* exists: the path, or else its parent; otherwise the path is taken as it   *)
(* is, under the agent's own root.                                           *)
Lands(agent, path) ==
    LET where      == Resolution[agent]
        components == SelectSeq(path, LAMBDA part : part # "")
        parent     == Front(components) IN
    IF components \in DOMAIN where THEN where[components]
    ELSE IF parent \in DOMAIN where THEN where[parent] ELSE "inside"

WorkspacePath(agent, path) ==
    /\ path[1] # ""                                   \* empty, or a leading slash
    /\ Parts(path) \cap (WithColon \cup {".."}) = {}
    /\ \A i \in 1 .. Len(path) - 1 : path[i] # ""      \* no "//"
    /\ Lands(agent, path) = "inside"

BoundedBytes(length, max) == length <= max

SafeArg(arg) == arg # <<"">> /\ Parts(arg) \cap WithNul = {}

IntentId(target) == Len(target) = 1 /\ target[1] \in Words

(* The prefix of an open pattern ends in a slash: another part must follow.  *)
GlobMatch(pattern, url) ==
    IF pattern.open THEN IsStrictPrefix(pattern.prefix, url) ELSE url = pattern.prefix

AllowlistedUrl(url) ==
    /\ IsPrefix(<<"https:", "">>, url) /\ Len(url) > 2
    /\ Parts(url) \cap (WithAt \cup WithHash) = {}
    /\ \E pattern \in Allowlist : GlobMatch(pattern, url)

HttpMethod(method) == method \in {"GET", "POST"}

-----------------------------------------------------------------------------
(* Command templates.  An item of a template is <<"text", t>>, <<"slot", n>> *)
(* for {{n}}, or <<"mixed", t>> for text that has {{ somewhere: it counts as *)
(* a placeholder but is never filled.                                        *)
PlaceholderCount(template) == Cardinality({i \in DOMAIN template : template[i][1] # "text"})

(* actuate's substitution: a slot without an argument stays as it is.        *)
Argv(template, args) ==
    [i \in DOMAIN template |->
        IF template[i][1] = "slot" /\ template[i][2] < Len(args)
        THEN <<"arg", args[template[i][2] + 1]>> ELSE template[i]]

(* No placeholder is left in a command.                                      *)
Filled(argv) == \A i \in DOMAIN argv : argv[i][1] \in {"text", "arg"}

(* An argument is not empty, and what a validator asks of its position.      *)
ArgFits(agent, intent, i, arg) ==
    /\ SafeArg(arg)
    /\ i \in DOMAIN intent.validators /\ intent.validators[i] = "relative_workspace_path"
          => WorkspacePath(agent, arg)

(* Mutant: only a lack of arguments is refused.                              *)
ArgsFitLax(agent, intent, args) ==
    /\ Len(args) >= PlaceholderCount(intent.template)
    /\ \A i \in DOMAIN args : ArgFits(agent, intent, i, args[i])

ArgsFit(agent, intent, args) ==
    /\ Len(args) = PlaceholderCount(intent.template)
    /\ \A i \in DOMAIN args : ArgFits(agent, intent, i, args[i])

(* canonicalize, one disjunct per action class; others are refused.  What is     *)
(* absent is read as an empty payload, no arguments, or an empty method.     *)
OrElse(field, default) == IF field = None THEN default ELSE field

Canonical(agent, b) ==
    \/ /\ b.action = "file_write"
       /\ WorkspacePath(agent, b.target)
       /\ BoundedBytes(OrElse(b.payload, 0), MaxPayload["file_write"])
    \/ /\ b.action = "file_read"
       /\ WorkspacePath(agent, b.target)
    \/ /\ b.action = "shell_exec"
       /\ IntentId(b.target) /\ b.target[1] \in DOMAIN Intents
       /\ ArgsFit(agent, Intents[b.target[1]], OrElse(b.args, <<>>))
    \/ /\ b.action = "http_request"
       /\ HttpMethod(OrElse(b.method, "")) /\ AllowlistedUrl(b.target)
       /\ b.payload # None => BoundedBytes(b.payload, MaxPayload["http_request"])

(* Steps 1 to 4 of process_action.                                           *)
Accepted(agent, b) ==
    /\ b.magnitude \in 1 .. 1000
    /\ FieldsFit(b)
    /\ Canonical(agent, b)
    /\ b.action \in DOMAIN DomainOf

-----------------------------------------------------------------------------
(* "args_template uses {{N}} for positional argument substitution" (P0       *)
(* design): slots 0, 1, ... once each.  Nothing in the code demands it.      *)
WellFormed(template) ==
    LET slots == {i \in DOMAIN template : template[i][1] # "text"} IN
    /\ \A i \in slots : template[i][1] = "slot"
    /\ {template[i][2] : i \in slots} = 0 .. Cardinality(slots) - 1

(* The command has every argument and no placeholder.                        *)
ArgvWhole(template, args) ==
    LET argv == Argv(template, args) IN
    /\ Filled(argv)
    /\ \A j \in DOMAIN args : <<"arg", args[j]>> \in Parts(argv)

(* A request that is run as it was sent: no argument is dropped and no       *)
(* placeholder survives, and what canonicalize would fill in by default      *)
(* (an empty payload, no arguments, no method) has been given.               *)
RunsAsSent(b) ==
    /\ b.action = "file_write"   => b.payload # None /\ b.args = None
    /\ b.action = "file_read"    => b.payload = None /\ b.args = None
    /\ b.action = "http_request" => b.method # None /\ b.args = None
    /\ b.action = "shell_exec"   =>
          /\ b.payload = None /\ b.args # None
          /\ ArgvWhole(Intents[b.target[1]].template, b.args)
=============================================================================
