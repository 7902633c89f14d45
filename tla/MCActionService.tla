--------------------------- MODULE MCActionService ---------------------------
(* ActionService for TLC: one agent, two keys, and a small configuration.     *)
EXTENDS ActionService, TLC

CONSTANTS K1, K2, Agent

MCMaxCapacity == [a \in {Agent} |-> 2]
MCLimit       == [a \in {Agent} |-> [fs |-> 2, proc |-> 2, net |-> 1]]
MCDomainOf    == [file_write |-> "fs", file_read |-> "fs",
                  shell_exec |-> "proc", http_request |-> "net"]
MCMaxPayload  == [file_write |-> 1, http_request |-> 0]
MCIntents     == [copy |-> [template   |-> <<<<"slot", 1>>, <<"text", "-v">>, <<"slot", 0>>>>,
                            validators |-> <<"relative_workspace_path">>]]

(* As the shipped intents are.  StartedAsSent rests on it.                     *)
ASSUME TemplatesAreWellFormed ==
    \A i \in DOMAIN Intents : WellFormed(Intents[i].template)

MCAllowlist   == {[prefix |-> <<"https:", "", "host">>, open |-> TRUE]}
MCResolution  == [a \in {Agent} |-> <<>> :> "inside" @@ <<"link">> :> "outside"]

(* What clients send. *)
Body(action, target, payload, args, method, magnitude, dryRun) ==
    [action |-> action, target |-> target, payload |-> payload, args |-> args,
     method |-> method, magnitude |-> magnitude, dryRun |-> dryRun]
Write(target, payload, m) == Body("file_write", target, payload, None, None, m, FALSE)
Read(target, m, dryRun)   == Body("file_read", target, None, None, None, m, dryRun)
Shell(args)               == Body("shell_exec", <<"copy">>, None, args, None, 1, FALSE)
Http(url, method, m)      == Body("http_request", url, None, None, method, m, FALSE)
Req(k, body) == [key |-> k, agent |-> Agent, body |-> body]

MCRequests == {Req(K1, Http(<<"https:", "", "host", "a">>, "GET", 1)),
               Req(K2, Write(<<"f">>, 1, 1))}

(* For the liveness run: every form of request, on one key. *)
LiveRequests ==
    {Req(K1, b) : b \in {
        Write(<<"d", "f">>, 1, 1), Write(<<"f">>, 2, 1), Write(<<"f">>, None, 1),
        Read(<<"link", "f">>, 1, FALSE), Read(<<"f">>, 2, TRUE),
        Shell(<<<<"f">>, <<"g">>>>), Shell(<<<<"f">>, <<"g">>, <<"h">>>>),
        Shell(<<<<"link">>, <<"g">>>>), Body("delete", <<"f">>, None, None, None, 1, FALSE),
        Http(<<"https:", "", "host", "a">>, "GET", 2), Garbled}}
Symmetry == Permutations(Slots)
=============================================================================
