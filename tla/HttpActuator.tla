----------------------------- MODULE HttpActuator -----------------------------
(***************************************************************************)
(* http_request of safa-core/src/actuator/http.rs under the timer that      *)
(* actuate puts around it: one request, its name look-up, reqwest's         *)
(* redirects, the checks on the reply, and its body.  Names are looked up   *)
(* twice, by the check and by the connection, and a server answers what it  *)
(* likes, when it likes.                                                   *)
(*                                                                         *)
(* A URL is the string that the client sent; Normal is what Url::parse      *)
(* makes of it.  A body is its length in bytes and the lengths of its        *)
(* beginnings that are not UTF-8.                                           *)
(***************************************************************************)
EXTENDS Naturals

CONSTANTS
    Urls,           \* https URLs, as they are sent or as a Location names them
    Normal,         \* [Urls -> Urls]
    Allowed,        \* those that AllowlistedUrl::new accepts
    Plaintext,      \* Locations that are not https
    Addresses,
    MaxRedirects,   \* 3
    MaxResponse,    \* MAX_RESPONSE_BYTES
    Bodies,
    Timeout,        \* of the action, 15 s, in ticks
    NoUrl, NoAddress, NoBody, NoAnswer

ASSUME HttpConstants ==
    /\ Normal \in [Urls -> Urls] /\ \A u \in Urls : Normal[Normal[u]] = Normal[u]
    /\ Allowed \subseteq Urls /\ Plaintext \cap Urls = {} /\ NoUrl \notin Urls
    /\ Bodies \subseteq [length : Nat, broken : SUBSET Nat] /\ NoBody \notin Bodies
    /\ NoAddress \notin Addresses /\ NoAnswer \notin [bytes : Nat, truncated : BOOLEAN]
    /\ {MaxRedirects, MaxResponse} \subseteq Nat /\ Timeout \in Nat \ {0}

VARIABLES
    pc,        \* where the handler is, or how the request ended
    url,       \* AllowlistedUrl of the action
    at,        \* the URL of the request under way
    method,
    hops,      \* redirects followed
    peer,      \* remote_addr of the reply, where the connection has one
    body,      \* what the reply's body is
    answer,    \* of HttpResult: the bytes of body, and truncated
    clock

vars == <<pc, url, at, method, hops, peer, body, answer, clock>>

Awaiting == {"resolving", "sending", "reading"}
Ended    == {"ok", "invalid_target", "redirect_error", "unavailable", "timed out", "dropped"}
Answers  == [bytes : Nat, truncated : BOOLEAN]

TypeOK ==
    /\ pc \in Awaiting \cup Ended
    /\ url \in Allowed /\ at \in Urls \cup {NoUrl}
    /\ method \in {"GET", "POST"}
    /\ hops \in 0 .. MaxRedirects
    /\ peer \in Addresses \cup {NoAddress}
    /\ body \in Bodies \cup {NoBody}
    /\ clock \in 0 .. Timeout
    /\ pc = "resolving" => at = NoUrl
    /\ pc \in {"sending", "reading", "ok"} => at = Normal[at]
    /\ answer \in Answers \cup {NoAnswer}
    /\ pc = "ok" <=> answer # NoAnswer

Init ==
    /\ pc = "resolving"
    /\ url \in Allowed /\ at = NoUrl
    /\ method \in {"GET", "POST"}
    /\ hops = 0
    /\ peer = NoAddress /\ body = NoBody /\ answer = NoAnswer
    /\ clock = 0

End(how) == pc' = how /\ UNCHANGED <<url, at, method, hops, peer, body, answer, clock>>

(* is_private_ip.                                                            *)
IsPrivate(a) ==
    \/ a.family = "v4" /\ a.range \in {"loopback", "private", "link local", "broadcast",
                                       "unspecified", "0/8"}
    \/ a.family = "v6" /\ a.range \in {"loopback", "unspecified"}
    \/ a.family = "mapped v4" /\ a.range \in {"loopback", "private", "link local"}

-----------------------------------------------------------------------------
(* validate_dns: every address the name has now must be public.              *)
Resolve(addresses) ==
    /\ pc = "resolving"
    /\ IF addresses = {} THEN End("unavailable")
       ELSE IF \E a \in addresses : IsPrivate(a) THEN End("invalid_target")
       ELSE /\ pc' = "sending" /\ at' = Normal[url]
            /\ UNCHANGED <<url, method, hops, peer, body, answer, clock>>

(* The connection or the transfer fails.                                     *)
Fail ==
    /\ pc \in {"sending", "reading"}
    /\ End("unavailable")

(* Mutant: the limit is compared one redirect late.                          *)
RedirectOnceMore(location, keeps) ==
    /\ pc = "sending"
    /\ IF hops > MaxRedirects \/ location \in Plaintext THEN End("redirect_error")
       ELSE /\ at' = Normal[location]
            /\ hops' = hops + 1
            /\ method' = IF keeps THEN method ELSE "GET"
            /\ UNCHANGED <<pc, url, peer, body, answer, clock>>

(* A redirect, followed within send(): 301, 302 and 303 make a GET of it,    *)
(* 307 and 308 keep method and body.                                         *)
Redirect(location, keeps) ==
    /\ pc = "sending"
    /\ IF hops = MaxRedirects THEN End("redirect_error")
       ELSE IF location \in Plaintext THEN End("redirect_error") \/ End("unavailable")
       ELSE /\ at' = Normal[location]
            /\ hops' = hops + 1
            /\ method' = IF keeps THEN method ELSE "GET"
            /\ UNCHANGED <<pc, url, peer, body, answer, clock>>

(* Mutant: the string that was sent is looked up, not the final one.         *)
SentIsListed == url \in Allowed

(* The URL of the reply, if it is not the string that was sent.              *)
FinalIsListed == at = url \/ at \in Allowed

(* The head of the final reply, and the checks that follow it.               *)
Reply(from) ==
    /\ pc = "sending"
    /\ peer' = from
    /\ pc' = IF from # NoAddress /\ IsPrivate(from) THEN "invalid_target"
             ELSE IF FinalIsListed THEN "reading" ELSE "redirect_error"
    /\ UNCHANGED <<url, at, method, hops, body, answer, clock>>

Truncated(b) == b.length > MaxResponse

(* The whole body is read, then cut, then looked at as text.                 *)
ReadBody(b) ==
    LET bytes == IF Truncated(b) THEN MaxResponse ELSE b.length IN
    /\ pc = "reading"
    /\ body' = b
    /\ IF bytes \in b.broken THEN pc' = "unavailable" /\ UNCHANGED answer
       ELSE pc' = "ok" /\ answer' = [bytes |-> bytes, truncated |-> Truncated(b)]
    /\ UNCHANGED <<url, at, method, hops, peer, clock>>

(* Mutant: the timer is around the request only, not its body.               *)
TimerLeavesBody ==
    /\ pc \in Awaiting \ {"reading"} /\ clock = Timeout
    /\ End("timed out")

(* tokio's timer in actuate.                                                 *)
TimerFires ==
    /\ pc \in Awaiting /\ clock = Timeout
    /\ End("timed out")

(* The 30 s deadline or a disconnect.                                        *)
Drop ==
    /\ pc \in Awaiting
    /\ End("dropped")

Tick ==
    /\ pc \in Awaiting /\ clock < Timeout
    /\ clock' = clock + 1
    /\ UNCHANGED <<pc, url, at, method, hops, peer, body, answer>>

Network ==
    \/ \E addresses \in SUBSET Addresses : Resolve(addresses)
    \/ \E location \in Urls \cup Plaintext, keeps \in BOOLEAN : Redirect(location, keeps)
    \/ \E from \in Addresses \cup {NoAddress} : Reply(from)
    \/ \E b \in Bodies : ReadBody(b)
    \/ Fail

Next == Network \/ TimerFires \/ Drop \/ Tick

Spec == Init /\ [][Next]_vars

(* Time passes and timers fire; nothing is assumed of names and servers.      *)
FairSpec == Spec /\ WF_vars(Tick) /\ WF_vars(TimerFires)

-----------------------------------------------------------------------------
(* Properties.                                                               *)

(* What an agent is shown comes, after any redirects and whatever the name   *)
(* stands for by then, from a URL of the allowlist and not from an address   *)
(* that is known to be private; and it is all of the body, or says that it   *)
(* is not.                                                                   *)
AnswerIsVetted ==
    pc = "ok" =>
    /\ at \in Allowed
    /\ peer # NoAddress => ~IsPrivate(peer)
    /\ answer.bytes = (IF body.length < MaxResponse THEN body.length ELSE MaxResponse)
    /\ answer.truncated <=> answer.bytes < body.length

(* T1 of SAFA_TIMEOUTS.md: the request ends, although the name may never be  *)
(* resolved, the server never answer, and the body never end.                *)
RequestEnds == pc \in Awaiting ~> pc \in Ended
=============================================================================
