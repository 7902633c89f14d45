------------------------------ MODULE BootConfig ------------------------------
(***************************************************************************)
(* AmaConfig::load of safa-core/src/config.rs, and what main.rs makes of    *)
(* it: the four main files, the *.toml files of agents/, read one by one    *)
(* and twice over, to be parsed and to be hashed, while an operator edits   *)
(* them; or the [slime] section, where there is no such directory.          *)
(*                                                                         *)
(* A hash of bytes is the bytes.  The main files are each read once and     *)
(* hashed as they were read, so they are one value and one step.  A key of  *)
(* a domains table has the domain that it names and a spelling (replace of  *)
(* _ by . makes one domain of several keys).                                *)
(***************************************************************************)
EXTENDS Naturals, Sequences, FiniteSets, Functions

CONSTANTS
    AgentFiles,      \* the names of *.toml files in agents/, numbered in the order of their paths
    AgentContents,   \* what may be in one
    MainConfigs,     \* what may be in the four main files
    ValidIds,        \* agent ids of the permitted characters, not empty
    MinSecret,       \* 32 characters
    Unparsable,      \* a file that is not an agent table
    NoFile, NoDir, NoSecret, NoSection, NoBoot, Disturbed

ASSUME BootConstants ==
    /\ AgentFiles \subseteq Nat /\ IsFiniteSet(AgentFiles)
    /\ "default" \in ValidIds
    /\ \A c \in AgentContents \ {Unparsable} : {c.capacity, c.rate, c.window} \subseteq Nat
    /\ \A m \in MainConfigs : m.slime # NoSection => m.slime.capacity \in Nat
    /\ Unparsable \in AgentContents /\ NoFile \notin AgentContents
    /\ Disturbed \notin MainConfigs \X ([AgentFiles -> AgentContents \cup {NoFile}] \cup {NoDir})

VARIABLES
    main, files,   \* the disk: the main files, and agents/
    phase,         \* how far the boot is
    read,          \* the main files as they were read
    todo,          \* files of agents/ that a listing found, yet to be read
    agents,        \* AmaConfig's agents
    hashes,        \* of the files, joined into agents_hash
    touched,       \* history: the disk has changed since the boot began
    found,         \* history: the disk that is being served, if nothing disturbed the boot
    last           \* history: the last boot that nothing disturbed, and what came of it

disk == <<main, files>>
vars == <<main, files, phase, read, todo, agents, hashes, touched, found, last>>

Booting == {"main read", "parsing", "hashing", "agents read"}

TypeOK ==
    /\ main \in MainConfigs /\ read \in MainConfigs
    /\ files \in [AgentFiles -> AgentContents \cup {NoFile}] \cup {NoDir}
    /\ phase \in {"down", "serving"} \cup Booting
    /\ todo \subseteq AgentFiles
    /\ phase \notin {"parsing", "hashing"} => todo = {}
    /\ hashes \in Seq(AgentContents)
    /\ phase \in {"down", "main read"} => agents = {} /\ hashes = <<>>
    /\ touched \in BOOLEAN
    /\ phase \in Booting /\ ~touched => read = main
    /\ phase = "serving" /\ found # Disturbed => read = found[1]

Init ==
    /\ main \in MainConfigs /\ read = main
    /\ files \in [AgentFiles -> AgentContents \cup {NoFile}] \cup {NoDir}
    /\ phase = "down"
    /\ todo = {} /\ agents = {} /\ hashes = <<>>
    /\ touched = FALSE /\ found = Disturbed /\ last = NoBoot

-----------------------------------------------------------------------------
(* What is asked of an agent.                                                *)
LimitsFit(domains, capacity) == \A k \in DOMAIN domains : domains[k].limit \in 1 .. capacity

(* from_toml_str, of a file that parses.                                     *)
ValidAgent(raw) ==
    /\ raw # Unparsable
    /\ raw.id \in ValidIds
    /\ raw.capacity > 0 /\ raw.rate > 0 /\ raw.window > 0
    /\ LimitsFit(raw.domains, raw.capacity)
    /\ raw.secret # NoSecret => raw.secret.length >= MinSecret

(* domain_policies: where two keys name one domain, the last that the        *)
(* HashMap yields.                                                           *)
Policies(domains) ==
    {p \in [{k.domain : k \in DOMAIN domains} -> Range(domains)] :
        \A d \in DOMAIN p : \E k \in DOMAIN domains : k.domain = d /\ p[d] = domains[k]}

Agent(raw, policies) ==
    [id |-> raw.id, capacity |-> raw.capacity, rate |-> raw.rate, window |-> raw.window,
     secret |-> raw.secret, policies |-> policies]

(* The agent that stands for the [slime] section.                            *)
DefaultAgent(section) ==
    [id |-> "default", capacity |-> section.capacity, rate |-> 60, window |-> 60,
     secret |-> NoSecret, domains |-> section.domains]

(* domain_policies of AmaConfig, by their domains, which is all that is      *)
(* checked of them.                                                          *)
Governed(them) == UNION {DOMAIN a.policies : a \in them}

(* Every domain of an agent file is one of domains.toml.                     *)
DomainsExist(them) == Governed(them) \subseteq Range(read.mappings)

(* Mutant: the configuration's own [slime] section would do as well.         *)
MappedSomehow(them) ==
    \/ Range(read.mappings) \subseteq Governed(them)
    \/ read.slime # NoSection

(* The domain of every action has some agent's policy.                       *)
ActionsMapped(them) == Range(read.mappings) \subseteq Governed(them)

(* What /ama/manifest publishes of an agent, and hashes.                     *)
Manifest(a) ==
    [id |-> a.id, identityBound |-> a.secret # NoSecret, capacity |-> a.capacity,
     rate |-> a.rate, window |-> a.window, domains |-> a.policies]

(* What AppState::new gives the agent's authorizer and its limiter.           *)
Enforced(a) == <<a.capacity, a.policies, a.rate, a.window>>

-----------------------------------------------------------------------------
(* The boot.  An error at any point ends the process.                        *)
Refuse ==
    /\ phase' = "down" /\ todo' = {} /\ agents' = {} /\ hashes' = <<>>

(* Read, parse, and the checks up to the agents; main files that fail them    *)
(* start nothing.                                                            *)
ReadMain ==
    /\ phase = "down" /\ main.sound
    /\ phase' = "main read"
    /\ read' = main
    /\ touched' = FALSE
    /\ UNCHANGED <<disk, todo, agents, hashes, found, last>>

Listed == {f \in AgentFiles : files # NoDir /\ files[f] # NoFile}

(* agents_dir.is_dir(), and the first read_dir.                              *)
ListAgents ==
    /\ phase = "main read" /\ files # NoDir
    /\ IF Listed = {} THEN Refuse
       ELSE phase' = "parsing" /\ todo' = Listed /\ UNCHANGED <<agents, hashes>>
    /\ UNCHANGED <<disk, read, touched, found, last>>

(* Backward compatibility.                                                   *)
SynthesizeDefault ==
    LET s == read.slime IN
    /\ phase = "main read" /\ files = NoDir
    /\ IF s = NoSection \/ s.capacity = 0 \/ DOMAIN s.domains = {} \/ ~LimitsFit(s.domains, s.capacity)
       THEN Refuse
       ELSE /\ \E p \in Policies(s.domains) : agents' = {Agent(DefaultAgent(s), p)}
            /\ phase' = "agents read"
            /\ UNCHANGED <<todo, hashes>>
    /\ UNCHANGED <<disk, read, touched, found, last>>

(* One file of the listing, in the order of the listing, which is any.        *)
ParseAgent(f) ==
    /\ phase = "parsing" /\ f \in todo
    /\ IF f \notin Listed \/ ~ValidAgent(files[f]) \/ \E a \in agents : a.id = files[f].id
       THEN Refuse
       ELSE /\ \E p \in Policies(files[f].domains) : agents' = agents \cup {Agent(files[f], p)}
            /\ todo' = todo \ {f}
            /\ UNCHANGED <<phase, hashes>>
    /\ UNCHANGED <<disk, read, touched, found, last>>

(* The second read_dir.                                                      *)
ListAgain ==
    /\ phase = "parsing" /\ todo = {}
    /\ IF files = NoDir THEN Refuse
       ELSE phase' = "hashing" /\ todo' = Listed /\ UNCHANGED <<agents, hashes>>
    /\ UNCHANGED <<disk, read, touched, found, last>>

(* Mutant: the second listing is not sorted.                                 *)
NextUnsorted(f) == f \in todo

(* sort_by_key(path).                                                        *)
NextInOrder(f) == f \in todo /\ \A g \in todo : f <= g

HashAgent(f) ==
    /\ phase = "hashing" /\ NextInOrder(f)
    /\ IF f \notin Listed THEN Refuse
       ELSE /\ hashes' = Append(hashes, files[f])
            /\ todo' = todo \ {f}
            /\ UNCHANGED <<phase, agents>>
    /\ UNCHANGED <<disk, read, touched, found, last>>

(* The cross-validation of the agent files.                                  *)
CrossValidate ==
    /\ phase = "hashing" /\ todo = {}
    /\ IF DomainsExist(agents) THEN phase' = "agents read" /\ UNCHANGED <<todo, agents, hashes>>
       ELSE Refuse
    /\ UNCHANGED <<disk, read, touched, found, last>>

(* The mappings, the intents' binaries, and the listener, whose port may be   *)
(* taken.                                                                    *)
Serve ==
    /\ phase = "agents read"
    /\ \/ /\ ActionsMapped(agents) /\ read.binaries
          /\ phase' = "serving" /\ UNCHANGED <<todo, agents, hashes>>
          /\ found' = IF touched THEN Disturbed ELSE disk
       \/ Refuse /\ UNCHANGED found
    /\ touched' = FALSE
    /\ UNCHANGED <<disk, read, last>>

BootStep ==
    \/ ReadMain \/ ListAgents \/ SynthesizeDefault \/ ListAgain \/ CrossValidate \/ Serve
    \/ \E f \in AgentFiles : ParseAgent(f) \/ HashAgent(f)

(* Shut down, or crashed.  Nothing is reloaded before that.                  *)
Stop ==
    /\ phase = "serving"
    /\ Refuse
    /\ found' = Disturbed
    /\ last' = IF found = Disturbed THEN last
               ELSE [disk |-> found, hashes |-> hashes, agents |-> agents]
    /\ UNCHANGED <<disk, read, touched>>

(* An operator changes the configuration, at any time.                       *)
Edit ==
    /\ \/ main' \in MainConfigs \ {main} /\ UNCHANGED files
       \/ UNCHANGED main /\ files' \in {[g \in AgentFiles |-> NoFile], NoDir} \ {files}
       \/ /\ UNCHANGED main /\ files # NoDir
          /\ \E f \in AgentFiles, c \in AgentContents \cup {NoFile} :
                c # files[f] /\ files' = [files EXCEPT ![f] = c]
    /\ touched' = (touched \/ phase \in Booting)
    /\ UNCHANGED <<phase, read, todo, agents, hashes, found, last>>

Next == BootStep \/ Stop \/ Edit

Spec == Init /\ [][Next]_vars

-----------------------------------------------------------------------------
(* Properties.                                                               *)

(* Whatever an operator does to the files between two reads, what is served   *)
(* is what the authorizer, the limiter and the pipeline take for granted:    *)
(* budgets, rates and windows are positive, limits are within budgets, ids   *)
(* tell agents apart, secrets are long enough, and each action has a policy  *)
(* with someone.                                                             *)
ConfigIsUsable ==
    phase = "serving" =>
    /\ agents # {}
    /\ \A a \in agents :
          /\ {a.capacity, a.rate, a.window} \subseteq Nat \ {0}
          /\ \A d \in DOMAIN a.policies : a.policies[d].limit \in 1 .. a.capacity
          /\ a.secret # NoSecret => a.secret.length >= MinSecret
    /\ \A a, b \in agents : a.id = b.id => a = b
    /\ \A action \in DOMAIN read.mappings :
          \E a \in agents : read.mappings[action] \in DOMAIN a.policies

(* No two keys name one domain.                                              *)
Unambiguous(domains) == \A k, l \in DOMAIN domains : k.domain = l.domain => k = l

NoneAmbiguous ==
    /\ \A i \in DOMAIN hashes : Unambiguous(hashes[i].domains)
    /\ hashes = <<>> /\ read.slime # NoSection => Unambiguous(read.slime.domains)

(* The hashes of a boot that nothing disturbed depend on the files alone,    *)
(* and tell what is enforced: the same hashes, the same agents, unless two   *)
(* keys of a file name one domain.  And the manifest, which shows no secret, *)
(* shows everything that the authorizer and the limiter go by.               *)
FingerprintsTell ==
    phase = "serving" /\ last # NoBoot =>
    /\ found # Disturbed =>
          /\ found[2] = last.disk[2] => hashes = last.hashes
          /\ hashes = last.hashes /\ read = last.disk[1] /\ NoneAmbiguous => agents = last.agents
    /\ \A a \in agents, b \in last.agents : Manifest(a) = Manifest(b) => Enforced(a) = Enforced(b)
=============================================================================
