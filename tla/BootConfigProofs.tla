---------------------------- MODULE BootConfigProofs ----------------------------
(***************************************************************************)
(* Proofs about BootConfig: any number of agent files, any contents, any    *)
(* edits while they are read.                                              *)
(***************************************************************************)
EXTENDS BootConfig, FiniteSetTheorems, TLAPS

Disks == [AgentFiles -> AgentContents \cup {NoFile}] \cup {NoDir}

(* The types, part by part.                                                  *)
DiskOK  == main \in MainConfigs /\ read \in MainConfigs /\ files \in Disks
PhaseOK == phase \in {"down", "serving"} \cup Booting
LoadOK  == /\ todo \subseteq AgentFiles
           /\ phase \notin {"parsing", "hashing"} => todo = {}
           /\ hashes \in Seq(AgentContents)
           /\ phase \in {"down", "main read"} => agents = {} /\ hashes = <<>>
HistOK  == /\ touched \in BOOLEAN
           /\ phase \in Booting /\ ~touched => read = main
           /\ phase = "serving" /\ found # Disturbed => read = found[1]

LEMMA TypeParts == TypeOK <=> DiskOK /\ PhaseOK /\ LoadOK /\ HistOK
  BY Zenon DEF TypeOK, DiskOK, Disks, PhaseOK, LoadOK, HistOK

(* A file that a listing shows has contents.                                  *)
LEMMA ListedHasContents ==
  ASSUME DiskOK, NEW f \in Listed
  PROVE  f \in AgentFiles /\ files[f] \in AgentContents
  BY DEF DiskOK, Disks, Listed

(* A boot that is refused leaves nothing behind.                              *)
LEMMA RefuseTypes ==
  ASSUME Refuse
  PROVE  PhaseOK' /\ LoadOK' /\ phase' = "down"
  BY DEF Refuse, PhaseOK, LoadOK, Booting

LEMMA TypeInit == Init => TypeOK
<1> SUFFICES ASSUME Init PROVE DiskOK /\ PhaseOK /\ LoadOK /\ HistOK
  BY TypeParts
<1>1. DiskOK /\ PhaseOK
  BY DEF Init, DiskOK, Disks, PhaseOK
<1>2. LoadOK
  BY DEF Init, LoadOK
<1>3. HistOK
  BY DEF Init, HistOK, Booting
<1> QED BY <1>1, <1>2, <1>3

(* Every step of a boot, and every edit, keeps the types.                     *)
LEMMA TypeNext == TypeOK /\ [Next]_vars => TypeOK'
<1>p. DiskOK' /\ PhaseOK' /\ LoadOK' /\ HistOK' => TypeOK'
  BY Zenon DEF TypeOK, DiskOK, Disks, PhaseOK, LoadOK, HistOK
<1> SUFFICES ASSUME TypeOK, [Next]_vars PROVE DiskOK' /\ PhaseOK' /\ LoadOK' /\ HistOK'
  BY <1>p
<1>0. DiskOK /\ PhaseOK /\ LoadOK /\ HistOK
  BY TypeParts
(* Steps that leave the disk and the history alone, and end the process or    *)
(* stay in the boot.                                                         *)
<1>a. ASSUME UNCHANGED <<disk, read, touched, found>>, phase \in Booting,
             phase' \in {"down"} \cup Booting
      PROVE  DiskOK' /\ HistOK'
  BY <1>0, <1>a DEF disk, DiskOK, HistOK, Booting
<1>1. CASE ReadMain
  BY <1>0, <1>1 DEF ReadMain, disk, DiskOK, PhaseOK, LoadOK, HistOK, Booting
<1>2. CASE ListAgents
  <2>1. PhaseOK' /\ LoadOK' /\ phase' \in {"down"} \cup Booting
    <3>1. CASE Listed = {}
      BY <1>2, <3>1, RefuseTypes DEF ListAgents
    <3>2. CASE Listed # {}
      BY <1>0, <1>2, <3>2 DEF ListAgents, Listed, PhaseOK, LoadOK, Booting
    <3> QED BY <3>1, <3>2
  <2>2. phase \in Booting /\ UNCHANGED <<disk, read, touched, found>>
    BY <1>2 DEF ListAgents, Booting
  <2> QED BY <1>a, <2>1, <2>2
<1>3. CASE SynthesizeDefault
  <2>1. PhaseOK' /\ LoadOK' /\ phase' \in {"down"} \cup Booting
    <3>1. CASE Refuse
      BY <3>1, RefuseTypes
    <3>2. CASE phase' = "agents read" /\ UNCHANGED <<todo, hashes>>
      BY <1>0, <1>3, <3>2 DEF SynthesizeDefault, PhaseOK, LoadOK, Booting
    <3> QED BY <1>3, <3>1, <3>2 DEF SynthesizeDefault
  <2>2. phase \in Booting /\ UNCHANGED <<disk, read, touched, found>>
    BY <1>3 DEF SynthesizeDefault, Booting
  <2> QED BY <1>a, <2>1, <2>2
<1>4. ASSUME NEW f \in AgentFiles, ParseAgent(f) PROVE DiskOK' /\ PhaseOK' /\ LoadOK' /\ HistOK'
  <2>1. PhaseOK' /\ LoadOK' /\ phase' \in {"down"} \cup Booting
    <3>1. CASE Refuse
      BY <3>1, RefuseTypes
    <3>2. CASE todo' = todo \ {f} /\ UNCHANGED <<phase, hashes>>
      BY <1>0, <1>4, <3>2 DEF ParseAgent, PhaseOK, LoadOK, Booting
    <3> QED BY <1>4, <3>1, <3>2 DEF ParseAgent
  <2>2. phase \in Booting /\ UNCHANGED <<disk, read, touched, found>>
    BY <1>4 DEF ParseAgent, Booting
  <2> QED BY <1>a, <2>1, <2>2
<1>5. CASE ListAgain
  <2>1. PhaseOK' /\ LoadOK' /\ phase' \in {"down"} \cup Booting
    <3>1. CASE Refuse
      BY <3>1, RefuseTypes
    <3>2. CASE phase' = "hashing" /\ todo' = Listed /\ UNCHANGED <<agents, hashes>>
      BY <1>0, <1>5, <3>2 DEF ListAgain, Listed, PhaseOK, LoadOK, Booting
    <3> QED BY <1>5, <3>1, <3>2 DEF ListAgain
  <2>2. phase \in Booting /\ UNCHANGED <<disk, read, touched, found>>
    BY <1>5 DEF ListAgain, Booting
  <2> QED BY <1>a, <2>1, <2>2
<1>6. ASSUME NEW f \in AgentFiles, HashAgent(f) PROVE DiskOK' /\ PhaseOK' /\ LoadOK' /\ HistOK'
  <2>1. PhaseOK' /\ LoadOK' /\ phase' \in {"down"} \cup Booting
    <3>1. CASE Refuse
      BY <3>1, RefuseTypes
    <3>2. CASE f \in Listed /\ hashes' = Append(hashes, files[f]) /\ todo' = todo \ {f} /\ UNCHANGED <<phase, agents>>
      <4>1. hashes' \in Seq(AgentContents)
        <5>1. files[f] \in AgentContents /\ hashes \in Seq(AgentContents)
          BY <1>0, <3>2, ListedHasContents DEF LoadOK
        <5>2. Append(hashes, files[f]) \in Seq(AgentContents)
          BY <5>1
        <5> QED BY <3>2, <5>2
      <4> QED BY <1>0, <1>6, <3>2, <4>1 DEF HashAgent, PhaseOK, LoadOK, Booting
    <3> QED BY <1>6, <3>1, <3>2 DEF HashAgent
  <2>2. phase \in Booting /\ UNCHANGED <<disk, read, touched, found>>
    BY <1>6 DEF HashAgent, Booting
  <2> QED BY <1>a, <2>1, <2>2
<1>7. CASE CrossValidate
  <2>1. PhaseOK' /\ LoadOK' /\ phase' \in {"down"} \cup Booting
    <3>1. CASE Refuse
      BY <3>1, RefuseTypes
    <3>2. CASE phase' = "agents read" /\ UNCHANGED <<todo, agents, hashes>>
      BY <1>0, <1>7, <3>2 DEF CrossValidate, PhaseOK, LoadOK, Booting
    <3> QED BY <1>7, <3>1, <3>2 DEF CrossValidate
  <2>2. phase \in Booting /\ UNCHANGED <<disk, read, touched, found>>
    BY <1>7 DEF CrossValidate, Booting
  <2> QED BY <1>a, <2>1, <2>2
<1>8. CASE Serve
  <2>1. PhaseOK' /\ LoadOK'
    <3>1. CASE Refuse
      BY <3>1, RefuseTypes
    <3>2. CASE phase' = "serving" /\ UNCHANGED <<todo, agents, hashes>>
      BY <1>0, <1>8, <3>2 DEF Serve, PhaseOK, LoadOK, Booting
    <3> QED BY <1>8, <3>1, <3>2 DEF Serve
  <2>2. DiskOK' /\ touched' = FALSE
    BY <1>0, <1>8 DEF Serve, disk, DiskOK
  <2>3. phase' \notin Booting
    BY <1>8 DEF Serve, Refuse, Booting
  <2>4. ASSUME phase' = "serving", found' # Disturbed PROVE read' = found'[1]
    <3>1. ~touched /\ found' = disk /\ phase \in Booting /\ read' = read
      BY <1>0, <1>8, <2>4 DEF Serve, Refuse, Booting, HistOK
    <3> QED BY <1>0, <3>1 DEF HistOK, disk
  <2> QED BY <2>1, <2>2, <2>3, <2>4 DEF HistOK
<1>9. CASE Stop
  BY <1>0, <1>9, RefuseTypes DEF Stop, disk, DiskOK, HistOK, Booting
<1>10. CASE Edit
  <2>1. files' \in Disks /\ main' \in MainConfigs /\ read' \in MainConfigs
    BY <1>0, <1>10 DEF Edit, DiskOK, Disks
  <2>2. PhaseOK' /\ LoadOK'
    BY <1>0, <1>10 DEF Edit, PhaseOK, LoadOK
  <2>3. HistOK'
    <3>1. touched' \in BOOLEAN /\ (phase \in Booting => touched')
      BY <1>10, Zenon DEF Edit
    <3>2. phase' = phase /\ read' = read /\ found' = found
      BY <1>10 DEF Edit
    <3> QED BY <1>0, <3>1, <3>2, Zenon DEF HistOK
  <2> QED BY <2>1, <2>2, <2>3 DEF DiskOK
<1>11. CASE UNCHANGED vars
  BY <1>0, <1>11 DEF vars, disk, DiskOK, PhaseOK, LoadOK, HistOK
<1> QED BY <1>1, <1>2, <1>3, <1>4, <1>5, <1>6, <1>7, <1>8, <1>9, <1>10, <1>11 DEF Next, BootStep

(* The loader's state has its types whatever is edited while it reads.        *)
THEOREM BootTypeCorrect == Spec => []TypeOK
  BY TypeInit, TypeNext, PTL DEF Spec

-----------------------------------------------------------------------------
(* What is served.                                                           *)

(* One agent as the authorizer and the limiter want it.                       *)
FitAgent(a) ==
    /\ {a.capacity, a.rate, a.window} \subseteq Nat \ {0}
    /\ \A d \in DOMAIN a.policies : a.policies[d].limit \in 1 .. a.capacity
    /\ a.secret # NoSecret => a.secret.length >= MinSecret

(* All agents loaded so far are fit and apart; there is one after the last    *)
(* file, and every action has a policy once they are served.                 *)
LoadInv ==
    /\ TypeOK
    /\ \A a \in agents : FitAgent(a)
    /\ \A a, b \in agents : a.id = b.id => a = b
    /\ phase = "parsing" => todo # {} \/ agents # {}
    /\ phase \in {"hashing", "agents read", "serving"} => agents # {}
    /\ phase = "serving" => ActionsMapped(agents)

(* The choice of a policy for a domain is one of the policies that were       *)
(* checked, whichever key of the domain wins.                                *)
LEMMA PoliciesFit ==
  ASSUME NEW domains, NEW capacity \in Nat, LimitsFit(domains, capacity), NEW p \in Policies(domains)
  PROVE  \A d \in DOMAIN p : p[d].limit \in 1 .. capacity
<1> SUFFICES ASSUME NEW d \in DOMAIN p PROVE p[d].limit \in 1 .. capacity
  OBVIOUS
<1>1. PICK k \in DOMAIN domains : p[d] = domains[k]
  BY DEF Policies
<1> QED BY <1>1 DEF LimitsFit

(* A file that from_toml_str accepts makes a fit agent.                       *)
LEMMA ParsedAgentFits ==
  ASSUME NEW raw \in AgentContents, ValidAgent(raw), NEW p \in Policies(raw.domains)
  PROVE  FitAgent(Agent(raw, p)) /\ Agent(raw, p).id = raw.id
<1>1. {raw.capacity, raw.rate, raw.window} \subseteq Nat
  BY BootConstants DEF ValidAgent
<1>2. /\ raw.capacity > 0 /\ raw.rate > 0 /\ raw.window > 0
      /\ LimitsFit(raw.domains, raw.capacity)
      /\ raw.secret # NoSecret => raw.secret.length >= MinSecret
  BY DEF ValidAgent
<1>3. \A d \in DOMAIN p : p[d].limit \in 1 .. raw.capacity
  BY <1>1, <1>2, PoliciesFit
<1>4. {raw.capacity, raw.rate, raw.window} \subseteq Nat \ {0}
  BY <1>1, <1>2
<1>5. /\ Agent(raw, p).id = raw.id /\ Agent(raw, p).capacity = raw.capacity
      /\ Agent(raw, p).rate = raw.rate /\ Agent(raw, p).window = raw.window
      /\ Agent(raw, p).secret = raw.secret /\ Agent(raw, p).policies = p
  BY DEF Agent
<1> QED BY <1>2, <1>3, <1>4, <1>5, Zenon DEF FitAgent

(* So does a [slime] section that is accepted.                                *)
LEMMA DefaultAgentFits ==
  ASSUME NEW s, s.capacity \in Nat, s.capacity # 0, LimitsFit(s.domains, s.capacity),
         NEW p \in Policies(s.domains)
  PROVE  FitAgent(Agent(DefaultAgent(s), p))
<1>1. \A d \in DOMAIN p : p[d].limit \in 1 .. s.capacity
  BY PoliciesFit
<1> DEFINE a == Agent(DefaultAgent(s), p)
<1>2. a.capacity = s.capacity /\ a.rate = 60 /\ a.window = 60 /\ a.secret = NoSecret /\ a.policies = p
  BY DEF Agent, DefaultAgent
<1> HIDE DEF a
<1>3. {a.capacity, a.rate, a.window} \subseteq Nat \ {0}
  BY <1>2
<1>4. FitAgent(a)
  BY <1>1, <1>2, <1>3, Zenon DEF FitAgent
<1> QED BY <1>4 DEF a

(* A boot loads fit agents, or refuses.                                       *)
LEMMA LoadInvNext == LoadInv /\ [Next]_vars => LoadInv'
<1> SUFFICES ASSUME LoadInv, [Next]_vars PROVE LoadInv'
  OBVIOUS
<1>0. /\ TypeOK /\ DiskOK /\ LoadOK
      /\ \A a \in agents : FitAgent(a)
      /\ \A a, b \in agents : a.id = b.id => a = b
  BY TypeParts DEF LoadInv
<1>t. TypeOK'
  BY <1>0, TypeNext
<1>r. ASSUME Refuse PROVE LoadInv'
  <2>1. agents' = {} /\ phase' = "down"
    BY <1>r DEF Refuse
  <2> QED BY <1>t, <2>1 DEF LoadInv
(* Steps that change no agent.                                               *)
<1>a. ASSUME agents' = agents,
             phase' = "parsing" => todo' # {} \/ agents # {},
             phase' \in {"hashing", "agents read", "serving"} => agents # {},
             phase' = "serving" => ActionsMapped(agents)'
      PROVE  LoadInv'
  <2>1. \A a \in agents' : FitAgent(a)
    BY <1>0, <1>a
  <2>2. \A a, b \in agents' : a.id = b.id => a = b
    BY <1>0, <1>a
  <2> QED BY <1>t, <1>a, <2>1, <2>2, Zenon DEF LoadInv
<1>1. CASE ReadMain
  BY <1>a, <1>1 DEF ReadMain
<1>2. CASE ListAgents
  BY <1>a, <1>r, <1>2 DEF ListAgents
<1>3. CASE SynthesizeDefault
  <2>1. CASE Refuse
    BY <1>r, <2>1
  <2>2. CASE ~Refuse
    <3> DEFINE s == read.slime
    <3>1. /\ s # NoSection /\ s.capacity # 0 /\ LimitsFit(s.domains, s.capacity)
          /\ phase' = "agents read"
          /\ \E p \in Policies(s.domains) : agents' = {Agent(DefaultAgent(s), p)}
      BY <1>3, <2>2 DEF SynthesizeDefault
    <3>2. s.capacity \in Nat
      BY <1>0, <3>1, BootConstants DEF DiskOK
    <3>3. PICK p \in Policies(s.domains) : agents' = {Agent(DefaultAgent(s), p)}
      BY <3>1
    <3>4. FitAgent(Agent(DefaultAgent(s), p))
      BY <3>1, <3>2, DefaultAgentFits
    <3> HIDE DEF s
    <3>5. \A a \in agents' : FitAgent(a)
      BY <3>3, <3>4
    <3>6. agents' # {} /\ \A a, b \in agents' : a.id = b.id => a = b
      BY <3>3
    <3>7. phase' # "parsing" /\ phase' # "serving"
      BY <3>1
    <3> QED BY <1>t, <3>5, <3>6, <3>7, Zenon DEF LoadInv
  <2> QED BY <2>1, <2>2
<1>4. ASSUME NEW f \in AgentFiles, ParseAgent(f) PROVE LoadInv'
  <2>1. CASE Refuse
    BY <1>r, <2>1
  <2>2. CASE ~Refuse
    <3> DEFINE raw == files[f]
    <3>1. /\ f \in Listed /\ ValidAgent(raw) /\ \A a \in agents : a.id # raw.id
          /\ phase' = "parsing"
          /\ \E p \in Policies(raw.domains) : agents' = agents \cup {Agent(raw, p)}
      BY <1>4, <2>2 DEF ParseAgent
    <3>2. raw \in AgentContents
      BY <1>0, <3>1, ListedHasContents
    <3>3. PICK p \in Policies(raw.domains) : agents' = agents \cup {Agent(raw, p)}
      BY <3>1
    <3>4. FitAgent(Agent(raw, p)) /\ Agent(raw, p).id = raw.id
      BY <3>1, <3>2, ParsedAgentFits
    <3> DEFINE new == Agent(raw, p)
    <3> HIDE DEF new, raw
    <3>5. agents' = agents \cup {new} /\ FitAgent(new) /\ new.id = raw.id
      BY <3>3, <3>4 DEF new
    <3>6. \A a \in agents' : FitAgent(a)
      BY <1>0, <3>5
    <3>7. \A a, b \in agents' : a.id = b.id => a = b
      BY <1>0, <3>1, <3>5
    <3>8. agents' # {} /\ phase' \notin {"hashing", "agents read", "serving"}
      BY <3>1, <3>5
    <3> QED BY <1>t, <3>6, <3>7, <3>8 DEF LoadInv
  <2> QED BY <2>1, <2>2
<1>5. CASE ListAgain
  <2>1. phase = "parsing" /\ todo = {}
    BY <1>5 DEF ListAgain
  <2>2. agents # {}
    BY <2>1 DEF LoadInv
  <2>3. CASE Refuse
    BY <1>r, <2>3
  <2>4. CASE phase' = "hashing" /\ UNCHANGED agents
    BY <1>a, <2>2, <2>4
  <2> QED BY <1>5, <2>3, <2>4 DEF ListAgain
<1>6. ASSUME NEW f \in AgentFiles, HashAgent(f) PROVE LoadInv'
  <2>1. phase = "hashing"
    BY <1>6 DEF HashAgent
  <2>2. agents # {}
    BY <2>1 DEF LoadInv
  <2>3. CASE Refuse
    BY <1>r, <2>3
  <2>4. CASE UNCHANGED <<phase, agents>>
    BY <1>a, <2>1, <2>2, <2>4
  <2> QED BY <1>6, <2>3, <2>4 DEF HashAgent
<1>7. CASE CrossValidate
  <2>1. phase = "hashing"
    BY <1>7 DEF CrossValidate
  <2>2. agents # {}
    BY <2>1 DEF LoadInv
  <2>3. CASE Refuse
    BY <1>r, <2>3
  <2>4. CASE phase' = "agents read" /\ UNCHANGED agents
    BY <1>a, <2>2, <2>4
  <2> QED BY <1>7, <2>3, <2>4 DEF CrossValidate
<1>8. CASE Serve
  <2>1. phase = "agents read"
    BY <1>8 DEF Serve
  <2>2. agents # {}
    BY <2>1 DEF LoadInv
  <2>3. CASE Refuse
    BY <1>r, <2>3
  <2>4. CASE phase' = "serving" /\ agents' = agents /\ ActionsMapped(agents)
    <3>1. read' = read
      BY <1>8 DEF Serve
    <3>2. ActionsMapped(agents)'
      BY <2>4, <3>1 DEF ActionsMapped
    <3> QED BY <1>a, <2>2, <2>4, <3>2
  <2> QED BY <1>8, <2>3, <2>4 DEF Serve
<1>9. CASE Stop
  BY <1>r, <1>9 DEF Stop
<1>10. CASE Edit \/ UNCHANGED vars
  <2>1. UNCHANGED <<phase, todo, agents, read>>
    BY <1>10 DEF Edit, vars
  <2>2. phase = "serving" => ActionsMapped(agents)'
    BY <2>1 DEF LoadInv, ActionsMapped
  <2>3. /\ phase = "parsing" => todo # {} \/ agents # {}
        /\ phase \in {"hashing", "agents read", "serving"} => agents # {}
    BY DEF LoadInv
  <2> QED BY <1>a, <2>1, <2>2, <2>3
<1> QED BY <1>1, <1>2, <1>3, <1>4, <1>5, <1>6, <1>7, <1>8, <1>9, <1>10 DEF Next, BootStep

(* What is served is usable, whatever an operator does to the files between   *)
(* two reads.                                                                *)
THEOREM ServedConfigIsUsable == Spec => []ConfigIsUsable
<1>1. Init => LoadInv
  <2> SUFFICES ASSUME Init PROVE LoadInv
    OBVIOUS
  <2>1. TypeOK /\ agents = {} /\ phase = "down"
    BY TypeInit DEF Init
  <2> QED BY <2>1 DEF LoadInv
<1>2. LoadInv => ConfigIsUsable
  <2> SUFFICES ASSUME LoadInv, phase = "serving" PROVE ConfigIsUsable
    BY DEF ConfigIsUsable
  <2>1. agents # {} /\ ActionsMapped(agents) /\ \A a, b \in agents : a.id = b.id => a = b
    BY DEF LoadInv
  <2>2. \A a \in agents : FitAgent(a)
    BY DEF LoadInv
  <2>3. \A action \in DOMAIN read.mappings : \E a \in agents : read.mappings[action] \in DOMAIN a.policies
    BY <2>1 DEF ActionsMapped, Governed, Range
  <2> QED BY <2>1, <2>2, <2>3, Zenon DEF ConfigIsUsable, FitAgent
<1> QED BY <1>1, <1>2, LoadInvNext, PTL DEF Spec

-----------------------------------------------------------------------------
(* What the hashes tell.                                                     *)

ListedIn(fs) == {f \in AgentFiles : fs # NoDir /\ fs[f] # NoFile}

(* The place of a name among those of a set.                                 *)
Rank(f, done) == Cardinality({g \in done : g <= f})

(* hs holds the contents of the files of done, in the order of their names.   *)
HashesOf(fs, hs, done) ==
    /\ hs \in Seq(AgentContents) /\ Len(hs) = Cardinality(done)
    /\ \A f \in done : Rank(f, done) \in 1 .. Len(hs) /\ hs[Rank(f, done)] = fs[f]
    /\ \A i \in 1 .. Len(hs) : \E f \in done : Rank(f, done) = i

Makes(raw, a) == \E p \in Policies(raw.domains) : a = Agent(raw, p)

(* them are the agents of the files of done.                                  *)
AgentsOf(fs, them, done) ==
    /\ \A a \in them : \E f \in done : Makes(fs[f], a)
    /\ \A f \in done : \E a \in them : Makes(fs[f], a)

(* The hashes and the agents are those of a disk.                             *)
Settled(d, hs, them) ==
    \/ /\ d[2] = NoDir /\ hs = <<>> /\ d[1].slime # NoSection
       /\ \E a \in them : them = {a} /\ Makes(DefaultAgent(d[1].slime), a)
    \/ /\ d[2] # NoDir /\ ListedIn(d[2]) # {}
       /\ HashesOf(d[2], hs, ListedIn(d[2])) /\ AgentsOf(d[2], them, ListedIn(d[2]))

(* How far an undisturbed boot has come: first the agents of the files that   *)
(* are no longer to do, then the hashes of those below all that are to do.    *)
ParsingInv ==
    phase = "parsing" /\ ~touched =>
        /\ files # NoDir /\ Listed # {} /\ todo \subseteq Listed /\ hashes = <<>>
        /\ AgentsOf(files, agents, Listed \ todo)

HashingInv ==
    phase = "hashing" /\ ~touched =>
        /\ files # NoDir /\ Listed # {} /\ todo \subseteq Listed
        /\ \A f \in Listed \ todo, g \in todo : f < g
        /\ AgentsOf(files, agents, Listed) /\ HashesOf(files, hashes, Listed \ todo)

ReadInv == phase = "agents read" /\ ~touched => Settled(disk, hashes, agents)

ServedInv == phase = "serving" /\ found # Disturbed => Settled(found, hashes, agents)

LastInv == last # NoBoot => Settled(last.disk, last.hashes, last.agents)

PrintInv == TypeOK /\ ParsingInv /\ HashingInv /\ ReadInv /\ ServedInv /\ LastInv

(* Where no two keys name one domain, a table has one reading.                *)
LEMMA OneReading ==
  ASSUME NEW raw, Unambiguous(raw.domains), NEW a, NEW b, Makes(raw, a), Makes(raw, b)
  PROVE  a = b
<1> DEFINE D == raw.domains
<1>1. PICK p \in Policies(D) : a = Agent(raw, p)
  BY DEF Makes
<1>2. PICK q \in Policies(D) : b = Agent(raw, q)
  BY DEF Makes
<1> DEFINE named == {k.domain : k \in DOMAIN D}
<1>3. /\ p \in [named -> Range(D)] /\ \A d \in DOMAIN p : \E k \in DOMAIN D : k.domain = d /\ p[d] = D[k]
      /\ q \in [named -> Range(D)] /\ \A d \in DOMAIN q : \E k \in DOMAIN D : k.domain = d /\ q[d] = D[k]
  BY DEF Policies
<1>4. \A k, l \in DOMAIN D : k.domain = l.domain => k = l
  BY DEF Unambiguous
<1> HIDE DEF D, named
<1>5. ASSUME NEW d \in named PROVE p[d] = q[d]
  <2>1. PICK k \in DOMAIN D : k.domain = d /\ p[d] = D[k]
    BY <1>3
  <2>2. PICK l \in DOMAIN D : l.domain = d /\ q[d] = D[l]
    BY <1>3
  <2> QED BY <1>4, <2>1, <2>2
<1>6. p = q
  BY <1>3, <1>5
<1> QED BY <1>1, <1>2, <1>6

(* A name above all others takes the next place, and moves no other.          *)
LEMMA RankOfNext ==
  ASSUME NEW done \in SUBSET AgentFiles, NEW f \in AgentFiles, \A g \in done : g < f
  PROVE  /\ Cardinality(done) \in Nat
         /\ Cardinality(done \cup {f}) = Cardinality(done) + 1
         /\ Rank(f, done \cup {f}) = Cardinality(done) + 1
         /\ \A g \in done : Rank(g, done \cup {f}) = Rank(g, done)
<1>1. IsFiniteSet(done) /\ f \notin done /\ f \in Nat /\ done \subseteq Nat
  BY FS_Subset, BootConstants
<1>2. Cardinality(done) \in Nat /\ Cardinality(done \cup {f}) = Cardinality(done) + 1
  BY <1>1, FS_CardinalityType, FS_AddElement
<1>3. {g \in done \cup {f} : g <= f} = done \cup {f}
  <2>1. \A g \in done \cup {f} : g <= f
    BY <1>1
  <2> QED BY <2>1
<1>4. ASSUME NEW g \in done PROVE Rank(g, done \cup {f}) = Rank(g, done)
  <2>1. {h \in done \cup {f} : h <= g} = {h \in done : h <= g}
    BY <1>1
  <2> QED BY <2>1 DEF Rank
<1> QED BY <1>2, <1>3, <1>4 DEF Rank

(* So that a hash appended in that order is in its place.                     *)
LEMMA HashesGrow ==
  ASSUME NEW fs, NEW hs, NEW done \in SUBSET AgentFiles, HashesOf(fs, hs, done),
         NEW f \in AgentFiles, \A g \in done : g < f, fs[f] \in AgentContents
  PROVE  HashesOf(fs, Append(hs, fs[f]), done \cup {f})
<1> DEFINE n == Cardinality(done)
           more == Append(hs, fs[f])
           all == done \cup {f}
<1>1. /\ n \in Nat /\ Cardinality(all) = n + 1 /\ Rank(f, all) = n + 1
      /\ \A g \in done : Rank(g, all) = Rank(g, done)
  BY RankOfNext
<1>2. /\ hs \in Seq(AgentContents) /\ Len(hs) = n
      /\ \A g \in done : Rank(g, done) \in 1 .. n /\ hs[Rank(g, done)] = fs[g]
      /\ \A i \in 1 .. n : \E g \in done : Rank(g, done) = i
  BY DEF HashesOf
<1>3. /\ more \in Seq(AgentContents) /\ Len(more) = n + 1 /\ more[n + 1] = fs[f]
      /\ \A i \in 1 .. n : more[i] = hs[i]
  BY <1>1, <1>2
<1> HIDE DEF n, more, all
<1>4. ASSUME NEW g \in all PROVE Rank(g, all) \in 1 .. n + 1 /\ more[Rank(g, all)] = fs[g]
  <2>1. CASE g = f
    BY <1>1, <1>3, <2>1
  <2>2. CASE g \in done
    BY <1>1, <1>2, <1>3, <2>2
  <2> QED BY <2>1, <2>2 DEF all
<1>5. ASSUME NEW i \in 1 .. n + 1 PROVE \E g \in all : Rank(g, all) = i
  <2>1. CASE i = n + 1
    BY <1>1, <2>1 DEF all
  <2>2. CASE i \in 1 .. n
    BY <1>1, <1>2, <2>2 DEF all
  <2> QED BY <1>1, <2>1, <2>2
<1>6. HashesOf(fs, more, all)
  BY <1>1, <1>3, <1>4, <1>5 DEF HashesOf
<1> QED BY <1>6 DEF more, all

(* The files alone say what the hashes are.                                   *)
LEMMA HashesOfOneDisk ==
  ASSUME NEW fs, NEW hs, NEW gs, NEW done, HashesOf(fs, hs, done), HashesOf(fs, gs, done)
  PROVE  hs = gs
<1>1. hs \in Seq(AgentContents) /\ gs \in Seq(AgentContents) /\ Len(hs) = Len(gs)
  BY DEF HashesOf
<1>2. ASSUME NEW i \in 1 .. Len(hs) PROVE hs[i] = gs[i]
  <2>1. PICK f \in done : Rank(f, done) = i
    BY DEF HashesOf
  <2> QED BY <2>1 DEF HashesOf
<1> QED BY <1>1, <1>2

LEMMA SomeHash ==
  ASSUME NEW fs, NEW hs, NEW done, HashesOf(fs, hs, done), done # {}
  PROVE  hs # <<>>
  BY DEF HashesOf

(* The hashes say what the agents are.                                        *)
LEMMA AgentsTold ==
  ASSUME NEW hs, \A i \in DOMAIN hs : Unambiguous(hs[i].domains),
         NEW fs, NEW done, NEW them, HashesOf(fs, hs, done), AgentsOf(fs, them, done),
         NEW gs, NEW there, NEW others, HashesOf(gs, hs, there), AgentsOf(gs, others, there)
  PROVE  them \subseteq others
<1> SUFFICES ASSUME NEW a \in them PROVE a \in others
  OBVIOUS
<1>1. PICK f \in done : Makes(fs[f], a)
  BY DEF AgentsOf
<1>2. hs \in Seq(AgentContents) /\ DOMAIN hs = 1 .. Len(hs)
  BY DEF HashesOf
<1>3. PICK i \in 1 .. Len(hs) : hs[i] = fs[f]
  BY DEF HashesOf
<1>4. PICK g \in there : Rank(g, there) = i /\ hs[i] = gs[g]
  BY DEF HashesOf
<1>5. PICK b \in others : Makes(gs[g], b)
  BY DEF AgentsOf
<1>6. a = b
  BY <1>1, <1>2, <1>3, <1>4, <1>5, OneReading
<1> QED BY <1>5, <1>6

(* Every step of a boot, every edit and every end keep what is known of the    *)
(* hashes.                                                                   *)
LEMMA PrintInvNext == PrintInv /\ [Next]_vars => PrintInv'
<1> SUFFICES ASSUME PrintInv, [Next]_vars PROVE PrintInv'
  OBVIOUS
<1>0. /\ TypeOK /\ DiskOK /\ LoadOK /\ HistOK
      /\ ParsingInv /\ HashingInv /\ ReadInv /\ ServedInv /\ LastInv
  BY TypeParts DEF PrintInv
<1>t. TypeOK'
  BY <1>0, TypeNext
<1>f. Listed = ListedIn(files)
  BY DEF Listed, ListedIn
(* An end, and a phase that says nothing yet.                                *)
<1>r. ASSUME phase' \in {"down", "main read"}, LastInv' PROVE PrintInv'
  BY <1>t, <1>r DEF PrintInv, ParsingInv, HashingInv, ReadInv, ServedInv
<1>l. ASSUME last' = last PROVE LastInv'
  BY <1>0, <1>l DEF LastInv
<1>1. CASE ReadMain
  BY <1>r, <1>l, <1>1 DEF ReadMain
<1>2. CASE ListAgents
  <2>1. CASE Listed = {}
    BY <1>r, <1>l, <1>2, <2>1 DEF ListAgents, Refuse
  <2>2. CASE Listed # {}
    <3>1. /\ files # NoDir /\ phase' = "parsing" /\ todo' = Listed /\ agents' = {} /\ hashes' = <<>>
          /\ files' = files /\ last' = last
      BY <1>0, <1>2, <2>2 DEF ListAgents, LoadOK, disk
    <3>2. Listed' = Listed
      BY <3>1 DEF Listed
    <3>3. AgentsOf(files', agents', Listed' \ todo')
      BY <3>1, <3>2 DEF AgentsOf
    <3>4. ParsingInv'
      BY <2>2, <3>1, <3>2, <3>3 DEF ParsingInv
    <3> QED BY <1>t, <1>l, <3>1, <3>4 DEF PrintInv, HashingInv, ReadInv, ServedInv
  <2> QED BY <2>1, <2>2
<1>3. CASE SynthesizeDefault
  <2>1. CASE Refuse
    BY <1>r, <1>l, <1>3, <2>1 DEF SynthesizeDefault, Refuse
  <2>2. CASE ~Refuse
    <3>1. /\ files = NoDir /\ phase' = "agents read" /\ read.slime # NoSection
          /\ hashes' = <<>> /\ UNCHANGED <<disk, touched, last>>
      BY <1>0, <1>3, <2>2 DEF SynthesizeDefault, LoadOK
    <3>2. PICK p \in Policies(read.slime.domains) : agents' = {Agent(DefaultAgent(read.slime), p)}
      BY <1>3, <2>2 DEF SynthesizeDefault
    <3>3. \E a \in agents' : agents' = {a} /\ Makes(DefaultAgent(read.slime), a)
      <4>1. DefaultAgent(read.slime).domains = read.slime.domains
        BY DEF DefaultAgent
      <4> QED BY <3>2, <4>1 DEF Makes
    <3>4. ASSUME ~touched PROVE read = main
      BY <1>0, <1>3, <3>4 DEF HistOK, SynthesizeDefault, Booting
    <3>5. ReadInv'
      <4> SUFFICES ASSUME ~touched PROVE Settled(disk', hashes', agents')
        BY <3>1 DEF ReadInv
      <4>1. disk'[1] = read /\ disk'[2] = NoDir
        BY <3>1, <3>4 DEF disk
      <4> QED BY <3>1, <3>3, <4>1 DEF Settled
    <3> QED BY <1>t, <1>l, <3>1, <3>5 DEF PrintInv, ParsingInv, HashingInv, ServedInv
  <2> QED BY <2>1, <2>2
<1>4. ASSUME NEW f \in AgentFiles, ParseAgent(f) PROVE PrintInv'
  <2>1. CASE Refuse
    BY <1>r, <1>l, <1>4, <2>1 DEF ParseAgent, Refuse
  <2>2. CASE ~Refuse
    <3>1. /\ phase = "parsing" /\ f \in todo /\ f \in Listed
          /\ todo' = todo \ {f} /\ phase' = phase /\ hashes' = hashes
          /\ UNCHANGED <<disk, touched, last>>
      BY <1>4, <2>2 DEF ParseAgent
    <3>2. PICK p \in Policies(files[f].domains) : agents' = agents \cup {Agent(files[f], p)}
      BY <1>4, <2>2 DEF ParseAgent
    <3>3. Makes(files[f], Agent(files[f], p))
      BY <3>2 DEF Makes
    <3>4. files' = files /\ Listed' = Listed
      BY <3>1 DEF disk, Listed
    <3>5. ParsingInv'
      <4> SUFFICES ASSUME ~touched PROVE /\ files # NoDir /\ Listed # {} /\ todo' \subseteq Listed
                                         /\ hashes = <<>> /\ AgentsOf(files, agents', Listed \ todo')
        BY <3>1, <3>4 DEF ParsingInv
      <4>1. /\ files # NoDir /\ Listed # {} /\ todo \subseteq Listed /\ hashes = <<>>
            /\ AgentsOf(files, agents, Listed \ todo)
        BY <1>0, <3>1 DEF ParsingInv
      <4>2. Listed \ todo' = (Listed \ todo) \cup {f}
        BY <3>1
      <4> DEFINE new == Agent(files[f], p)
      <4> HIDE DEF new
      <4>3. agents' = agents \cup {new} /\ Makes(files[f], new)
        BY <3>2, <3>3 DEF new
      <4>4. AgentsOf(files, agents', (Listed \ todo) \cup {f})
        BY <4>1, <4>3 DEF AgentsOf
      <4> QED BY <3>1, <4>1, <4>2, <4>4
    <3> QED BY <1>t, <1>l, <3>1, <3>5 DEF PrintInv, HashingInv, ReadInv, ServedInv
  <2> QED BY <2>1, <2>2
<1>5. CASE ListAgain
  <2>1. CASE Refuse
    BY <1>r, <1>l, <1>5, <2>1 DEF ListAgain, Refuse
  <2>2. CASE ~Refuse
    <3>1. /\ phase = "parsing" /\ todo = {} /\ phase' = "hashing" /\ todo' = Listed
          /\ agents' = agents /\ hashes' = hashes /\ UNCHANGED <<disk, touched, last>>
      BY <1>5, <2>2 DEF ListAgain
    <3>2. files' = files /\ Listed' = Listed
      BY <3>1 DEF disk, Listed
    <3>3. HashingInv'
      <4> SUFFICES ASSUME ~touched
                   PROVE  /\ files # NoDir /\ Listed # {} /\ AgentsOf(files, agents, Listed)
                          /\ HashesOf(files, hashes, {})
        <5>1. Listed \ todo' = {} /\ todo' \subseteq Listed
          BY <3>1
        <5> QED BY <3>1, <3>2, <5>1 DEF HashingInv
      <4>1. /\ files # NoDir /\ Listed # {} /\ hashes = <<>> /\ AgentsOf(files, agents, Listed \ todo)
        BY <1>0, <3>1 DEF ParsingInv
      <4>2. Listed \ todo = Listed
        BY <3>1
      <4>3. HashesOf(files, <<>>, {})
        BY FS_EmptySet DEF HashesOf
      <4> QED BY <4>1, <4>2, <4>3
    <3> QED BY <1>t, <1>l, <3>1, <3>3 DEF PrintInv, ParsingInv, ReadInv, ServedInv
  <2> QED BY <2>1, <2>2
<1>6. ASSUME NEW f \in AgentFiles, HashAgent(f) PROVE PrintInv'
  <2>1. CASE Refuse
    BY <1>r, <1>l, <1>6, <2>1 DEF HashAgent, Refuse
  <2>2. CASE ~Refuse
    <3>1. /\ phase = "hashing" /\ f \in todo /\ (\A g \in todo : f <= g) /\ f \in Listed
          /\ hashes' = Append(hashes, files[f]) /\ todo' = todo \ {f}
          /\ phase' = phase /\ agents' = agents /\ UNCHANGED <<disk, touched, last>>
      BY <1>6, <2>2 DEF HashAgent, NextInOrder
    <3>2. files' = files /\ Listed' = Listed
      BY <3>1 DEF disk, Listed
    <3>3. HashingInv'
      <4> DEFINE done == Listed \ todo
      <4> SUFFICES ASSUME ~touched
                   PROVE  /\ files # NoDir /\ Listed # {} /\ AgentsOf(files, agents, Listed)
                          /\ \A g \in done \cup {f}, h \in todo \ {f} : g < h
                          /\ HashesOf(files, Append(hashes, files[f]), done \cup {f})
                          /\ todo \subseteq Listed
        <5>1. Listed \ (todo \ {f}) = done \cup {f}
          BY <3>1
        <5> QED BY <3>1, <3>2, <5>1 DEF HashingInv
      <4>1. /\ files # NoDir /\ Listed # {} /\ AgentsOf(files, agents, Listed) /\ todo \subseteq Listed
            /\ \A g \in done, h \in todo : g < h
            /\ HashesOf(files, hashes, done)
        BY <1>0, <3>1 DEF HashingInv
      <4>2. Listed \subseteq AgentFiles /\ AgentFiles \subseteq Nat /\ files[f] \in AgentContents
        BY <1>0, <3>1, BootConstants, ListedHasContents DEF Listed
      <4> HIDE DEF done
      <4>3. done \in SUBSET AgentFiles
        BY <4>2 DEF done
      <4>4. HashesOf(files, Append(hashes, files[f]), done \cup {f})
        BY <3>1, <4>1, <4>2, <4>3, HashesGrow
      <4>5. ASSUME NEW h \in todo \ {f} PROVE f < h
        BY <3>1, <4>1, <4>2
      <4> QED BY <4>1, <4>4, <4>5
    <3> QED BY <1>t, <1>l, <3>1, <3>3 DEF PrintInv, ParsingInv, ReadInv, ServedInv
  <2> QED BY <2>1, <2>2
<1>7. CASE CrossValidate
  <2>1. CASE Refuse
    BY <1>r, <1>l, <1>7, <2>1 DEF CrossValidate, Refuse
  <2>2. CASE ~Refuse
    <3>1. /\ phase = "hashing" /\ todo = {} /\ phase' = "agents read"
          /\ agents' = agents /\ hashes' = hashes /\ UNCHANGED <<disk, touched, last>>
      BY <1>7, <2>2 DEF CrossValidate
    <3>2. ReadInv'
      <4> SUFFICES ASSUME ~touched PROVE Settled(disk, hashes, agents)
        BY <3>1 DEF ReadInv
      <4>1. /\ files # NoDir /\ Listed # {} /\ AgentsOf(files, agents, Listed)
            /\ HashesOf(files, hashes, Listed \ todo)
        BY <1>0, <3>1 DEF HashingInv
      <4>2. Listed \ todo = Listed /\ disk[2] = files
        BY <3>1 DEF disk
      <4> QED BY <1>f, <4>1, <4>2 DEF Settled
    <3> QED BY <1>t, <1>l, <3>1, <3>2 DEF PrintInv, ParsingInv, HashingInv, ServedInv
  <2> QED BY <2>1, <2>2
<1>8. CASE Serve
  <2>1. CASE Refuse
    BY <1>r, <1>l, <1>8, <2>1 DEF Serve, Refuse
  <2>2. CASE ~Refuse
    <3>1. /\ phase = "agents read" /\ phase' = "serving" /\ agents' = agents /\ hashes' = hashes
          /\ found' = (IF touched THEN Disturbed ELSE disk) /\ last' = last
      BY <1>8, <2>2 DEF Serve
    <3>2. ServedInv'
      BY <1>0, <3>1 DEF ServedInv, ReadInv, HistOK
    <3> QED BY <1>t, <1>l, <3>1, <3>2 DEF PrintInv, ParsingInv, HashingInv, ReadInv
  <2> QED BY <2>1, <2>2
<1>9. CASE Stop
  <2>1. /\ phase = "serving" /\ phase' = "down"
        /\ last' = IF found = Disturbed THEN last
                   ELSE [disk |-> found, hashes |-> hashes, agents |-> agents]
    BY <1>9 DEF Stop, Refuse
  <2>2. CASE found = Disturbed
    BY <1>r, <1>l, <2>1, <2>2
  <2>3. CASE found # Disturbed
    <3>1. Settled(found, hashes, agents)
      BY <1>0, <2>1, <2>3 DEF ServedInv
    <3>2. last'.disk = found /\ last'.hashes = hashes /\ last'.agents = agents
      BY <2>1, <2>3
    <3>3. LastInv'
      BY <3>1, <3>2 DEF LastInv
    <3> QED BY <1>r, <2>1, <3>3
  <2> QED BY <2>2, <2>3
<1>10. CASE Edit
  <2>1. UNCHANGED <<phase, todo, agents, hashes, found, last>> /\ (phase \in Booting => touched')
    BY <1>10, Zenon DEF Edit
  <2>2. ServedInv'
    BY <1>0, <2>1 DEF ServedInv
  <2> QED BY <1>t, <1>l, <2>1, <2>2 DEF PrintInv, ParsingInv, HashingInv, ReadInv, Booting
<1>11. CASE UNCHANGED vars
  <2>1. Listed' = Listed
    BY <1>11 DEF vars, disk, Listed
  <2> QED BY <1>0, <1>t, <1>l, <1>11, <2>1
          DEF vars, disk, PrintInv, ParsingInv, HashingInv, ReadInv, ServedInv
<1> QED BY <1>1, <1>2, <1>3, <1>4, <1>5, <1>6, <1>7, <1>8, <1>9, <1>10, <1>11 DEF Next, BootStep

(* A manifest shows what is enforced: no limit of an agent is left out of it. *)
LEMMA ManifestShows ==
  ASSUME NEW a, NEW b, Manifest(a) = Manifest(b) PROVE Enforced(a) = Enforced(b)
<1>1. /\ Manifest(a).capacity = a.capacity /\ Manifest(a).domains = a.policies
      /\ Manifest(a).rate = a.rate /\ Manifest(a).window = a.window
  BY DEF Manifest
<1>2. /\ Manifest(b).capacity = b.capacity /\ Manifest(b).domains = b.policies
      /\ Manifest(b).rate = b.rate /\ Manifest(b).window = b.window
  BY DEF Manifest
<1> QED BY <1>1, <1>2 DEF Enforced

(* Two settled boots with one set of files have one list of hashes.           *)
LEMMA SettledHashes ==
  ASSUME NEW d, NEW hs, NEW them, Settled(d, hs, them),
         NEW e, NEW gs, NEW others, Settled(e, gs, others), d[2] = e[2]
  PROVE  hs = gs
  BY HashesOfOneDisk DEF Settled

(* And with one list of hashes and one [slime] section they have one set of   *)
(* agents, where a table has one reading.                                    *)
LEMMA SettledAgents ==
  ASSUME NEW d, NEW e, NEW hs, NEW them, Settled(d, hs, them),
         NEW others, Settled(e, hs, others), d[1] = e[1],
         \A i \in DOMAIN hs : Unambiguous(hs[i].domains),
         hs = <<>> /\ d[1].slime # NoSection => Unambiguous(d[1].slime.domains)
  PROVE  them = others
<1>1. CASE hs = <<>>
  <2>1. /\ d[1].slime # NoSection
        /\ \E a \in them : them = {a} /\ Makes(DefaultAgent(d[1].slime), a)
        /\ \E b \in others : others = {b} /\ Makes(DefaultAgent(d[1].slime), b)
    BY <1>1, SomeHash DEF Settled
  <2>2. Unambiguous(DefaultAgent(d[1].slime).domains)
    <3>1. DefaultAgent(d[1].slime).domains = d[1].slime.domains
      BY DEF DefaultAgent
    <3> QED BY <1>1, <2>1, <3>1
  <2> QED BY <2>1, <2>2, OneReading
<1>2. CASE hs # <<>>
  <2>1. /\ HashesOf(d[2], hs, ListedIn(d[2])) /\ AgentsOf(d[2], them, ListedIn(d[2]))
        /\ HashesOf(e[2], hs, ListedIn(e[2])) /\ AgentsOf(e[2], others, ListedIn(e[2]))
    BY <1>2 DEF Settled
  <2>2. them \subseteq others /\ others \subseteq them
    BY <2>1, AgentsTold
  <2> QED BY <2>2
<1> QED BY <1>1, <1>2

(* The hashes of a boot that nothing disturbed depend on the files alone, and *)
(* tell what is enforced; the manifest shows all that is.                    *)
THEOREM FingerprintsAreTrue == Spec => []FingerprintsTell
<1>1. Init => PrintInv
  <2> SUFFICES ASSUME Init PROVE PrintInv
    OBVIOUS
  <2>1. TypeOK /\ phase = "down" /\ last = NoBoot
    BY TypeInit DEF Init
  <2> QED BY <2>1 DEF PrintInv, ParsingInv, HashingInv, ReadInv, ServedInv, LastInv
<1>2. PrintInv => FingerprintsTell
  <2> SUFFICES ASSUME PrintInv, phase = "serving", last # NoBoot PROVE FingerprintsTell
    BY DEF FingerprintsTell
  <2>1. Settled(last.disk, last.hashes, last.agents)
    BY DEF PrintInv, LastInv
  <2>2. ASSUME found # Disturbed PROVE Settled(found, hashes, agents) /\ read = found[1]
    BY <2>2, TypeParts DEF PrintInv, ServedInv, HistOK
  <2>3. ASSUME found # Disturbed, found[2] = last.disk[2] PROVE hashes = last.hashes
    BY <2>1, <2>2, <2>3, SettledHashes
  <2>4. ASSUME found # Disturbed, hashes = last.hashes, read = last.disk[1], NoneAmbiguous
        PROVE  agents = last.agents
    BY <2>1, <2>2, <2>4, SettledAgents DEF NoneAmbiguous
  <2> QED BY <2>3, <2>4, ManifestShows DEF FingerprintsTell
<1> QED BY <1>1, <1>2, PrintInvNext, PTL DEF Spec
=============================================================================
