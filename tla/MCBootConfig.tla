----------------------------- MODULE MCBootConfig -----------------------------
(* Two agent files, of four contents: two of one agent, of which one has a    *)
(* limit above its capacity, one of an agent with a secret whose two keys name *)
(* one domain, and one that is no table.  One set of main files knows one     *)
(* domain, the other both, and has a [slime] section.                        *)
EXTENDS BootConfig, TLC

Policy(enabled, limit) == [enabled |-> enabled, limit |-> limit]
Key(domain, spelling) == [domain |-> domain, spelling |-> spelling]
Table(id, capacity, secret, domains) ==
    [id |-> id, capacity |-> capacity, rate |-> 1, window |-> 1, secret |-> secret, domains |-> domains]

Long == [length |-> 32]
Write1 == [k \in {Key("write", ".")} |-> Policy(TRUE, 1)]
Write2 == [k \in {Key("write", "_")} |-> Policy(TRUE, 2)]
Twice  == [k \in {Key("exec", "."), Key("exec", "_")} |-> Policy(k.spelling = "_", 1)]

MCAgentContents ==
    {Table("a", 1, NoSecret, Write1), Table("a", 1, NoSecret, Write2),
     Table("b", 1, Long, Twice), Unparsable}

MCMainConfigs ==
    {[sound |-> TRUE, binaries |-> TRUE, mappings |-> ("file_write" :> "write"), slime |-> NoSection],
     [sound |-> TRUE, binaries |-> TRUE, slime |-> [capacity |-> 1, domains |-> Twice],
      mappings |-> ("file_write" :> "write" @@ "shell_exec" :> "exec")]}
=============================================================================
