------------------------------ MODULE MCParts ------------------------------
(***************************************************************************)
(* The parts of the panel that share no state with one another, each with  *)
(* instances of its own: part says which of them a behaviour is of, and    *)
(* the variables of the others keep an initial value.                      *)
(***************************************************************************)
EXTENDS MCPrefixes, Inventory, Discovery, Backup, LocalTime, Access,
        DeviceLease, TLC

CONSTANTS Parts,
          c1, c2, c3, s1, s2, s3, h1, h2, lan  \* codes, numbers, hosts, domain

VARIABLE part

-----------------------------------------------------------------------------
(* Files of the inventory.                                                 *)

Entry(c, s, h, on) == [code |-> c, store |-> s, hostname |-> h, enabled |-> on, valid |-> TRUE]

File(devices, members) == [domain |-> lan, devices |-> devices, members |-> members]

FirstYaml == File(<<Entry(c1, s1, <<h1>>, TRUE), Entry(c2, s2, <<h2>>, TRUE)>>, {s1})

(* The same Pis the other way round; the numbers the other way round; a    *)
(* store renamed (a new code for its number); a store gone; a number       *)
(* passed down the line, in the order that frees it first and in the       *)
(* other; and files to refuse: a number twice, a host twice under two      *)
(* spellings, an entry that is not valid, a group with an unknown store.   *)
Files ==
  {FirstYaml,
   File(<<Entry(c1, s1, <<h2>>, TRUE), Entry(c2, s2, <<h1>>, TRUE)>>, {s2}),
   File(<<Entry(c1, s2, <<h1>>, TRUE), Entry(c2, s1, <<h2>>, TRUE)>>, {s1}),
   File(<<Entry(c3, s1, <<h1>>, TRUE), Entry(c2, s2, <<h2>>, TRUE)>>, {s1}),
   File(<<Entry(c2, s2, <<h1>>, TRUE)>>, {}),
   File(<<Entry(c3, s3, <<h1>>, TRUE), Entry(c2, s2, <<h2>>, FALSE)>>, {s3, s2}),
   File(<<Entry(c1, s3, <<h1>>, TRUE), Entry(c2, s1, <<h2>>, TRUE)>>, {}),
   File(<<Entry(c2, s1, <<h2>>, TRUE), Entry(c1, s3, <<h1>>, TRUE)>>, {}),
   File(<<Entry(c1, s1, <<h1>>, TRUE), Entry(c2, s1, <<h2>>, TRUE)>>, {}),
   File(<<Entry(c1, s1, <<h1>>, TRUE), Entry(c2, s2, <<h1, lan>>, TRUE)>>, {}),
   File(<<Entry(c1, s1, <<h1>>, TRUE), [Entry(c2, s2, <<h2>>, TRUE) EXCEPT !.valid = FALSE]>>, {}),
   File(<<Entry(c1, s1, <<h1>>, TRUE)>>, {s2})}

-----------------------------------------------------------------------------
(* Pis and servers to search.                                              *)

Node(path, kind) == [path |-> path, kind |-> kind]
Value(kind, path) == [kind |-> kind, path |-> path]

(* A Pi in chroot: the scripts name the folder from the real root, through *)
(* $HOME and by a link; one more names a folder that is not there.         *)
Scripted ==
  [login |-> <<>>, home |-> <<"home">>, path |-> Nothing,
   nodes |-> {Node(<<"Videos">>, "dir"), Node(<<"Videos", "a.mp4">>, "video"),
              Node(<<"play.sh">>, "script"), Node(<<"bin">>, "dir"),
              Node(<<"bin", "old.sh">>, "script"), Node(<<"vids">>, "link"),
              Node(<<".trash">>, "dir"), Node(<<".trash", "x.sh">>, "script")},
   to |-> (<<"vids">> :> <<"Videos">>), big |-> {},
   says |-> (<<"play.sh">> :> <<Value("absolute", <<"home", "Videos">>), Value("variable", <<>>)>>
          @@ <<"bin", "old.sh">> :> <<Value("home", <<"vids">>), Value("absolute", <<"gone">>)>>
          @@ <<".trash", "x.sh">> :> <<Value("home", <<".trash">>)>>)]

(* Not in chroot, two folders named, one of them relative; a script too    *)
(* big to be one.                                                          *)
Two ==
  [login |-> <<"home">>, home |-> <<"home">>, path |-> Nothing,
   nodes |-> {Node(<<"home">>, "dir"), Node(<<"home", "Videos">>, "dir"),
              Node(<<"home", "Videos", "a.mp4">>, "video"), Node(<<"mnt">>, "dir"),
              Node(<<"home", "play.sh">>, "script"), Node(<<"home", "big.sh">>, "script"),
              Node(<<"home", "start.sh">>, "script")},
   to |-> <<>>, big |-> {<<"home", "big.sh">>},
   says |-> (<<"home", "play.sh">> :> <<Value("relative", <<"Videos">>)>>
          @@ <<"home", "start.sh">> :> <<Value("absolute", <<"mnt">>)>>
          @@ <<"home", "big.sh">> :> <<Value("absolute", <<>>)>>)]

(* No script: videos two and three levels down, in a hidden folder and     *)
(* behind a link.                                                          *)
Bare ==
  [login |-> <<>>, home |-> <<"home">>, path |-> Nothing,
   nodes |-> {Node(<<"a">>, "dir"), Node(<<"a", "b">>, "dir"), Node(<<"a", "b", "x.mp4">>, "video"),
              Node(<<"a", "b", ".y.mp4">>, "video"),
              Node(<<"a", "b", "c">>, "dir"), Node(<<"a", "b", "c", "x.mp4">>, "video"),
              Node(<<".old">>, "dir"), Node(<<".old", "x.mp4">>, "video"),
              Node(<<"l">>, "link"), Node(<<"d">>, "dir"), Node(<<"d", "y.mp4">>, "video")},
   to |-> (<<"l">> :> <<"a", "b">>), big |-> {}, says |-> <<>>]

(* None either, and more folders than a scan lists.                        *)
Wide == [Bare EXCEPT !.nodes = {Node(<<"a">>, "dir"), Node(<<"a", "b">>, "dir"), Node(<<"d">>, "dir"),
                                Node(<<"e">>, "dir"),
                                Node(<<"f">>, "dir"), Node(<<"f", "x.mp4">>, "video")}, !.to = <<>>]

Configured == [Scripted EXCEPT !.path = Value("absolute", <<"home", "vids">>)]

Misconfigured == [Scripted EXCEPT !.path = Value("absolute", <<"srv">>)]

SomePis == {Scripted, Two, Bare, Wide, Configured, Misconfigured}

(* vsftpd; a server with MLSD; one that takes -a for a name; one that      *)
(* lists nothing.                                                          *)
SomeDialects ==
  {[mlsd |-> "no", all |-> "ok", plain |-> "ok"], [mlsd |-> "ok", all |-> "ok", plain |-> "ok"],
   [mlsd |-> "refused", all |-> "literal", plain |-> "ok"],
   [mlsd |-> "no", all |-> "refused", plain |-> "ok"],
   [mlsd |-> "no", all |-> "refused", plain |-> "refused"]}

-----------------------------------------------------------------------------
(* Time zones.                                                             *)

Change(at, before, after) == [at |-> at, before |-> before, after |-> after]
(* Hours of four seconds: no change, forward, back, both. *)
SomeZones == {[base |-> 0, changes |-> <<>>],
  [base |-> 0, changes |-> <<Change(20, 0, 4)>>],
  [base |-> 4, changes |-> <<Change(20, 4, 0)>>],
  [base |-> 0, changes |-> <<Change(4, 0, 4), Change(36, 4, 0)>>]}
AllInstants == -8 .. 60

-----------------------------------------------------------------------------
partsVars == <<part, prefixesVars, inventoryVars, discoveryVars, backupVars, localTimeVars, accessVars,
              leaseVars>>

Init ==
  /\ part \in Parts
  /\ PrefixesInit
  /\ part # "prefixes" => current = <<>>
  /\ InventoryInit
  /\ DiscoveryInit
  /\ part # "discovery" => pi = Bare /\ server = CHOOSE dialect \in Dialects : TRUE
  /\ BackupInit
  /\ LocalTimeInit
  /\ part # "time" => zone = CHOOSE z \in Zones : TRUE
  /\ AccessInit
  /\ part # "access" => admins = {}
  /\ LeaseInit

InventoryStep(step) ==
  /\ part = "inventory"
  /\ step
  /\ UNCHANGED <<part, prefixesVars, discoveryVars, backupVars, localTimeVars, accessVars, leaseVars>>

LeaseStep(step) ==
  /\ part = "lease"
  /\ step
  /\ UNCHANGED <<part, prefixesVars, inventoryVars, discoveryVars, backupVars, localTimeVars, accessVars>>

Next ==
  \/ part = "prefixes" /\ PrefixesNext
     /\ UNCHANGED <<part, inventoryVars, discoveryVars, backupVars, localTimeVars, accessVars, leaseVars>>
  \/ InventoryStep(InventoryNext)
  \/ part = "discovery" /\ DiscoveryNext
     /\ UNCHANGED <<part, prefixesVars, inventoryVars, backupVars, localTimeVars, accessVars, leaseVars>>
  \/ part = "backup" /\ BackupNext
     /\ UNCHANGED <<part, prefixesVars, inventoryVars, discoveryVars, localTimeVars, accessVars, leaseVars>>
  \/ part = "time" /\ LocalTimeNext
     /\ UNCHANGED <<part, prefixesVars, inventoryVars, discoveryVars, backupVars, accessVars, leaseVars>>
  \/ part = "access" /\ AccessNext
     /\ UNCHANGED <<part, prefixesVars, inventoryVars, discoveryVars, backupVars, localTimeVars, leaseVars>>
  \/ LeaseStep(LeaseNext)

(* What goes on: the worker's load, until it is up, and any other that has *)
(* begun; time, the live processes, which start cycles again and again     *)
(* (the scheduler) and get on with the one they are in.                    *)
Spec ==
  /\ Init
  /\ [][Next]_partsVars
  /\ WF_partsVars(InventoryStep(Load("worker")))
  /\ WF_partsVars(InventoryStep(GoesOn("cli")))
  /\ WF_partsVars(LeaseStep(Tick))
  /\ \A p \in Owners : WF_partsVars(LeaseStep(Acquire(p))) /\ WF_partsVars(LeaseStep(CycleStep(p)))

(* Every part keeps to its types.                                          *)
PartsTypeOK ==
  InventoryTypeOK /\ DiscoveryTypeOK /\ BackupTypeOK /\ LocalTimeTypeOK /\ AccessTypeOK
    /\ LeaseTypeOK
=============================================================================
