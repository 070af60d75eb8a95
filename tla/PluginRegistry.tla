--------------------------- MODULE PluginRegistry ---------------------------
(* What the constructor of WebPlugin does to the registry                    *)
(* (src/plugin/WebPlugin.cpp): it clears two settings of ACDSee and puts     *)
(* the plug-in's icon on .webp files.  The registry belongs to the user:     *)
(* every process that loads the plug-in runs the constructor on it, step by  *)
(* step, other programs change it, calls fail and processes are killed.      *)
EXTENDS Naturals

CONSTANTS Processes,            \* of ACDSee: viewer, browser
          ProgIDs, WebPImage,   \* the names an association can have; ours
          Unreadable,           \* those RegGetValueA does not return
          None,                 \* no association
          MaxDisturbances       \* how often a call fails, a process is
                                \* killed, or someone else writes

ASSUME RegistryAssumption ==
  /\ Unreadable \subseteq ProgIDs /\ WebPImage \in ProgIDs \ Unreadable
  /\ None \notin ProgIDs /\ MaxDisturbances \in Nat

Settings == {"ViewerSharpen", "ViewerSSReadAhead"}
Associations == ProgIDs \union {None}

VARIABLES settings,     \* ACDSee's, all of them "nokey" where it has no key
          hklm, hkcu,   \* the association of .webp, of the machine and the user
          icon,         \* the DefaultIcon of every ProgID, for the user
          pc,           \* where each process is: "out", "loaded", or at a step
          found,        \* progID of RegisterWebPIcon
          changed,      \* changed of RegisterWebPIcon
          untold,       \* processes with a change Explorer has not heard of
          disturbances

registry == <<settings, hklm, hkcu, icon>>
registryVars == <<registry, pc, found, changed, untold, disturbances>>

-----------------------------------------------------------------------------
(* HKEY_CLASSES_ROOT shows the user's value before the machine's.            *)
ClassesRoot == IF hkcu # None THEN hkcu ELSE hklm

IconIsOurs == ClassesRoot # None /\ icon[ClassesRoot] = "ours"
AsWanted == IconIsOurs /\ \A s \in Settings : settings[s] \in {"zero", "nokey"}

RegistryInit ==
  /\ settings \in [Settings -> {"absent", "on", "zero"}]
                   \union [Settings -> {"nokey"}]
  /\ hklm \in Associations /\ hkcu = None
  /\ icon = [i \in ProgIDs |-> "theirs"]
  /\ pc = [p \in Processes |-> "out"]
  /\ found = [p \in Processes |-> None]
  /\ changed = [p \in Processes |-> FALSE]
  /\ untold = {} /\ disturbances = 0

NotDisturbed == UNCHANGED disturbances
Disturbed == /\ disturbances < MaxDisturbances
             /\ disturbances' = disturbances + 1

Goto(p, step) == pc' = [pc EXCEPT ![p] = step]

(* IDP_Init of a new process.                                                *)
Load(p) == /\ pc[p] = "out"
           /\ Goto(p, "ViewerSharpen")
           /\ found' = [found EXCEPT ![p] = None]
           /\ changed' = [changed EXCEPT ![p] = FALSE]
           /\ untold' = untold \ {p}
           /\ UNCHANGED <<registry, disturbances>>

-----------------------------------------------------------------------------
(* SetRegDWordZero.                                                          *)
\* The slip of creating the key: RegCreateKeyExA for RegOpenKeyExA.
ZeroCreated(value) == "zero"

Zeroed(value) == IF value = "nokey" THEN value ELSE "zero"

SetRegDWordZero(p, s, next) ==
  /\ pc[p] = s
  /\ Goto(p, next)
  /\ \/ /\ settings' = [settings EXCEPT ![s] = Zeroed(settings[s])]
        /\ NotDisturbed
     \/ /\ UNCHANGED settings                          \* a call fails
        /\ Disturbed
  /\ UNCHANGED <<hklm, hkcu, icon, found, changed, untold>>

(* RegisterWebPIcon gathers in changed what its two writes tell.              *)
\* The slip of = for |=.
ChangedNow(before, now) == now

ChangedSoFar(before, now) == before \/ now

WriteReturns(p, tells) ==
  changed' = [changed EXCEPT ![p] = ChangedSoFar(changed[p], tells)]

(* SetRegStringIfChanged puts value over old, tells whether it did, and is   *)
(* silent about a RegSetValueExA that fails.  Nothing but the value it       *)
(* writes depends on the read before, so the two are one step.               *)
SetRegString(p, old, value, new) ==
  \/ /\ new = value /\ WriteReturns(p, old # value)
     /\ untold' = IF old # value THEN untold \union {p} ELSE untold
     /\ NotDisturbed
  \/ /\ new = old /\ \E tells \in BOOLEAN : WriteReturns(p, tells)     \* a call fails
     /\ Disturbed /\ UNCHANGED untold

-----------------------------------------------------------------------------
(* RegisterWebPIcon.                                                         *)
\* The slip of taking an association for a registered icon.
AfterFindingNothingLeft(progID) == IF progID = None THEN "name" ELSE "notify"

AfterFinding(progID) == IF progID = None THEN "name" ELSE "icon"

FindProgID(p) ==
  /\ pc[p] = "find"
  /\ LET progID == IF ClassesRoot \in Unreadable THEN None ELSE ClassesRoot
     IN  \/ /\ found' = [found EXCEPT ![p] = progID]
            /\ Goto(p, AfterFinding(progID))
            /\ NotDisturbed
         \/ /\ found' = [found EXCEPT ![p] = None]      \* the read fails
            /\ Goto(p, "name")
            /\ Disturbed
         \/ /\ Goto(p, "loaded")                \* GetModuleFileNameA fails
            /\ Disturbed /\ UNCHANGED found
  /\ UNCHANGED <<registry, changed, untold>>

CreateAssociation(p) ==
  /\ pc[p] = "name"
  /\ Goto(p, "icon")
  /\ hkcu' \in {hkcu, WebPImage} /\ SetRegString(p, hkcu, WebPImage, hkcu')
  /\ UNCHANGED <<settings, hklm, icon, found>>

SetDefaultIcon(p) ==
  LET target == IF found[p] = None THEN WebPImage ELSE found[p]
  IN  /\ pc[p] = "icon"
      /\ Goto(p, "notify")
      /\ \E new \in {icon[target], "ours"} :
           /\ icon' = [icon EXCEPT ![target] = new]
           /\ SetRegString(p, icon[target], "ours", new)
      /\ UNCHANGED <<settings, hklm, hkcu, found>>

NotifyExplorer(p) ==
  /\ pc[p] = "notify"
  /\ Goto(p, "loaded")
  /\ untold' = IF changed[p] THEN {} ELSE untold
  /\ UNCHANGED <<registry, found, changed, disturbances>>

Constructor(p) == \/ SetRegDWordZero(p, "ViewerSharpen", "ViewerSSReadAhead")
                  \/ SetRegDWordZero(p, "ViewerSSReadAhead", "find")
                  \/ FindProgID(p) \/ CreateAssociation(p) \/ SetDefaultIcon(p)
                  \/ NotifyExplorer(p)

-----------------------------------------------------------------------------
(* The process ends, or is killed in the middle of the constructor.          *)
Exit(p) == /\ pc[p] = "loaded"
           /\ Goto(p, "out")
           /\ UNCHANGED <<registry, found, changed, untold, disturbances>>

Killed(p) == /\ pc[p] \notin {"out", "loaded"}
             /\ Goto(p, "out")
             /\ Disturbed
             /\ UNCHANGED <<registry, found, changed, untold>>

(* Another program takes or drops .webp, or gives its ProgID an icon; the    *)
(* user turns a setting on.                                                  *)
SomeoneWrites ==
  /\ Disturbed
  /\ \/ \E a \in Associations : hkcu' = a /\ UNCHANGED <<settings, hklm, icon>>
     \/ \E a \in Associations : hklm' = a /\ UNCHANGED <<settings, hkcu, icon>>
     \/ \E i \in ProgIDs : icon' = [icon EXCEPT ![i] = "theirs"]
                           /\ UNCHANGED <<settings, hklm, hkcu>>
     \/ \E s \in Settings :
          /\ settings' = [x \in Settings |->
                            IF x = s THEN "on"
                            ELSE IF settings[x] = "nokey" THEN "absent"
                            ELSE settings[x]]
          /\ UNCHANGED <<hklm, hkcu, icon>>
  /\ UNCHANGED <<pc, found, changed, untold>>

RegistryNext ==
  \/ \E p \in Processes : Load(p) \/ Constructor(p) \/ Exit(p) \/ Killed(p)
  \/ SomeoneWrites

(* A process that runs goes through the constructor; nobody has to load it.  *)
RegistrySpec == /\ RegistryInit /\ [][RegistryNext]_registryVars
                /\ \A p \in Processes : WF_registryVars(Constructor(p))

-----------------------------------------------------------------------------
(* Every variable keeps its type, and the constructor never creates ACDSee's *)
(* key: its settings have it all or none.                                    *)
RegistryTypeOK ==
  /\ settings \in [Settings -> {"absent", "on", "zero"}] \union [Settings -> {"nokey"}]
  /\ hklm \in Associations /\ hkcu \in Associations
  /\ icon \in [ProgIDs -> {"ours", "theirs"}]
  /\ pc \in [Processes -> Settings \union {"out", "find", "name", "icon", "notify", "loaded"}]
  /\ found \in [Processes -> Associations] /\ changed \in [Processes -> BOOLEAN]
  /\ untold \subseteq Processes
  /\ disturbances \in 0..MaxDisturbances

(* Explorer has heard of every change of a constructor that ran to its end,  *)
(* also where only the first of its two writes changed something.            *)
ExplorerIsTold == \A p \in Processes : pc[p] = "loaded" => p \notin untold

(* Whatever failed and whoever was killed or interfered, at whatever step:   *)
(* when that is over and ACDSee is started again and again, the settings are *)
(* clear and the icon is the plug-in's, and stay so.                         *)
RepairsItself ==
  []<><<\E p \in Processes : Load(p)>>_registryVars => <>[]AsWanted
=============================================================================
