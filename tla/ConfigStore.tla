----------------------------- MODULE ConfigStore -----------------------------
(***************************************************************************)
(* The two files of the configuration directory, config.conf and           *)
(* state.json (core/store.go), and the operations that write them while    *)
(* the daemon runs: Reload, the two branches of panelImport and the CLI's  *)
(* cmdImport.  The writers are control-socket goroutines, HTTP goroutines  *)
(* of the panel and other processes; no lock orders them, so every file    *)
(* operation is a step of its own.                                         *)
(*                                                                         *)
(* A configuration is a number, the serial number of the download (or      *)
(* paste) it came from.  Missing is no file: LoadConfig fails.  Blank is a *)
(* file created and not written: LoadConfig parses it, into a              *)
(* configuration without TURN settings.  Of state.json the access token    *)
(* is kept, the number of the import that obtained it; NoToken is a state  *)
(* without one, Torn a file that has been emptied and not filled, or is no *)
(* JSON, which LoadState takes for an empty state.                         *)
(***************************************************************************)
EXTENDS Integers

CONSTANTS
  Handlers,   \* concurrent callers of Reload, panelImport and cmdImport
  MaxVer      \* bound: configurations obtained in a behaviour

ASSUME MaxVerAssumption == MaxVer \in Nat

VARIABLES
  config,     \* what config.conf holds
  token,      \* State.AccessToken in state.json
  reconnect,  \* daemon.reconnect, a channel of capacity 1
  handler,    \* [Handlers -> the running operation]
  serial,     \* configurations obtained so far
  orphan,     \* an import saved config.conf and then gave up
  imported    \* history: the token of the last import that saved its state

storeVars == <<config, token, reconnect, handler, serial, orphan, imported>>

Missing == 0
Blank == MaxVer + 1
Configs == 0..MaxVer + 1

NoToken == 0
Torn == -1
Tokens == 0..MaxVer

Idle == [pc |-> "idle", ver |-> 0, keeps |-> FALSE, here |-> FALSE]

HandlerType ==
  [pc : {"idle", "save", "create", "write", "state", "stateSave",
         "stateFill", "trigger"},
   ver : 0..MaxVer,
   keeps : BOOLEAN,  \* an import: it has a token to save as well
   here : BOOLEAN]   \* its open file is config.conf, not a renamed one

StoreTypeOK ==
  /\ config \in Configs
  /\ token \in Tokens \cup {Torn}
  /\ reconnect \in BOOLEAN
  /\ handler \in [Handlers -> HandlerType]
  /\ serial \in 0..MaxVer
  /\ orphan \in BOOLEAN
  /\ imported \in Tokens \cup {Torn}

(* A router that has been set up by the first import, or not yet.          *)
StoreInit ==
  /\ serial \in {0, 1} \cap 0..MaxVer
  /\ config = serial
  /\ token = serial
  /\ reconnect = FALSE
  /\ handler = [h \in Handlers |-> Idle]
  /\ orphan = FALSE
  /\ imported = token

(* The handler is past SaveConfig and has not yet asked for a reconnect.   *)
Announcing(h) ==
  handler[h].pc \in {"state", "stateSave", "stateFill", "trigger"}

(* What LoadState returns of state.json.                                   *)
TokenRead == IF token = Torn THEN NoToken ELSE token

-----------------------------------------------------------------------------
(* The download.  A failed one returns its error and changes nothing.      *)
Begin(h, keeps) ==
  /\ handler[h].pc = "idle"
  /\ serial < MaxVer
  /\ serial' = serial + 1
  /\ handler' = [handler EXCEPT ![h] =
       [Idle EXCEPT !.pc = "save", !.ver = serial + 1, !.keeps = keeps]]
  /\ UNCHANGED <<config, token, reconnect, orphan, imported>>

(* LoadState, then FetchConfig with the stored token; without one Reload   *)
(* fails at once.                                                          *)
ReloadFetch(h) == TokenRead # NoToken /\ Begin(h, FALSE)

(* InitFromToken: a configuration and a new access token.                  *)
ImportFetch(h) == Begin(h, TRUE)

(* panelImport with the text of a .conf that ParseConfBytes accepts.       *)
ConfPaste(h) == Begin(h, FALSE)

-----------------------------------------------------------------------------
(* SaveConfig: Stat and Rename to .bak, which also takes away the file     *)
(* another writer has open; then WriteFile, which creates the file (or     *)
(* truncates the one it finds) and fills it.                               *)
SaveRename(h) ==
  /\ handler[h].pc = "save"
  /\ config' = Missing
  /\ handler' = [x \in Handlers |->
                   IF x = h THEN [handler[h] EXCEPT !.pc = "create"]
                            ELSE [handler[x] EXCEPT !.here = FALSE]]
  /\ UNCHANGED <<token, reconnect, serial, orphan, imported>>

SaveCreate(h) ==
  /\ handler[h].pc = "create"
  /\ config' = Blank
  /\ handler' = [handler EXCEPT ![h].pc = "write", ![h].here = TRUE]
  /\ UNCHANGED <<token, reconnect, serial, orphan, imported>>

SaveWrite(h) ==
  /\ handler[h].pc = "write"
  /\ config' = IF handler[h].here THEN handler[h].ver ELSE config
  /\ handler' = [handler EXCEPT ![h].pc =
                   IF handler[h].keeps THEN "state" ELSE "trigger"]
  /\ UNCHANGED <<token, reconnect, serial, orphan, imported>>

(* WriteFile fails to create the file or to fill it.  The caller returns   *)
(* the error; the previous configuration stays in .bak.                    *)
SaveFails(h) ==
  /\ handler[h].pc \in {"create", "write"}
  /\ handler' = [handler EXCEPT ![h] = Idle]
  /\ UNCHANGED <<config, token, reconnect, serial, orphan, imported>>

-----------------------------------------------------------------------------
(* os.WriteFile on state.json: the file is emptied and then filled.  Over  *)
(* what another writer has filled in since, the result need not be JSON.   *)
FillState(t) ==
  \/ token' = t
  \/ token # Torn /\ token' = Torn

(* LoadState of an import: the fields it keeps are not followed here.      *)
ImportLoadState(h) ==
  /\ handler[h].pc = "state"
  /\ handler' = [handler EXCEPT ![h].pc = "stateSave"]
  /\ UNCHANGED <<config, token, reconnect, serial, orphan, imported>>

ImportTruncateState(h) ==
  /\ handler[h].pc = "stateSave"
  /\ token' = Torn
  /\ handler' = [handler EXCEPT ![h].pc = "stateFill"]
  /\ UNCHANGED <<config, reconnect, serial, orphan, imported>>

ImportSaveState(h) ==
  /\ handler[h].pc = "stateFill"
  /\ FillState(handler[h].ver)
  /\ imported' = token'
  /\ handler' = [handler EXCEPT ![h].pc = "trigger"]
  /\ UNCHANGED <<config, reconnect, serial, orphan>>

(* SaveState fails to open the file or to fill it: cmdImport exits and     *)
(* panelImport returns, both without the reconnect, although the new       *)
(* config.conf is in place.  What the file then holds is all there is.     *)
ImportSaveStateFails(h) ==
  /\ \/ handler[h].pc = "stateSave" /\ UNCHANGED imported
     \/ handler[h].pc = "stateFill" /\ imported' = token
  /\ handler' = [handler EXCEPT ![h] = Idle]
  /\ orphan' = TRUE
  /\ UNCHANGED <<config, token, reconnect, serial>>

(* triggerReconnect: a non-blocking send on a channel of capacity 1.       *)
TriggerReconnect(h) ==
  /\ handler[h].pc = "trigger"
  /\ reconnect' = TRUE
  /\ handler' = [handler EXCEPT ![h] = Idle]
  /\ UNCHANGED <<config, token, serial, orphan, imported>>

(* Controller.Reconnect on its own: the panel's button, the RECONNECT      *)
(* command, the watchdog's onDead.                                         *)
AskReconnect ==
  /\ reconnect' = TRUE
  /\ UNCHANGED <<config, token, handler, serial, orphan, imported>>

HandlerStep(h) ==
  \/ SaveRename(h) \/ SaveCreate(h) \/ SaveWrite(h) \/ SaveFails(h)
  \/ ImportLoadState(h) \/ ImportTruncateState(h) \/ ImportSaveState(h)
  \/ ImportSaveStateFails(h)
  \/ TriggerReconnect(h)

HandlerBegin(h) == ReloadFetch(h) \/ ImportFetch(h) \/ ConfPaste(h)
==============================================================================
