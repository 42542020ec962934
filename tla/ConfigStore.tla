---- MODULE ConfigStore ----
(***************************************************************************)
(* The list of bypass domains in its three places: the configuration in    *)
(* memory (config.go), the file it is saved to and loaded from, and the    *)
(* form of the window, which sends its whole list back when the user       *)
(* saves (ipc.go, assets/ui.html).                                         *)
(*                                                                         *)
(* updateConfig changes the configuration under a lock and saves it        *)
(* afterwards; goroutines that have found a blocked host and the window's  *)
(* thread do so side by side.  The other settings are left out, except     *)
(* that they change how long the file is.                                  *)
(***************************************************************************)
EXTENDS Naturals, Sequences

CONSTANTS
    Hosts,          \* the domains
    Defaults,       \* defaultBypassDomains
    Finders,        \* the goroutines that may find blocked hosts at a time
    UI,             \* the window's thread
    MaxQueue        \* bound on the scripts that wait for the window's thread

ASSUME ConfigAssumption ==
    /\ Defaults \subseteq Hosts
    /\ UI \notin Finders
    /\ MaxQueue \in Nat

VARIABLES
    list,           \* current.BypassDomains
    file,           \* the file: its list, and whether it can be parsed at all
    at,             \* where each thread is in its update
    found,          \* the host each finder adds; None unless it has changed the list
    data,           \* what each thread is about to write, or to send to the form
    form,           \* the lines of the text area
    filled,         \* the form has been filled with settings before
    queue,          \* scripts dispatched to the window's thread and not run
    message,        \* the message of the window under way, and the list it carries
    removed,        \* history: what the user has taken out of the form
    missed,         \* history: added while the settings for the form were being collected
    clean           \* history: no save since the last lone one has met another

vars == <<list, file, at, found, data, form, filled, queue, message, removed, missed, clean>>
windowVars == <<form, filled, queue, message, removed, missed>>

Threads == Finders \cup {UI}
None == "none"

ASSUME NoneAssumption == None \notin Hosts

Lists == SUBSET Hosts
Scripts == [script : {"append", "load"}, list : Lists]

TypeOK ==
    /\ list \in Lists
    /\ file \in [content : {"whole", "empty", "torn"}, list : Lists]
    /\ at \in [Threads -> {"idle", "read", "truncate", "write", "dispatch"}]
    /\ found \in [Finders -> Hosts \cup {None}]
    /\ data \in [Threads -> Lists]
    /\ form \in Lists
    /\ filled \in BOOLEAN
    /\ queue \in Seq(Scripts) /\ Len(queue) <= MaxQueue
    /\ message \in [type : {None, "saveSettings", "requestSettings"}, list : Lists]
    /\ removed \in Lists
    /\ missed \in Lists
    /\ clean \in BOOLEAN

\* loadConfig: what cannot be parsed is ignored as a whole.
Loads(f) == IF f.content = "whole" THEN f.list ELSE Defaults

Silent == [type |-> None, list |-> {}]

Init ==
    /\ file = [content |-> "empty", list |-> {}]
    /\ list = Defaults
    /\ at = [t \in Threads |-> "idle"]
    /\ found = [t \in Finders |-> None]
    /\ data = [t \in Threads |-> {}]
    /\ form = {}
    /\ filled = FALSE
    /\ queue = <<>>
    /\ message = Silent
    /\ removed = {}
    /\ missed = {}
    /\ clean = TRUE

Busy == {t \in Threads : at[t] \in {"read", "truncate", "write"}}
Goto(t, place) == at' = [at EXCEPT ![t] = place]

----------------------------------------------------------------------------
(* updateConfig and saveConfig *)

\* Mutant: the configuration is encoded before it is changed.
UpdateLate(t, l) ==
    /\ at[t] = "idle"
    /\ list' = l
    /\ Goto(t, "truncate")
    /\ data' = [data EXCEPT ![t] = list]
    /\ clean' = (Busy = {})
    /\ UNCHANGED file

\* The configuration is changed under the lock; everything else comes after it.
Update(t, l) ==
    /\ at[t] = "idle"
    /\ list' = l
    /\ Goto(t, "read")
    /\ clean' = (Busy = {})
    /\ UNCHANGED <<file, data>>

\* saveConfig reads and encodes the configuration as it is by now.
SaveReads(t) ==
    /\ at[t] = "read"
    /\ data' = [data EXCEPT ![t] = list]
    /\ Goto(t, "truncate")
    /\ UNCHANGED <<list, file, found, windowVars, clean>>

\* os.WriteFile opens the file, which truncates it, or fails to.
SaveTruncates(t) ==
    /\ at[t] = "truncate"
    /\ file' = [content |-> "empty", list |-> {}]
    /\ Goto(t, "write")
    /\ UNCHANGED <<list, found, data, windowVars, clean>>

\* The save is over: a finder that has added its host tells the window, others are done.
Saved(t) ==
    /\ data' = [data EXCEPT ![t] = {}]
    /\ Goto(t, IF t \in Finders /\ found[t] # None THEN "dispatch" ELSE "idle")

\* It writes from the beginning of the file.  If another has written since the file was
\* truncated, and more, the end of that remains.
SaveWrites(t) ==
    /\ at[t] = "write"
    /\ Saved(t)
    /\ \/ file' = [content |-> "whole", list |-> data[t]]
       \/ file.content # "empty" /\ file' = [content |-> "torn", list |-> {}]
    /\ UNCHANGED <<list, found, windowVars, clean>>

\* A file that cannot be opened is left as it is; its error is only logged.
SaveFails(t) ==
    /\ at[t] = "truncate"
    /\ Saved(t)
    /\ clean' = FALSE
    /\ UNCHANGED <<list, file, found, windowVars>>

----------------------------------------------------------------------------
(* addBlockedHost *)

\* A goroutine adds the host it has found, unless it is listed; it saves in any case.
AddBlockedHost(t, h) ==
    /\ t \in Finders
    /\ Update(t, list \cup {h})
    /\ found' = [found EXCEPT ![t] = IF h \in list THEN None ELSE h]
    /\ UNCHANGED windowVars

\* Mutant: the window is not told.
TellNothing(t) ==
    /\ t \in Finders /\ at[t] = "dispatch"
    /\ found' = [found EXCEPT ![t] = None]
    /\ Goto(t, "idle")
    /\ UNCHANGED <<list, file, data, windowVars, clean>>

\* appendBypassDomain is dispatched to the window.
TellWindow(t) ==
    /\ t \in Finders /\ at[t] = "dispatch"
    /\ Len(queue) < MaxQueue
    /\ queue' = Append(queue, [script |-> "append", list |-> {found[t]}])
    /\ found' = [found EXCEPT ![t] = None]
    /\ Goto(t, "idle")
    /\ UNCHANGED <<list, file, data, form, filled, message, removed, missed, clean>>

----------------------------------------------------------------------------
(* The window *)

\* The user opens the panel of settings, waits till it is filled, edits it, and saves.
OpenPanel ==
    /\ message = Silent
    /\ message' = [type |-> "requestSettings", list |-> {}]
    /\ UNCHANGED <<list, file, at, found, data, form, filled, queue, removed, missed, clean>>

Ready ==
    /\ filled
    /\ message.type # "requestSettings" /\ at[UI] # "dispatch"
    /\ \A i \in DOMAIN queue : queue[i].script # "load"

EditForm(h) ==
    /\ Ready
    /\ \/ h \in form /\ form' = form \ {h} /\ removed' = removed \cup {h}
       \/ h \notin form /\ form' = form \cup {h} /\ removed' = removed \ {h}
    /\ UNCHANGED <<list, file, at, found, data, filled, queue, message, missed, clean>>

PressSave ==
    /\ Ready
    /\ message = Silent
    /\ message' = [type |-> "saveSettings", list |-> form]
    /\ UNCHANGED <<list, file, at, found, data, form, filled, queue, removed, missed, clean>>

\* saveSettings: the list of the message replaces the one in memory.
HandleSave ==
    /\ message.type = "saveSettings"
    /\ Update(UI, message.list)
    /\ message' = Silent
    /\ UNCHANGED <<found, form, filled, queue, removed, missed>>

\* setTheme changes another field and saves.
HandleTheme ==
    /\ Update(UI, list)
    /\ UNCHANGED <<found, windowVars>>

\* pushSettings reads the configuration, and after a look at the registry dispatches it.
HandleRequest ==
    /\ message.type = "requestSettings"
    /\ at[UI] = "idle"
    /\ data' = [data EXCEPT ![UI] = list]
    /\ Goto(UI, "dispatch")
    /\ message' = Silent
    /\ UNCHANGED <<list, file, found, form, filled, queue, removed, missed, clean>>

\* Who has added a host and not told the window yet will do so after this.
Untold == {found[t] : t \in Finders} \ {None}

PushSettings ==
    /\ at[UI] = "dispatch"
    /\ Len(queue) < MaxQueue
    /\ queue' = Append(queue, [script |-> "load", list |-> data[UI]])
    /\ missed' = missed \cup ((list \ data[UI]) \ Untold)
    /\ data' = [data EXCEPT ![UI] = {}]
    /\ Goto(UI, "idle")
    /\ UNCHANGED <<list, file, found, form, filled, message, removed, clean>>

\* The window's thread runs the next script: appendBypassDomain or loadSettings.
RunScript ==
    /\ at[UI] = "idle"
    /\ queue # <<>>
    /\ queue' = Tail(queue)
    /\ LET lines == Head(queue).list IN
       \/ /\ Head(queue).script = "append"
          /\ form' = form \cup lines /\ removed' = removed \ lines /\ UNCHANGED filled
       \/ /\ Head(queue).script = "load"
          /\ form' = lines /\ removed' = {} /\ filled' = TRUE
    /\ UNCHANGED <<list, file, at, found, data, message, missed, clean>>

----------------------------------------------------------------------------

\* The program ends, at whatever point, and starts again.
Boot ==
    /\ list' = Loads(file)
    /\ at' = [t \in Threads |-> "idle"]
    /\ found' = [t \in Finders |-> None]
    /\ data' = [t \in Threads |-> {}]
    /\ form' = {} /\ filled' = FALSE
    /\ queue' = <<>> /\ message' = Silent
    /\ removed' = {} /\ missed' = {}
    /\ clean' = TRUE
    /\ UNCHANGED file

Next ==
    \/ \E t \in Threads : SaveReads(t) \/ SaveTruncates(t) \/ SaveWrites(t) \/ SaveFails(t)
    \/ \E t \in Finders : TellWindow(t) \/ \E h \in Hosts : AddBlockedHost(t, h)
    \/ OpenPanel \/ PressSave \/ \E h \in Hosts : EditForm(h)
    \/ HandleSave \/ HandleTheme \/ HandleRequest \/ PushSettings \/ RunScript
    \/ Boot

Spec == Init /\ [][Next]_vars

----------------------------------------------------------------------------
(* Properties *)

\* When nobody is saving, the next run of the program will load the list this one has,
\* unless saves have met (or failed) and no later one has been made alone.
NextRunHasList == Busy = {} /\ clean => Loads(file) = list

\* The form the user will save next lacks a listed domain only because the user took it
\* out, or it was added just when the settings were collected: what the engine adds is
\* on the way to the form, whatever else is sent there.
ListedAreShown ==
    Ready =>
        list \subseteq form \cup (UNION {queue[i].list : i \in DOMAIN queue})
                     \cup removed \cup missed \cup Untold

====
