---- MODULE ConfigStoreProofs ----
(***************************************************************************)
(* What the file holds when nobody writes it, and what the form will show, *)
(* for any hosts, any number of goroutines that find them and any queue of *)
(* scripts: theorems about ConfigStore, with their proofs.                 *)
(***************************************************************************)
EXTENDS ConfigStore, TLAPS

StoreTypes ==
    /\ at \in [Threads -> {"idle", "read", "truncate", "write", "dispatch"}]
    /\ data \in [Threads -> Lists]
    /\ list \in Lists
    /\ file \in [content : {"whole", "empty", "torn"}, list : Lists]

WindowTypes ==
    /\ found \in [Finders -> Hosts \cup {None}]
    /\ queue \in Seq(Scripts)
    /\ message \in [type : {None, "saveSettings", "requestSettings"}, list : Lists]
    /\ form \in Lists

Types == StoreTypes /\ WindowTypes

\* A lone save carries the list the program works with, over the file it has emptied,
\* and a save that has ended alone has left that list behind.
LoneSave ==
    clean =>
        /\ \A s, t \in Busy : s = t
        /\ \A t \in Threads : at[t] \in {"truncate", "write"} => data[t] = list
        /\ \A t \in Threads : at[t] = "write" => file.content = "empty"
        /\ Busy = {} => Loads(file) = list

StoreInv == StoreTypes /\ LoneSave

----------------------------------------------------------------------------
(* The file *)

LEMMA StoreInitially == Init => StoreInv
BY ConfigAssumption
   DEF Init, StoreInv, StoreTypes, LoneSave, Busy, Loads, Lists, Threads

LEMMA UpdateKeeps ==
    ASSUME StoreInv, NEW t \in Threads, NEW l \in Lists, Update(t, l)
    PROVE  StoreInv'
<1>1. StoreTypes'
  BY DEF Update, Goto, StoreInv, StoreTypes
<1>2. ASSUME clean'
      PROVE  /\ Busy' = {t} /\ at'[t] = "read"
             /\ \A s \in Threads : s # t => at'[s] \notin {"truncate", "write"}
  BY <1>2 DEF Update, Goto, StoreInv, StoreTypes, Busy
<1> QED
  BY <1>1, <1>2 DEF StoreInv, LoneSave

LEMMA SaveKeeps ==
    ASSUME StoreInv, NEW t \in Threads,
           SaveReads(t) \/ SaveTruncates(t) \/ SaveWrites(t) \/ SaveFails(t)
    PROVE  StoreInv'
<1> USE DEF StoreInv, StoreTypes, Goto
<1>1. CASE SaveReads(t)
  <2>1. StoreTypes'
    BY <1>1 DEF SaveReads
  <2> QED
    BY <1>1, <2>1 DEF SaveReads, LoneSave, Busy
<1>2. CASE SaveTruncates(t)
  <2>1. StoreTypes'
    BY <1>2 DEF SaveTruncates, Lists
  <2> QED
    BY <1>2, <2>1 DEF SaveTruncates, LoneSave, Busy
<1>3. CASE SaveWrites(t)
  <2>1. StoreTypes'
    BY <1>3 DEF SaveWrites, Saved, Lists
  <2>2. ASSUME clean' PROVE Busy' = {} /\ Loads(file') = list'
    <3>1. clean /\ at[t] = "write" /\ Busy = {t}
      BY <1>3, <2>2 DEF SaveWrites, LoneSave, Busy
    <3>2. file.content = "empty" /\ data[t] = list
      BY <3>1 DEF LoneSave
    <3>3. file' = [content |-> "whole", list |-> list] /\ list' = list
      BY <1>3, <3>2 DEF SaveWrites
    <3>4. Busy' = {}
      BY <1>3, <3>1 DEF SaveWrites, Saved, Busy
    <3> QED
      BY <3>3, <3>4 DEF Loads
  <2> QED
    BY <2>1, <2>2 DEF LoneSave, Busy, Loads
<1>4. CASE SaveFails(t)
  BY <1>4 DEF SaveFails, Saved, LoneSave, Lists
<1> QED
  BY <1>1, <1>2, <1>3, <1>4

\* What the window and the notices do leaves the file alone and saves nothing.
LEMMA WindowKeepsStore ==
    ASSUME StoreInv, NEW t \in Threads,
           at' = at \/ (/\ at[t] \in {"idle", "dispatch"}
                        /\ at' \in {[at EXCEPT ![t] = "idle"], [at EXCEPT ![t] = "dispatch"]}),
           data' = data \/ (/\ at[t] \in {"idle", "dispatch"}
                            /\ \E l \in Lists : data' = [data EXCEPT ![t] = l]),
           UNCHANGED <<list, file, clean>>
    PROVE  StoreInv'
<1>1. StoreTypes'
  BY DEF StoreInv, StoreTypes
<1>2. Busy' = Busy
  BY DEF StoreInv, StoreTypes, Busy
<1>3. \A s \in Threads : at'[s] \in {"truncate", "write"} => at'[s] = at[s] /\ data'[s] = data[s]
  BY DEF StoreInv, StoreTypes
<1> QED
  BY <1>1, <1>2, <1>3 DEF StoreInv, LoneSave, Loads

----------------------------------------------------------------------------
(* The form *)

\* One of the scripts from the i-th on carries the host.
Arrives(h, i) == \E j \in i..Len(queue) : h \in queue[j].list

\* A finder holds a host while it has something to tell.
HeldToTell ==
    \A t \in Finders : /\ at[t] = "idle" => found[t] = None
                       /\ at[t] = "dispatch" => found[t] # None

\* Each load that waits shows the list with what waits behind it.
LoadsComplete ==
    \A i \in 1..Len(queue) : queue[i].script = "load" =>
        \A h \in list : Arrives(h, i) \/ h \in missed \cup Untold

\* So does the form, once it has been filled, but for what the user took out.
FormComplete ==
    filled => \A h \in list : Arrives(h, 1) \/ h \in form \cup removed \cup missed \cup Untold

\* Between the press and the save nothing replaces the form.
SaveIsCurrent ==
    message.type = "saveSettings" =>
        /\ message.list \subseteq form \cup removed
        /\ filled /\ at[UI] # "dispatch"
        /\ \A i \in 1..Len(queue) : queue[i].script # "load"

FormInv ==
    Types /\ HeldToTell /\ LoadsComplete /\ FormComplete /\ SaveIsCurrent

LEMMA FormInitially == Init => FormInv
<1> SUFFICES ASSUME Init PROVE FormInv
  OBVIOUS
<1>1. Types
  BY ConfigAssumption
     DEF Init, Types, StoreTypes, WindowTypes, Lists, Threads, Silent, Scripts
<1>2. HeldToTell /\ LoadsComplete /\ FormComplete /\ SaveIsCurrent
  BY DEF Init, HeldToTell, LoadsComplete, FormComplete, SaveIsCurrent, Silent, None, Threads
<1> QED
  BY <1>1, <1>2 DEF FormInv

\* What is appended comes after all that waited.
LEMMA Appends ==
    ASSUME queue \in Seq(Scripts), NEW e \in Scripts, queue' = Append(queue, e)
    PROVE  /\ \A h : h \in e.list => \A i \in 1..Len(queue') : Arrives(h, i)'
           /\ \A h : \A i \in 1..Len(queue) : Arrives(h, i) => Arrives(h, i)'
           /\ \A h : Arrives(h, 1) => Arrives(h, 1)'
           /\ Len(queue') = Len(queue) + 1 /\ queue'[Len(queue')] = e
           /\ \A i \in 1..Len(queue) : queue'[i] = queue[i]
           /\ Len(queue) \in Nat
BY DEF Arrives

\* When a script has run, those behind it are left.
LEMMA Runs ==
    ASSUME queue \in Seq(Scripts), queue # <<>>, queue' = Tail(queue)
    PROVE  /\ \A h : \A i \in 1..Len(queue') :
                 queue'[i] = queue[i + 1] /\ (Arrives(h, i)' <=> Arrives(h, i + 1))
           /\ \A h : Arrives(h, 1) => Arrives(h, 1)' \/ h \in Head(queue).list
           /\ Len(queue') + 1 = Len(queue) /\ Len(queue') \in Nat
           /\ Head(queue) = queue[1] /\ queue[1] \in Scripts
<1>1. /\ Len(queue) \in Nat \ {0} /\ Len(queue') = Len(queue) - 1
      /\ \A i \in 1..Len(queue') : queue'[i] = queue[i + 1]
      /\ Head(queue) = queue[1] /\ queue[1] \in Scripts
  OBVIOUS
<1>2. ASSUME NEW h, NEW i \in 1..Len(queue')
      PROVE  Arrives(h, i)' <=> Arrives(h, i + 1)
  <2>1. ASSUME NEW j \in i..Len(queue'), h \in queue'[j].list PROVE Arrives(h, i + 1)
    BY <1>1, <2>1 DEF Arrives
  <2>2. ASSUME NEW j \in (i + 1)..Len(queue), h \in queue[j].list PROVE Arrives(h, i)'
    <3>1. (j - 1) \in i..Len(queue') /\ queue'[j - 1] = queue[j]
      BY <1>1
    <3> QED
      BY <3>1, <2>2 DEF Arrives
  <2> QED
    BY <2>1, <2>2 DEF Arrives
<1>3. ASSUME NEW h, Arrives(h, 1) PROVE Arrives(h, 1)' \/ h \in Head(queue).list
  <2>1. PICK j \in 1..Len(queue) : h \in queue[j].list
    BY <1>3 DEF Arrives
  <2>2. CASE j = 1
    BY <2>1, <2>2, <1>1
  <2>3. CASE j > 1
    <3>1. (j - 1) \in 1..Len(queue') /\ queue'[j - 1] = queue[j]
      BY <1>1, <2>3
    <3> QED
      BY <3>1, <2>1 DEF Arrives
  <2> QED
    BY <2>2, <2>3
<1> QED
  BY <1>1, <1>2, <1>3

LEMMA TypesKept == Types /\ HeldToTell /\ [Next]_vars => Types'
<1> SUFFICES ASSUME Types, HeldToTell, [Next]_vars PROVE Types'
  OBVIOUS
<1> USE DEF Types, StoreTypes, WindowTypes, Lists
<1>1. ASSUME NEW t \in Threads, SaveReads(t) \/ SaveTruncates(t) PROVE Types'
  BY <1>1 DEF SaveReads, SaveTruncates, Goto, windowVars
<1>2. ASSUME NEW t \in Threads, SaveWrites(t) \/ SaveFails(t) PROVE Types'
  BY <1>2 DEF SaveWrites, SaveFails, Saved, Goto, windowVars
<1>3. ASSUME NEW t \in Finders, TellWindow(t) PROVE Types'
  <2>1. [script |-> "append", list |-> {found[t]}] \in Scripts
    BY <1>3 DEF TellWindow, HeldToTell, Scripts
  <2>2. queue' \in Seq(Scripts)
    BY <1>3, <2>1 DEF TellWindow
  <2> QED
    BY <1>3, <2>2 DEF TellWindow, Goto, Threads
<1>5. ASSUME NEW t \in Finders, NEW h \in Hosts, AddBlockedHost(t, h) PROVE Types'
  BY <1>5 DEF AddBlockedHost, Update, Goto, windowVars, Threads
<1>6. CASE OpenPanel \/ PressSave \/ \E h \in Hosts : EditForm(h)
  BY <1>6 DEF OpenPanel, PressSave, EditForm
<1>7. CASE HandleSave
  BY <1>7 DEF HandleSave, Update, Goto, Silent, Threads
<1>8. CASE HandleTheme
  BY <1>8 DEF HandleTheme, Update, Goto, windowVars, Threads
<1>9. CASE HandleRequest
  BY <1>9 DEF HandleRequest, Goto, Silent, Threads
<1>10. CASE PushSettings
  <2>1. [script |-> "load", list |-> data[UI]] \in Scripts
    BY DEF Scripts, Threads
  <2>2. queue' \in Seq(Scripts)
    BY <1>10, <2>1 DEF PushSettings
  <2> QED
    BY <1>10, <2>2 DEF PushSettings, Goto, Threads
<1>11. CASE RunScript
  <2>1. Head(queue) \in Scripts /\ queue' \in Seq(Scripts)
    BY <1>11 DEF RunScript
  <2> QED
    BY <1>11, <2>1 DEF RunScript, Scripts
<1>12. CASE Boot
  BY <1>12, ConfigAssumption DEF Boot, Loads, Silent, Threads
<1>13. CASE UNCHANGED vars
  BY <1>13 DEF vars
<1> QED
  BY <1>1, <1>2, <1>3, <1>5, <1>6, <1>7, <1>8, <1>9, <1>10, <1>11, <1>12, <1>13 DEF Next

\* A step that only moves a thread on, or reads, leaves every promise to the form.
LEMMA StillComplete ==
    ASSUME FormInv, UNCHANGED <<list, queue, form, filled, removed, missed>>, Untold \subseteq Untold'
    PROVE  LoadsComplete' /\ FormComplete'
BY DEF FormInv, LoadsComplete, FormComplete, Arrives

LEMMA SavesKeepForm ==
    ASSUME FormInv, NEW t \in Threads, UNCHANGED <<list, found, windowVars>>,
           at' = [at EXCEPT ![t] = "truncate"] \/ at' = [at EXCEPT ![t] = "write"]
           \/ at' = [at EXCEPT ![t] = IF t \in Finders /\ found[t] # None THEN "dispatch" ELSE "idle"]
    PROVE  HeldToTell' /\ LoadsComplete' /\ FormComplete' /\ SaveIsCurrent'
<1>1. HeldToTell'
  BY DEF FormInv, HeldToTell, Types, StoreTypes, Threads
<1>2. LoadsComplete' /\ FormComplete'
  BY StillComplete DEF Untold, windowVars
<1>3. SaveIsCurrent'
  BY ConfigAssumption DEF FormInv, SaveIsCurrent, windowVars, Types, StoreTypes, Threads
<1> QED
  BY <1>1, <1>2, <1>3

LEMMA AddKeepsForm ==
    ASSUME FormInv, NEW t \in Finders, NEW h \in Hosts, AddBlockedHost(t, h)
    PROVE  HeldToTell' /\ LoadsComplete' /\ FormComplete' /\ SaveIsCurrent'
<1>1. /\ at[t] = "idle" /\ at' = [at EXCEPT ![t] = "read"] /\ list' = list \cup {h}
      /\ found' = [found EXCEPT ![t] = IF h \in list THEN None ELSE h]
      /\ UNCHANGED <<form, filled, queue, message, removed, missed>>
  BY DEF AddBlockedHost, Update, Goto, windowVars
<1>2. HeldToTell'
  BY <1>1 DEF FormInv, HeldToTell, Types, StoreTypes, WindowTypes, Threads
<1>3. \A g \in list' : g \in list \/ g \in Untold'
  BY <1>1, NoneAssumption DEF Untold, FormInv, Types, WindowTypes
<1>4. Untold \subseteq Untold'
  BY <1>1 DEF Untold, FormInv, HeldToTell, Types, WindowTypes
<1>5. LoadsComplete' /\ FormComplete'
  BY <1>1, <1>3, <1>4 DEF FormInv, LoadsComplete, FormComplete, Arrives
<1>6. SaveIsCurrent'
  BY <1>1, ConfigAssumption DEF FormInv, SaveIsCurrent, Types, StoreTypes, Threads
<1> QED
  BY <1>2, <1>5, <1>6

LEMMA TellKeepsForm ==
    ASSUME FormInv, NEW t \in Finders, TellWindow(t)
    PROVE  HeldToTell' /\ LoadsComplete' /\ FormComplete' /\ SaveIsCurrent'
<1> DEFINE e == [script |-> "append", list |-> {found[t]}]
<1>1. /\ at[t] = "dispatch" /\ at' = [at EXCEPT ![t] = "idle"]
      /\ found' = [found EXCEPT ![t] = None] /\ queue' = Append(queue, e)
      /\ UNCHANGED <<list, form, filled, message, removed, missed>>
  BY DEF TellWindow, Goto
<1>2. e \in Scripts /\ queue \in Seq(Scripts)
  BY <1>1 DEF FormInv, HeldToTell, Types, WindowTypes, Scripts, Lists
<1>3. HeldToTell'
  BY <1>1 DEF FormInv, HeldToTell, Types, StoreTypes, WindowTypes, Threads
<1>4. \A h \in Untold : h \in Untold' \/ h \in e.list
  BY <1>1 DEF Untold, FormInv, Types, WindowTypes
<1>5. e.script # "load"
  OBVIOUS
<1> HIDE DEF e
<1>6. /\ \A h : h \in e.list => \A i \in 1..Len(queue') : Arrives(h, i)'
      /\ \A h : \A i \in 1..Len(queue) : Arrives(h, i) => Arrives(h, i)'
      /\ \A h : Arrives(h, 1) => Arrives(h, 1)'
      /\ Len(queue') = Len(queue) + 1 /\ queue'[Len(queue')] = e
      /\ \A i \in 1..Len(queue) : queue'[i] = queue[i]
      /\ Len(queue) \in Nat
  BY <1>1, <1>2, Appends
<1>7. LoadsComplete'
  <2> SUFFICES ASSUME NEW i \in 1..Len(queue'), queue'[i].script = "load", NEW h \in list
               PROVE  Arrives(h, i)' \/ h \in missed \cup Untold'
    BY <1>1 DEF LoadsComplete
  <2>1. i \in 1..Len(queue) /\ queue[i].script = "load"
    BY <1>5, <1>6
  <2>2. Arrives(h, i) \/ h \in missed \cup Untold
    BY <2>1 DEF FormInv, LoadsComplete
  <2> QED
    BY <2>1, <2>2, <1>4, <1>6
<1>8. FormComplete'
  BY <1>1, <1>4, <1>6 DEF FormInv, FormComplete
<1>9. SaveIsCurrent'
  <2>1. \A i \in 1..Len(queue') : queue'[i].script = "load" => i \in 1..Len(queue) /\ queue[i].script = "load"
    BY <1>5, <1>6
  <2>2. at'[UI] = at[UI]
    BY <1>1, ConfigAssumption DEF FormInv, Types, StoreTypes, Threads
  <2> QED
    BY <1>1, <2>1, <2>2 DEF FormInv, SaveIsCurrent
<1> QED
  BY <1>3, <1>7, <1>8, <1>9

LEMMA UserKeepsForm ==
    ASSUME FormInv, OpenPanel \/ PressSave \/ \E h \in Hosts : EditForm(h)
    PROVE  HeldToTell' /\ LoadsComplete' /\ FormComplete' /\ SaveIsCurrent'
<1> USE DEF FormInv
<1>1. CASE OpenPanel \/ PressSave
  <2>1. UNCHANGED <<list, at, found, form, filled, queue, removed, missed>>
    BY <1>1 DEF OpenPanel, PressSave
  <2>2. HeldToTell' /\ LoadsComplete' /\ FormComplete'
    BY <2>1, StillComplete DEF HeldToTell, Untold
  <2>3. SaveIsCurrent'
    BY <1>1, <2>1 DEF OpenPanel, PressSave, Ready, SaveIsCurrent, Types, WindowTypes
  <2> QED
    BY <2>2, <2>3
<1>2. CASE \E h \in Hosts : EditForm(h)
  <2>1. UNCHANGED <<list, at, found, filled, queue, missed, message>>
    BY <1>2 DEF EditForm
  <2>2. \A h \in form \cup removed : h \in form' \cup removed'
    BY <1>2 DEF EditForm
  <2>3. HeldToTell' /\ LoadsComplete'
    BY <2>1 DEF HeldToTell, LoadsComplete, Arrives, Untold
  <2>4. FormComplete'
    BY <2>1, <2>2 DEF FormComplete, Arrives, Untold
  <2>5. SaveIsCurrent'
    BY <2>1, <2>2 DEF SaveIsCurrent
  <2> QED
    BY <2>3, <2>4, <2>5
<1> QED
  BY <1>1, <1>2

LEMMA HandlersKeepForm ==
    ASSUME FormInv, HandleSave \/ HandleTheme \/ HandleRequest
    PROVE  HeldToTell' /\ LoadsComplete' /\ FormComplete' /\ SaveIsCurrent'
<1> USE DEF FormInv, Goto
<1>1. UNCHANGED <<found, form, filled, queue, removed, missed>> /\ Untold' = Untold
  BY DEF HandleSave, HandleTheme, HandleRequest, windowVars, Untold
<1>2. \A t \in Finders : at'[t] = at[t]
  BY ConfigAssumption DEF HandleSave, HandleTheme, HandleRequest, Update, Types, StoreTypes, Threads
<1>3. HeldToTell'
  BY <1>1, <1>2 DEF HeldToTell
<1>4. CASE HandleSave
  <2>1. message.type = "saveSettings" /\ list' = message.list /\ message' = Silent
    BY <1>4 DEF HandleSave, Update
  <2>2. /\ \A h \in list' : h \in form \cup removed
        /\ \A i \in 1..Len(queue) : queue[i].script # "load"
    BY <2>1 DEF SaveIsCurrent
  <2>3. LoadsComplete' /\ FormComplete'
    BY <1>1, <2>2 DEF LoadsComplete, FormComplete
  <2>4. SaveIsCurrent'
    BY <2>1 DEF SaveIsCurrent, Silent, None
  <2> QED
    BY <1>3, <2>3, <2>4
<1>5. CASE HandleTheme
  <2>1. list' = list /\ message' = message /\ at' = [at EXCEPT ![UI] = "read"]
    BY <1>5 DEF HandleTheme, Update, windowVars
  <2>2. LoadsComplete' /\ FormComplete'
    BY <1>1, <2>1, StillComplete
  <2>3. SaveIsCurrent'
    BY <1>1, <2>1 DEF SaveIsCurrent, Types, StoreTypes, Threads
  <2> QED
    BY <1>3, <2>2, <2>3
<1>6. CASE HandleRequest
  <2>1. list' = list /\ message' = Silent
    BY <1>6 DEF HandleRequest
  <2>2. LoadsComplete' /\ FormComplete'
    BY <1>1, <2>1, StillComplete
  <2>3. SaveIsCurrent'
    BY <2>1 DEF SaveIsCurrent, Silent, None
  <2> QED
    BY <1>3, <2>2, <2>3
<1> QED
  BY <1>4, <1>5, <1>6

LEMMA PushKeepsForm ==
    ASSUME FormInv, PushSettings
    PROVE  HeldToTell' /\ LoadsComplete' /\ FormComplete' /\ SaveIsCurrent'
<1> DEFINE e == [script |-> "load", list |-> data[UI]]
<1>1. /\ at[UI] = "dispatch" /\ at' = [at EXCEPT ![UI] = "idle"] /\ queue' = Append(queue, e)
      /\ missed' = missed \cup ((list \ data[UI]) \ Untold)
      /\ UNCHANGED <<list, found, form, filled, message, removed>>
  BY DEF PushSettings, Goto
<1>2. e \in Scripts /\ queue \in Seq(Scripts)
  BY DEF FormInv, Types, StoreTypes, WindowTypes, Scripts, Threads
<1>3. HeldToTell'
  BY <1>1, ConfigAssumption DEF FormInv, HeldToTell, Types, StoreTypes, Threads
<1>4. Untold' = Untold
  BY <1>1 DEF Untold
<1>5. \A h \in list : h \in e.list \/ h \in missed' \cup Untold
  BY <1>1
<1> HIDE DEF e
<1>6. /\ \A h : h \in e.list => \A i \in 1..Len(queue') : Arrives(h, i)'
      /\ \A h : \A i \in 1..Len(queue) : Arrives(h, i) => Arrives(h, i)'
      /\ \A h : Arrives(h, 1) => Arrives(h, 1)'
      /\ Len(queue') = Len(queue) + 1 /\ queue'[Len(queue')] = e
      /\ \A i \in 1..Len(queue) : queue'[i] = queue[i]
      /\ Len(queue) \in Nat
  BY <1>1, <1>2, Appends
<1>7. LoadsComplete'
  BY <1>1, <1>4, <1>5, <1>6 DEF LoadsComplete
<1>8. FormComplete'
  BY <1>1, <1>4, <1>6 DEF FormInv, FormComplete
<1>9. SaveIsCurrent'
  BY <1>1 DEF FormInv, SaveIsCurrent
<1> QED
  BY <1>3, <1>7, <1>8, <1>9

LEMMA RunKeepsForm ==
    ASSUME FormInv, RunScript
    PROVE  HeldToTell' /\ LoadsComplete' /\ FormComplete' /\ SaveIsCurrent'
<1>1. /\ queue # <<>> /\ queue' = Tail(queue)
      /\ UNCHANGED <<list, at, found, message, missed>>
  BY DEF RunScript
<1>2. /\ \A h : \A i \in 1..Len(queue') :
            queue'[i] = queue[i + 1] /\ (Arrives(h, i)' <=> Arrives(h, i + 1))
      /\ \A h : Arrives(h, 1) => Arrives(h, 1)' \/ h \in Head(queue).list
      /\ Len(queue') + 1 = Len(queue) /\ Len(queue') \in Nat
      /\ Head(queue) = queue[1] /\ queue[1] \in Scripts
  BY <1>1, Runs DEF FormInv, Types, WindowTypes
<1>3. HeldToTell' /\ Untold' = Untold
  BY <1>1 DEF FormInv, HeldToTell, Untold
<1>4. LoadsComplete'
  <2> SUFFICES ASSUME NEW i \in 1..Len(queue'), queue'[i].script = "load", NEW h \in list
               PROVE  Arrives(h, i)' \/ h \in missed \cup Untold
    BY <1>1, <1>3 DEF LoadsComplete
  <2>1. (i + 1) \in 1..Len(queue) /\ queue[i + 1].script = "load"
    BY <1>2
  <2> QED
    BY <2>1, <1>2 DEF FormInv, LoadsComplete
<1>5. CASE Head(queue).script = "append"
  <2>1. /\ form' = form \cup Head(queue).list /\ removed' = removed \ Head(queue).list
        /\ filled' = filled
    BY <1>5 DEF RunScript
  <2>2. FormComplete'
    BY <1>1, <1>2, <1>3, <2>1 DEF FormInv, FormComplete
  <2>3. SaveIsCurrent'
    BY <1>1, <1>2, <2>1 DEF FormInv, SaveIsCurrent
  <2> QED
    BY <1>3, <1>4, <2>2, <2>3
<1>6. CASE Head(queue).script = "load"
  <2>1. form' = Head(queue).list
    BY <1>6 DEF RunScript
  <2>2. \A h \in list : Arrives(h, 1) \/ h \in missed \cup Untold
    BY <1>2, <1>6 DEF FormInv, LoadsComplete
  <2>3. FormComplete'
    BY <1>1, <1>2, <1>3, <2>1, <2>2 DEF FormComplete
  <2>4. message.type # "saveSettings"
    BY <1>2, <1>6 DEF FormInv, SaveIsCurrent
  <2>5. SaveIsCurrent'
    BY <1>1, <2>4 DEF SaveIsCurrent
  <2> QED
    BY <1>3, <1>4, <2>3, <2>5
<1> QED
  BY <1>5, <1>6 DEF RunScript

LEMMA FormKept == FormInv /\ [Next]_vars => FormInv'
<1> SUFFICES ASSUME FormInv, [Next]_vars PROVE FormInv'
  OBVIOUS
<1> DEFINE Parts == HeldToTell' /\ LoadsComplete' /\ FormComplete' /\ SaveIsCurrent'
<1> SUFFICES Parts
  BY TypesKept DEF FormInv
<1>1. ASSUME NEW t \in Threads, SaveReads(t) \/ SaveTruncates(t) \/ SaveWrites(t) \/ SaveFails(t)
      PROVE  Parts
  BY <1>1, SavesKeepForm DEF SaveReads, SaveTruncates, SaveWrites, SaveFails, Saved, Goto
<1>2. CASE Boot
  <2>1. /\ HeldToTell' /\ queue' = <<>> /\ message'.type # "saveSettings" /\ ~filled'
    BY <1>2 DEF Boot, HeldToTell, Threads, Silent, None
  <2> QED
    BY <2>1 DEF LoadsComplete, FormComplete, SaveIsCurrent
<1>3. CASE UNCHANGED vars
  <2>1. HeldToTell' /\ SaveIsCurrent' /\ UNCHANGED Untold
    BY <1>3 DEF vars, FormInv, HeldToTell, SaveIsCurrent, Untold
  <2> QED
    BY <1>3, <2>1, StillComplete DEF vars
<1> QED
  BY <1>1, <1>2, <1>3, AddKeepsForm, TellKeepsForm, UserKeepsForm, HandlersKeepForm,
     PushKeepsForm, RunKeepsForm DEF Next

\* The scripts that wait, the form and the message fit the list at every moment.
THEOREM FormSound == Spec => []FormInv
BY FormInitially, FormKept, PTL DEF Spec

\* ipc.go:44: what the engine adds reaches the form, or is on its way there, unless
\* it was added while the settings were being collected.
THEOREM AdditionsShown == Spec => []ListedAreShown
<1>1. FormInv => ListedAreShown
  BY DEF FormInv, FormComplete, Types, WindowTypes, Arrives, Ready, ListedAreShown
<1> QED
  BY <1>1, FormSound, PTL

----------------------------------------------------------------------------

LEMMA StoreKept == FormInv /\ StoreInv /\ [Next]_vars => StoreInv'
<1> SUFFICES ASSUME FormInv, StoreInv, [Next]_vars PROVE StoreInv'
  OBVIOUS
<1>1. ASSUME NEW t \in Finders, NEW h \in Hosts, AddBlockedHost(t, h) PROVE StoreInv'
  <2>1. list \cup {h} \in Lists /\ t \in Threads
    BY DEF StoreInv, StoreTypes, Lists, Threads
  <2> QED
    BY <1>1, <2>1, UpdateKeeps DEF AddBlockedHost
<1>2. CASE HandleSave \/ HandleTheme
  <2>1. message.list \in Lists /\ list \in Lists /\ UI \in Threads
    BY DEF FormInv, Types, WindowTypes, StoreTypes, Threads
  <2> QED
    BY <1>2, <2>1, UpdateKeeps DEF HandleSave, HandleTheme
<1>3. CASE HandleRequest \/ PushSettings
  <2>1. list \in Lists /\ {} \in Lists /\ UI \in Threads
    BY DEF FormInv, Types, StoreTypes, Threads, Lists
  <2> QED
    BY <1>3, <2>1, WindowKeepsStore DEF HandleRequest, PushSettings, Goto
<1>4. ASSUME NEW t \in Finders, TellWindow(t) PROVE StoreInv'
  <2>1. t \in Threads
    BY DEF Threads
  <2> QED
    BY <1>4, <2>1, WindowKeepsStore DEF TellWindow, Goto
<1>5. CASE UNCHANGED <<list, file, at, data, clean>>
  BY <1>5 DEF StoreInv, StoreTypes, LoneSave, Busy
<1>6. CASE Boot
  <2>1. /\ list' = Loads(file) /\ file' = file /\ at' = [t \in Threads |-> "idle"]
        /\ data' = [t \in Threads |-> {}]
    BY <1>6 DEF Boot
  <2>2. StoreTypes'
    BY <2>1, ConfigAssumption DEF StoreInv, StoreTypes, Loads, Lists
  <2>3. \A t \in Threads : at'[t] = "idle"
    BY <2>1
  <2> QED
    BY <2>1, <2>2, <2>3 DEF StoreInv, LoneSave, Busy, Loads
<1> QED
  BY <1>1, <1>2, <1>3, <1>4, <1>5, <1>6, SaveKeeps
     DEF Next, OpenPanel, PressSave, EditForm, RunScript, vars

\* config.go:196: a save that met no other leaves the list of this run for the next one.
THEOREM ListSurvives == Spec => []NextRunHasList
<1>1. StoreInv => NextRunHasList
  BY DEF StoreInv, LoneSave, NextRunHasList
<1> QED
  BY <1>1, FormInitially, FormKept, StoreInitially, StoreKept, PTL DEF Spec

====
