------------------------------ MODULE Plugins ------------------------------
(***************************************************************************)
(* PluginManager of plugins.py: each plugin that is enabled when it is     *)
(* loaded has a thread that collects its data until the manager's event is *)
(* set.  Enabling, disabling and reloading are handlers on the event loop, *)
(* one at a time; the threads go on between any two steps of a reload, and *)
(* one that is busy collecting reads the manager's event when it is done.  *)
(***************************************************************************)
EXTENDS Naturals, FiniteSets

CONSTANTS Plugin,   \* ids of the plugins in the directory
          Reloads   \* bound: how often they are reloaded

ASSUME PluginAssumption == Reloads \in Nat

VARIABLES disabled,   \* .disabled.json
          load,       \* how often the plugins were loaded: the Plugin objects
          enabled,    \* .enabled of each object made so far
          wasEnabled, \* .enabled of the objects of this load when they were made
          event,      \* the event in _shutdown, by its number
          isSet,      \* the events that are set
          collector,  \* per object: its thread, and the event it waits on
          tracked,    \* _threads, by their objects
          reload      \* what reload does next

pluginVars == <<disabled, load, enabled, wasEnabled, event, isSet, collector, tracked, reload>>

Load == 1..Reloads + 1
Object == Plugin \X Load

PluginTypeOK ==
    /\ disabled \subseteq Plugin /\ wasEnabled \subseteq Plugin
    /\ load \in Load /\ event \in Load /\ isSet \subseteq Load
    /\ enabled \subseteq Object /\ tracked \subseteq Object
    /\ collector \in [Object -> [at : {"none", "collect", "wait", "ended"}, on : Load]]
    /\ reload \in {"none", "set", "replace", "clear", "discover", "start"}

\* The server is about to start the plugins it discovered.
PluginInit ==
    /\ disabled \in SUBSET Plugin /\ wasEnabled = Plugin \ disabled
    /\ load = 1 /\ enabled = wasEnabled \X {1}
    /\ event = 1 /\ isSet = {}
    /\ collector = [o \in Object |-> [at |-> "none", on |-> 1]]
    /\ tracked = {} /\ reload = "start"

-----------------------------------------------------------------------------
(* The thread of a plugin object. *)

\* collect() returns, or runs into its timeout: the thread waits on the event
\* that the manager has now, and does not wait if that is set.
CollectEnds(o) ==
    /\ collector[o].at = "collect"
    /\ collector' = [collector EXCEPT ![o] = [at |-> "wait", on |-> event]]
    /\ UNCHANGED <<disabled, load, enabled, wasEnabled, event, isSet, tracked, reload>>

\* The event is set, or the interval is over; a disabled plugin waits again.
WaitEnds(o) ==
    /\ collector[o].at = "wait"
    /\ collector' = [collector EXCEPT ![o] =
          IF @.on \in isSet THEN [@ EXCEPT !.at = "ended"]
          ELSE IF o \in enabled THEN [@ EXCEPT !.at = "collect"]
          ELSE [@ EXCEPT !.on = event]]
    /\ UNCHANGED <<disabled, load, enabled, wasEnabled, event, isSet, tracked, reload>>

-----------------------------------------------------------------------------
(* The handlers. *)

EnablePlugin(p) ==
    /\ reload = "none"
    /\ enabled' = enabled \union {<<p, load>>} /\ disabled' = disabled \ {p}
    /\ UNCHANGED <<load, wasEnabled, event, isSet, collector, tracked, reload>>

DisablePlugin(p) ==
    /\ reload = "none"
    /\ enabled' = enabled \ {<<p, load>>} /\ disabled' = disabled \union {p}
    /\ UNCHANGED <<load, wasEnabled, event, isSet, collector, tracked, reload>>

\* reload sets the event and tears the plugins down, ...
ReloadBegins ==
    /\ reload = "none" /\ load <= Reloads /\ reload' = "set"
    /\ UNCHANGED <<disabled, load, enabled, wasEnabled, event, isSet, collector, tracked>>

SetEvent ==
    /\ reload = "set" /\ reload' = "replace" /\ isSet' = isSet \union {event}
    /\ UNCHANGED <<disabled, load, enabled, wasEnabled, event, collector, tracked>>

\* ... makes a new event, ...
ReplaceEvent ==
    /\ reload = "replace" /\ reload' = "clear" /\ event' = event + 1
    /\ UNCHANGED <<disabled, load, enabled, wasEnabled, isSet, collector, tracked>>

KeepThreads ==
    /\ reload = "clear" /\ reload' = "discover"
    /\ UNCHANGED <<disabled, load, enabled, wasEnabled, event, isSet, collector, tracked>>

\* ... forgets plugins and threads, ...
ForgetThreads ==
    /\ reload = "clear" /\ reload' = "discover" /\ tracked' = {}
    /\ UNCHANGED <<disabled, load, enabled, wasEnabled, event, isSet, collector>>

\* ... loads the files, ...
Discover ==
    /\ reload = "discover" /\ reload' = "start"
    /\ load' = load + 1 /\ wasEnabled' = Plugin \ disabled
    /\ enabled' = enabled \union wasEnabled' \X {load'}
    /\ UNCHANGED <<disabled, event, isSet, collector, tracked>>

Alive(o) == collector[o].at \in {"collect", "wait"}

\* Plugins without a thread of their name among the tracked ones.
WithoutThread == {p \in Plugin : \A n \in Load : <<p, n>> \in tracked => ~Alive(<<p, n>>)}

\* ... and starts a thread for each enabled plugin.
StartThreads ==
    LET started == (wasEnabled \intersect WithoutThread) \X {load} IN
    /\ reload = "start" /\ reload' = "none"
    /\ collector' = [o \in Object |-> IF o \in started THEN [at |-> "collect", on |-> event]
                                                       ELSE collector[o]]
    /\ tracked' = tracked \union started
    /\ UNCHANGED <<disabled, load, enabled, wasEnabled, event, isSet>>

PluginNext ==
    \/ \E o \in Object : CollectEnds(o) \/ WaitEnds(o)
    \/ \E p \in Plugin : EnablePlugin(p) \/ DisablePlugin(p)
    \/ ReloadBegins \/ SetEvent \/ ReplaceEvent \/ ForgetThreads \/ Discover \/ StartThreads

PluginSpec == PluginInit /\ [][PluginNext]_pluginVars

-----------------------------------------------------------------------------
(* Properties. *)

\* After a start or reload each plugin that was loaded enabled has a thread that
\* collects for the object the dashboard shows, and that no event of an earlier
\* load will end, also when the thread of the old object was still busy.
PluginsAreCollected ==
    reload = "none" => \A p \in wasEnabled :
        /\ Alive(<<p, load>>)
        /\ collector[<<p, load>>].on \notin isSet
=============================================================================
