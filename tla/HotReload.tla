----------------------------- MODULE HotReload ------------------------------
(***************************************************************************)
(* The reload of the configuration file at run time (config/hot_reload.rs) *)
(* and the tasks of main.rs that follow it through a watch channel.        *)
(*                                                                         *)
(* The file's content is abstracted to whether it loads and validates, to  *)
(* its hot fields (one value; the DNS overrides apart) and to the fields   *)
(* that need a restart.  A writer of the file replaces it by a rename, or  *)
(* writes it in place and leaves a torn content in between.                *)
(***************************************************************************)
EXTENDS Integers, FiniteSets, FiniteSetsExt

CONSTANTS Hot, Dns, Cold,   \* values of the fields
          BadDns,           \* overrides install_entries refuses
          Loaded,           \* configs the program may have been started with
          NotifyCap,        \* the channel between the watchers and the task: 4
          Consumers,        \* tasks with a receiver of the watch channel
          Ticking,          \* those that also use the config on a timer of their own
          MaxEdits          \* bound: times the file is written

Config == [hot : Hot, dns : Dns, cold : Cold]
Content == [ok : BOOLEAN, cfg : Config]

ASSUME HotReloadAssumption ==
    /\ NotifyCap \in Nat \ {0} /\ MaxEdits \in Nat
    /\ BadDns \subseteq Dns /\ \A c \in Loaded : c \in Config /\ c.dns \notin BadDns
    /\ Ticking \subseteq Consumers

VARIABLES
    file,        \* the content of the file
    edits,       \* writes of the file left
    torn,        \* an in-place write is under way
    started,     \* spawn_config_watcher has run
    inotify,     \* whether inotify sees the file (not on a bind mount)
    pending,     \* an inotify event has not reached the callback yet
    dirty,       \* the file was written since the poll watcher looked last
    notified,    \* messages in the notify channel
    wpc,         \* the watcher task
    loaded,      \* the content it has read from the file
    running,     \* the value in the watch channel
    installed,   \* the DNS overrides in force
    unseen,      \* consumers whose receiver has not marked the value as seen
    applied,     \* the config each consumer works with
    busy,        \* consumers in the middle of a tick
    missed       \* history: the file was written between its load and the start of the watchers

fileVars == <<file, edits, torn>>
watchVars == <<started, missed, inotify, pending, dirty, notified, wpc, loaded>>
taskVars == <<running, installed, unseen, applied, busy>>
reloadVars == <<fileVars, watchVars, taskVars>>

(* The variables have their types.                                         *)
ReloadTypeOK ==
    /\ file \in Content  /\ edits \in 0..MaxEdits
    /\ {torn, started, missed, inotify, pending, dirty} \subseteq BOOLEAN
    /\ notified \in 0..NotifyCap /\ wpc \in {"wait", "debounce", "load", "apply"}
    /\ loaded \in Content
    /\ running \in Config /\ installed \in Dns
    /\ unseen \subseteq Consumers /\ busy \subseteq Ticking /\ applied \in [Consumers -> Config]

(* main() has loaded the file and installed its overrides.                 *)
ReloadInit ==
    /\ \E c \in Loaded : file = [ok |-> TRUE, cfg |-> c]
    /\ edits = MaxEdits /\ torn = FALSE /\ missed = FALSE
    /\ started = FALSE /\ inotify \in BOOLEAN /\ pending = FALSE /\ dirty = FALSE
    /\ notified = 0 /\ wpc = "wait"
    /\ running = file.cfg /\ installed = file.cfg.dns /\ loaded = file
    /\ unseen = {} /\ applied = [c \in Consumers |-> running] /\ busy = {}

(* The probes and the pool are initialised between the load of the file    *)
(* and the start of the watchers.                                          *)
spawn_config_watcher ==
    /\ ~started /\ started' = TRUE /\ dirty' = FALSE
    /\ missed' = (file # [ok |-> TRUE, cfg |-> running])
    /\ UNCHANGED <<fileVars, inotify, pending, notified, wpc, loaded, taskVars>>

-----------------------------------------------------------------------------
(* The file and the events                                                 *)

Touched(c) ==
    /\ file' = c
    /\ pending' = (pending \/ (started /\ inotify)) /\ dirty' = started

rename_over(c) ==
    /\ edits > 0 /\ ~torn /\ edits' = edits - 1 /\ Touched(c)
    /\ UNCHANGED <<torn, started, missed, inotify, notified, wpc, loaded, taskVars>>

write_begins ==
    /\ edits > 0 /\ ~torn /\ torn' = TRUE /\ edits' = edits - 1
    /\ Touched([file EXCEPT !.ok = FALSE])
    /\ UNCHANGED <<started, missed, inotify, notified, wpc, loaded, taskVars>>

write_ends(c) ==
    /\ torn /\ torn' = FALSE /\ Touched(c)
    /\ UNCHANGED <<edits, started, missed, inotify, notified, wpc, loaded, taskVars>>

(* try_send on the channel: a message that finds it full is dropped.       *)
notify == notified' = Min({notified + 1, NotifyCap})

inotify_callback ==
    /\ pending /\ pending' = FALSE /\ notify
    /\ UNCHANGED <<fileVars, started, missed, inotify, dirty, wpc, loaded, taskVars>>

(* PollWatcher looks every three seconds for a new time or content.        *)
poll_callback ==
    /\ started /\ dirty /\ dirty' = FALSE /\ notify
    /\ UNCHANGED <<fileVars, started, missed, inotify, pending, wpc, loaded, taskVars>>

-----------------------------------------------------------------------------
(* The watcher task                                                        *)

recv_event ==
    /\ started /\ wpc = "wait" /\ notified > 0
    /\ notified' = notified - 1 /\ wpc' = "debounce"
    /\ UNCHANGED <<fileVars, started, missed, inotify, pending, dirty, loaded, taskVars>>

recv_sighup ==
    /\ started /\ wpc = "wait" /\ wpc' = "debounce"
    /\ UNCHANGED <<fileVars, started, missed, inotify, pending, dirty, notified, loaded, taskVars>>

debounce ==
    /\ wpc = "debounce" /\ wpc' = "load" /\ notified' = 0
    /\ UNCHANGED <<fileVars, started, missed, inotify, pending, dirty, loaded, taskVars>>

SameHot(c, d) == c.hot = d.hot /\ c.dns = d.dns

Publish(c) ==
    /\ running' = c /\ unseen' = Consumers
    /\ UNCHANGED <<applied, busy>>

(* ProxyConfig::load reads the file; it may be written again before the    *)
(* result is applied.                                                      *)
load_config ==
    /\ wpc = "load" /\ wpc' = "apply" /\ loaded' = file
    /\ UNCHANGED <<fileVars, started, missed, inotify, pending, dirty, notified, taskVars>>

ReloadEnds ==
    /\ wpc = "apply" /\ wpc' = "wait"
    /\ loaded' = [ok |-> TRUE, cfg |-> running']
    /\ UNCHANGED <<fileVars, started, missed, inotify, pending, dirty, notified>>

(* A file that does not load, does not validate or whose overrides cannot  *)
(* be installed is ignored; so is one that differs in no hot field.        *)
(* Otherwise the whole new config is sent.                                 *)
reload_config ==
    /\ IF loaded.ok /\ ~SameHot(loaded.cfg, running) /\ loaded.cfg.dns \notin BadDns
       THEN Publish(loaded.cfg) /\ installed' = loaded.cfg.dns
       ELSE UNCHANGED taskVars
    /\ ReloadEnds

-----------------------------------------------------------------------------
(* The consumers                                                           *)

(* changed() resolves, borrow_and_update returns the newest value.  A      *)
(* shorter interval makes the updater run a cycle at once.                 *)
on_changed(c) ==
    /\ c \in unseen \ busy
    /\ unseen' = unseen \ {c} /\ applied' = [applied EXCEPT ![c] = running]
    /\ busy' \in {busy, busy \cup ({c} \cap Ticking)}
    /\ UNCHANGED <<fileVars, watchVars, running, installed>>

(* A tick takes the value with borrow(), which does not mark it as seen,   *)
(* and works with it until the tick is over.                               *)
tick_begins(c) ==
    /\ c \in Ticking \ busy /\ started
    /\ busy' = busy \cup {c} /\ applied' = [applied EXCEPT ![c] = running]
    /\ UNCHANGED <<fileVars, watchVars, running, installed, unseen>>

tick_ends_seen(c) ==
    /\ c \in busy /\ busy' = busy \ {c} /\ unseen' = unseen \ {c}
    /\ UNCHANGED <<fileVars, watchVars, running, installed, applied>>

tick_ends(c) ==
    /\ c \in busy /\ busy' = busy \ {c}
    /\ UNCHANGED <<fileVars, watchVars, running, installed, unseen, applied>>

-----------------------------------------------------------------------------
ReloadNext ==
    \/ spawn_config_watcher \/ write_begins
    \/ \E c \in Content : rename_over(c) \/ write_ends(c)
    \/ inotify_callback \/ poll_callback
    \/ recv_event \/ recv_sighup \/ debounce \/ load_config \/ reload_config
    \/ \E c \in Consumers : on_changed(c) \/ tick_begins(c) \/ tick_ends(c)

(* The poll watcher and the tasks run; SIGHUP and writes need not happen,  *)
(* but a write that has begun is completed.  A tick need not end: it is    *)
(* run_update_cycle, whose fetches have no timeout                         *)
(* (config_updater.rs:173).                                                *)
ReloadFairness ==
    /\ WF_reloadVars(spawn_config_watcher) /\ WF_reloadVars(\E c \in Content : write_ends(c))
    /\ WF_reloadVars(inotify_callback) /\ WF_reloadVars(poll_callback)
    /\ WF_reloadVars(recv_event) /\ WF_reloadVars(debounce)
    /\ WF_reloadVars(load_config) /\ WF_reloadVars(reload_config)
    /\ \A c \in Consumers \ Ticking : WF_reloadVars(on_changed(c))
    /\ \A c \in Ticking : SF_reloadVars(on_changed(c))
ReloadSpec == ReloadInit /\ [][ReloadNext]_reloadVars /\ ReloadFairness

-----------------------------------------------------------------------------
(* ReloadSettles: the hot fields of the last file written are in force in  *)
(* the end if that file is good, although events are dropped, coalesced,   *)
(* or arrive while the file is being read or is torn.  Only a file written *)
(* before the watchers started may be missed.                              *)
ReloadSettles ==
    <>[](~missed /\ file.ok /\ file.cfg.dns \notin BadDns => SameHot(running, file.cfg))

(* ConsumersFollow: every task ends up working with the newest config,     *)
(* unless it is caught in a tick that never ends: also the one that was    *)
(* busy, or had used it on a tick, when it changed.                        *)
ConsumersFollow ==
    \A c \in Consumers : []<>(c \notin busy) => <>[](applied[c] = running)

(* OverridesAgree: the DNS overrides in force are those of the running     *)
(* config: a reload that fails half-way leaves neither of them changed.    *)
OverridesAgree == installed = running.dns

(* FileFollowed: the configuration in use settles on the file, the tasks   *)
(* that read it settle on that if their ticks end, and the DNS overrides   *)
(* never differ from it.                                                   *)
FileFollowed == []OverridesAgree /\ ReloadSettles /\ ConsumersFollow
=============================================================================
