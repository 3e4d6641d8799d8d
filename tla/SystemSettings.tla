--------------------------- MODULE SystemSettings ---------------------------
(***************************************************************************)
(* The settings of the mount on a dashboard page: the cached settings, the *)
(* settings panel with its loads, Save and Apply, the debounced save of a  *)
(* tuning step, and the reset of the server                                *)
(* (web/static/desktop/js/dashboard.js; the server's part is               *)
(* api_update_settings, api_apply_settings and _merge_app_settings).       *)
(*                                                                         *)
(* The settings are one value: what differs between two of them is left    *)
(* out.  Fallback is the value without motion limits that the page starts  *)
(* with and falls back to.                                                 *)
(*                                                                         *)
(* The classic and the mobile page open the panel in another way: they     *)
(* wait for a load, and have neither Apply nor formDirty.                  *)
(***************************************************************************)
EXTENDS Integers, FiniteSets

CONSTANTS Contents,      \* settings an operator may type
          Fallback,      \* the page's own empty settings
          MaxSettings    \* bound: loads and saves of the page

ASSUME SystemSettingsAssumption == Fallback \notin Contents /\ MaxSettings \in Nat

VARIABLES
    waits,       \* the page is the classic or the mobile one; never changes
    cached,      \* appSettings
    settingsForm, \* the inputs of the settings panel
    formDirty,   \* settingsFormDirty
    opened,      \* settingsOpenRequestId while the panel is open, or 0
    openings,    \* settingsOpenRequestId
    gets,        \* loads of the settings that are pending
    post,        \* the Save or Apply that is pending, or NoPost
    stepTimer,   \* settingsSaveTimer
    stepPosts,   \* number of step saves that are pending
    operations,  \* number of loads and saves so far
    storedSettings, \* server: AppSetting.JSON
    inForce,     \* server: the settings it serves and uses
    chosen,      \* history: what was stored first or sent by Save
    behind,      \* history: what is in force has changed since the answer that the page
                 \* took last was given, or it has taken none
    typedText    \* history: what was typed last into the open panel, until a load of
                 \* another part of the page, an answer to Save or Apply, or the panel
                 \* opened again takes its place; or Fallback

settingsVars == <<waits, cached, settingsForm, formDirty, opened, openings, gets, post,
                  stepTimer, stepPosts,
                  operations, storedSettings, inForce, chosen, behind, typedText>>

NoPost == [kind |-> "none", value |-> Fallback, phase |-> "none", crossed |-> FALSE]
Sent(id, own) == [id |-> id, own |-> own, phase |-> "sent", value |-> Fallback,
                  crossed |-> FALSE]

SettingsInit ==
    /\ waits \in BOOLEAN
    /\ storedSettings \in Contents /\ inForce = storedSettings /\ chosen = {storedSettings}
    /\ cached = Fallback /\ settingsForm = Fallback
    /\ formDirty = FALSE /\ opened = 0 /\ openings = 0
    /\ gets = {Sent(0, 0)}
    /\ post = NoPost /\ stepTimer = FALSE /\ stepPosts = 0
    /\ operations = 0 /\ behind = TRUE /\ typedText = Fallback

Busy == operations' = operations + 1 /\ operations < MaxSettings
-----------------------------------------------------------------------------
(* The panel *)

\* openSettingsPanel up to its await: the cached settings are shown at once.
OpenSettings ==
    /\ ~waits /\ Busy
    /\ openings' = openings + 1 /\ opened' = openings + 1
    /\ settingsForm' = cached /\ formDirty' = FALSE
    /\ gets' = gets \cup {Sent(operations + 1, openings + 1)}
    /\ typedText' = Fallback
    /\ UNCHANGED <<waits, cached, post, stepTimer, stepPosts, storedSettings, inForce, chosen,
                   behind>>

\* openSettingsPanel of the two other pages up to its first await.
Awaited == -1
AwaitSettings ==
    /\ waits /\ Busy
    /\ gets' = gets \cup {Sent(operations + 1, Awaited)}
    /\ UNCHANGED <<waits, cached, settingsForm, formDirty, opened, openings, post, stepTimer,
                   stepPosts, storedSettings, inForce, chosen, behind, typedText>>

CloseSettings ==
    /\ opened # 0
    /\ openings' = openings + 1 /\ opened' = 0
    /\ UNCHANGED <<waits, cached, settingsForm, formDirty, gets, post, stepTimer, stepPosts,
                   operations, storedSettings, inForce, chosen, behind, typedText>>

TypeSettings(v) ==
    /\ opened # 0
    /\ settingsForm' = v /\ formDirty' = ~waits /\ typedText' = v
    /\ UNCHANGED <<waits, cached, opened, openings, gets, post, stepTimer, stepPosts,
                   operations, storedSettings, inForce, chosen, behind>>

\* updateActiveStep and scheduleSettingsSave; the timer's callback is saveAppSettings.
SetStep ==
    /\ stepTimer' = TRUE
    /\ UNCHANGED <<waits, cached, settingsForm, formDirty, opened, openings, gets, post,
                   stepPosts, operations, storedSettings, inForce, chosen, behind, typedText>>
StepTimerFires ==
    /\ stepTimer /\ Busy
    /\ stepTimer' = FALSE
    /\ stepPosts' = stepPosts + 1
    /\ UNCHANGED <<waits, cached, settingsForm, formDirty, opened, openings, gets, post,
                   storedSettings, inForce, chosen, behind, typedText>>
-----------------------------------------------------------------------------
(* Loads *)

\* loadAppSettings of another part of the page.
LoadSettings ==
    /\ Busy
    /\ gets' = gets \cup {Sent(operations + 1, 0)}
    /\ UNCHANGED <<waits, cached, settingsForm, formDirty, opened, openings, post, stepTimer,
                   stepPosts, storedSettings, inForce, chosen, behind, typedText>>

ServeLoad(g) ==
    /\ g.phase = "sent"
    /\ gets' = (gets \ {g}) \cup {[g EXCEPT !.phase = "ok", !.value = inForce]}
    /\ UNCHANGED <<waits, cached, settingsForm, formDirty, opened, openings, post, stepTimer,
                   stepPosts, operations, storedSettings, inForce, chosen, behind, typedText>>
FailLoad(g) ==
    /\ g.phase = "sent"
    /\ gets' = (gets \ {g}) \cup {[g EXCEPT !.phase = "failed"]}
    /\ UNCHANGED <<waits, cached, settingsForm, formDirty, opened, openings, post, stepTimer,
                   stepPosts, operations, storedSettings, inForce, chosen, behind, typedText>>

\* The continuation of loadAppSettings, and of openSettingsPanel once its system
\* information is there too.  An answer of the past is taken like any other.
LoadDone(g) ==
    LET value == IF g.phase = "ok" THEN g.value ELSE IF g.own > 0 THEN cached ELSE Fallback
        shown == g.own <= 0 /\ g.phase = "ok" /\ opened # 0 IN
    /\ g.phase \in {"ok", "failed"}
    /\ cached' = value
    /\ settingsForm' = IF shown THEN value ELSE settingsForm
    /\ gets' = (gets \ {g}) \cup
          IF g.own = 0 THEN {} ELSE {[Sent(g.id, g.own) EXCEPT !.phase = "settled"]}
    /\ behind' = IF g.phase = "ok" THEN g.crossed ELSE behind
    /\ typedText' = IF shown THEN Fallback ELSE typedText
    /\ UNCHANGED <<waits, formDirty, opened, openings, post, stepTimer, stepPosts, operations,
                   storedSettings, inForce, chosen>>

FillAlways(g) ==                            \* mutant: nothing is checked any more
    /\ g.phase = "settled" /\ g.own > 0
    /\ gets' = gets \ {g}
    /\ settingsForm' = cached
    /\ UNCHANGED <<waits, cached, formDirty, opened, openings, post, stepTimer, stepPosts,
                   operations, storedSettings, inForce, chosen, behind, typedText>>
FillOpened(g) ==
    /\ g.phase = "settled" /\ g.own > 0
    /\ gets' = gets \ {g}
    /\ settingsForm' = IF g.own = opened /\ ~formDirty THEN cached ELSE settingsForm
    /\ UNCHANGED <<waits, cached, formDirty, opened, openings, post, stepTimer, stepPosts,
                   operations, storedSettings, inForce, chosen, behind, typedText>>

\* The end of openSettingsPanel there: the panel is filled in, open or not.
FillAwaited(g) ==
    /\ g.phase = "settled" /\ g.own = Awaited
    /\ gets' = gets \ {g}
    /\ settingsForm' = cached /\ typedText' = Fallback
    /\ openings' = openings + 1 /\ opened' = openings + 1
    /\ UNCHANGED <<waits, cached, formDirty, post, stepTimer, stepPosts, operations,
                   storedSettings, inForce, chosen, behind>>
-----------------------------------------------------------------------------
(* Save and Apply *)

\* saveSystemSettings and applySystemSettings up to their await: both buttons are
\* disabled until it settles.
SendSettings(kind) ==
    /\ kind = "apply" => ~waits
    /\ opened # 0 /\ post = NoPost /\ Busy
    /\ post' = [NoPost EXCEPT !.kind = kind, !.value = settingsForm, !.phase = "sent"]
    /\ UNCHANGED <<waits, cached, settingsForm, formDirty, opened, openings, gets, stepTimer,
                   stepPosts, storedSettings, inForce, chosen, behind, typedText>>

\* What is in force changes: an answer given before is one of the past.
Crossed(request) == [request EXCEPT !.crossed = request.crossed \/ request.phase = "ok"]
Changed == behind' = TRUE /\ gets' = {Crossed(g) : g \in gets}

\* _merge_app_settings: Apply keeps a draft in the process, Save writes it.
ServeSettings ==
    /\ post.phase = "sent"
    /\ inForce' = post.value
    /\ storedSettings' = IF post.kind = "save" THEN post.value ELSE storedSettings
    /\ chosen' = IF post.kind = "save" THEN chosen \cup {post.value} ELSE chosen
    /\ post' = [post EXCEPT !.phase = "ok"]
    /\ Changed
    /\ UNCHANGED <<waits, cached, settingsForm, formDirty, opened, openings, stepTimer,
                   stepPosts, operations, typedText>>

\* A step save posts the steps alone: the server merges them into what it serves, and
\* writes the whole.
ServeSteps ==
    /\ stepPosts > 0
    /\ stepPosts' = stepPosts - 1
    /\ storedSettings' = inForce
    /\ UNCHANGED <<waits, cached, settingsForm, formDirty, opened, openings, gets, post,
                   stepTimer, operations, inForce, chosen, behind, typedText>>

\* A request that is lost, before or after the server has served it.
LoseSettings ==
    /\ post.phase \in {"sent", "ok"}
    /\ post' = [post EXCEPT !.phase = "failed"]
    /\ UNCHANGED <<waits, cached, settingsForm, formDirty, opened, openings, gets, stepTimer,
                   stepPosts, operations, storedSettings, inForce, chosen, behind, typedText>>
LoseSteps ==
    /\ stepPosts > 0
    /\ stepPosts' = stepPosts - 1
    /\ UNCHANGED <<waits, cached, settingsForm, formDirty, opened, openings, gets, post,
                   stepTimer, operations, storedSettings, inForce, chosen, behind, typedText>>

\* Their continuation: the form shows the answer; only Apply counts it as clean.
SettingsSentUncached ==                     \* mutant: the answer is not kept
    /\ post.phase \in {"ok", "failed"}
    /\ post' = NoPost
    /\ settingsForm' = IF post.phase = "ok" THEN post.value ELSE settingsForm
    /\ formDirty' = (formDirty /\ ~(post.phase = "ok" /\ post.kind = "apply"))
    /\ behind' = IF post.phase = "ok" THEN post.crossed ELSE behind
    /\ typedText' = IF post.phase = "ok" THEN Fallback ELSE typedText
    /\ UNCHANGED <<waits, cached, opened, openings, gets, stepTimer, stepPosts, operations,
                   storedSettings, inForce, chosen>>
SettingsSent ==
    /\ post.phase \in {"ok", "failed"}
    /\ post' = NoPost
    /\ cached' = IF post.phase = "ok" THEN post.value ELSE cached
    /\ settingsForm' = IF post.phase = "ok" THEN post.value ELSE settingsForm
    /\ formDirty' = (formDirty /\ ~(post.phase = "ok" /\ post.kind = "apply"))
    /\ behind' = IF post.phase = "ok" THEN post.crossed ELSE behind
    /\ typedText' = IF post.phase = "ok" THEN Fallback ELSE typedText
    /\ UNCHANGED <<waits, opened, openings, gets, stepTimer, stepPosts, operations,
                   storedSettings, inForce, chosen>>

\* The server starts again (resetMountServer, toggleSimulationMode, or by itself).
RestartServer ==
    /\ inForce # storedSettings
    /\ inForce' = storedSettings
    /\ post' = Crossed(post)
    /\ Changed
    /\ UNCHANGED <<waits, cached, settingsForm, formDirty, opened, openings, stepTimer,
                   stepPosts, operations, storedSettings, chosen, typedText>>
-----------------------------------------------------------------------------
SettingsPanel ==
    \/ OpenSettings \/ AwaitSettings \/ CloseSettings \/ SetStep \/ StepTimerFires
    \/ \E v \in Contents : TypeSettings(v)
SettingsLoads ==
    \/ LoadSettings
    \/ \E g \in gets : \/ ServeLoad(g) \/ FailLoad(g) \/ LoadDone(g)
                      \/ FillOpened(g) \/ FillAwaited(g)
SettingsPosts ==
    \/ SendSettings("save") \/ SendSettings("apply") \/ SettingsSent
    \/ LoseSettings \/ LoseSteps
SettingsServer == ServeSettings \/ ServeSteps \/ RestartServer

SettingsNext == SettingsPanel \/ SettingsLoads \/ SettingsPosts \/ SettingsServer

SettingsSpec == SettingsInit /\ [][SettingsNext]_settingsVars

SettingsTypeOK ==
    /\ {cached, settingsForm, storedSettings, inForce} \subseteq Contents \cup {Fallback}
    /\ opened \in 0..openings
    /\ post.kind \in {"none", "save", "apply"}

\* What is typed into the open panel stays there, whatever answers to the loads of this
\* and of earlier openings come in, and in whatever order they do (openSettingsPanel);
\* only a load of another part of the page, an answer to Save or Apply, and the opening
\* of the panel itself take its place.
OpeningKeepsEdits == opened # 0 /\ typedText # Fallback => settingsForm = typedText

\* What the page validates its commands with is what the server uses, once it has taken
\* an answer given since the last change; only an answer that was on its way when the
\* server's settings changed, and is taken last, leaves it with older ones
\* (loadAppSettings, saveSystemSettings, applySystemSettings).
CacheFollowsServer == cached # Fallback /\ ~behind => cached = inForce

\* "Applied for testing only -- not saved, flashed, reconnected, or reset.": only what
\* Save has sent is in the file of the settings.
DraftIsNotStored == storedSettings \in chosen

\* The page's settings are the server's once it has heard of the last change.
SettingsInv == SettingsTypeOK /\ CacheFollowsServer
=============================================================================
