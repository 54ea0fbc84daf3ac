# AriLink in TLA+

Specifications of the parts of AriLink that are concurrent and stateful: outbound
campaigns, the life of a call, how a call speaks and is interrupted, the brains that
decide what it says, the clients of the speech services, and the Rust server that routes
and plays the audio. Each module is translated from the source;
`PROJECT.json` lists for every definition the lines it stands for.

Contents: [the system](#the-system) · [modules](#modules-and-the-code) ·
[runs](#runs) · [fairness](#fairness) · [proofs](#proofs) ·
[disagreements found](#disagreements-with-comments-and-documents) ·
[not modelled](#not-modelled) · [plan](#plan).

## The system

AriLink answers calls that Asterisk hands to it over ARI (a REST interface plus a
WebSocket of events), lets an *assistant* talk to the caller, and dials campaigns. The
parts are

    browser --socket.io-- DashboardServer --+-- AutoDialer (one object per campaign)
                                            |        |  originate, channel events
    Asterisk --ARI REST / WebSocket-- AriControllerServer -- SessionManager, CallHistory
        |                                   |  speak / onTranscription
        | RTP                          BrainHarness + brain (or OpenClawAssistant)
        |                                   |
    Rust RTP server --HTTP, WebSocket-------+      TTS service, STT services

Node is one thread: a callback runs to its end, and everything interesting happens between
two awaits. The Rust server is multi-threaded (tokio tasks, an AEC thread) with concurrent
maps, channels and atomics.

| component | state it keeps | operations | talks to | hard behaviour | what makes it correct |
|---|---|---|---|---|---|
| **AutoDialer** (`core/AutoDialer.ts`) | status, index into the phone list, `activeCalls`, tracked channels, cleaned sessions, results | start, pause, resume, stop; originate callback; ChannelDestroyed, StasisEnd | Asterisk, the controller | originate may fail or throw re-entrantly, events come twice, early or never, callbacks after stop | slots counted exactly, never more than `maxConcurrent` calls, one true result per number, completes, dials only while running |
| **Campaign control** (`core/DashboardServer.ts`) | `campaignDialer`, `lastCampaignStatus` | start, pause, resume, stop, `campaignComplete` listener | AutoDialer | listeners of an earlier campaign still fire | the slot holds the campaign that runs |
| **Call lifecycle** (`core/AriControllerServer.ts`, `CallSession.ts`) | session map, status, channels, bridge | StasisStart, setup, StasisEnd, dialling, dashboard hang-up, reconnect and reconcile, close | Asterisk, Rust, CallHistory | hang-up at every await of the setup, lost events, rejected requests, crash, stop | isolated sessions, everything cleaned up, leaks visible, dialled parties joined to their caller |
| **Call history** (`core/CallHistory.ts`) | a row per call | saveCall, endCall, cleanupOrphanedCalls | lifecycle | written for a call that is over | what leaked can be told from it |
| **Speech queue, barge-in** (`core/AriControllerServer.ts`) | per session: queue, `processingQueue`, `ttsActive`, barge-in flags, utterance id, prefetched text, timers | speakOnChannel, the queue loop, user_speaking, stage 2, playback notices | harness, TTS, Rust | barge-in at any await, late or lost notices, deleted state made anew | one voice, in order, echo suppressed, every promise settles, the bot listens again |
| **BrainHarness** (`assistants/base/BrainHarness.ts`) | the pending promise, state, turn buffer and timer | speak, onSpeakingDone, cancelSpeaking, onTranscription, notifyBargeIn, hangup, transferCall, destroy | brain, controller | promises settled by the end of another text, a debounce that fires beside keys, barge-ins and the end of the call | a promise settles, and a turn that waits for one goes on |
| **LlmChatBrain** (`assistants/brains/LlmChatBrain.ts`) | `processing`, `streaming`, `pendingText`, the abort controller, silence timer and count | onCallStart, turns of text and of keys, streaming, tools, retry and apology, onSilenceTimeout, onBargeIn, onCallEnd | harness, LLM, tools | every await can meet a barge-in, a key, a timer or the end of the call | one turn at a time, each turn ends, a silent caller is asked, nothing goes on after the call |
| **FlowBrain** (`assistants/brains/FlowBrain.ts`) | current node, retry count, menu timer | transitionTo, keys, answers, menu timeout, http_request | harness, HTTP servers | prompts replayed beside transitions, a timeout that finds the bot speaking | one transition at a time, the timeout is that of the menu the caller is in, nobody is left in a menu |
| **TtsClient** (`core/TtsClient.ts`) | socket, `active`, `queue`, chunks, reconnect timer | synthesize, connect, drainQueue, messages, 15 s limit, close; the controller's reconnectTTS | Kokoro service, speech queue | loss with requests in flight and waiting, late answers, the old socket's close event | a promise is held once and settles, a request gets its own sound |
| **Transcription** (`rust-rtp-server/src/transcription.rs`) | service index, retry count, buffer, audio channel | connect, send, flush, fail over, sleep, drain, end | AEC thread, STT services | a service refuses, breaks or goes down; the session is removed while the task sleeps | the caller is heard when some service accepts, the task ends with its session |
| **TTS injector** (`rust-rtp-server/src/tts.rs`) | buffer, current utterance, `pending_done`, `tts_active` | Audio, Done, Cancel, pacing, removal | HTTP handlers, AEC thread | commands arriving while it paces | what it reports was played or cancelled, and it reports everything |
| **Session manager, RTP listener** (`session.rs`, `rtp/listener.rs`, `api.rs`) | sessions, source-to-session map, TTS target | create, delete, packet, configure-tts | controller, Asterisk | first packet binds a source, delete in two parts | one source per session, no stale bindings, voice goes back to who is heard |
| **Engine** (`core/Engine.ts`) | child processes, start-up configuration | start, stop, restart of the STT service, start of the RTP server | child processes, dashboard | restart beside start or stop, a process that exits, hangs or comes up late | every call settles, no process is forgotten; its auto-dialer is one of the campaigns |
| IvrTransferBrain, DirectDialBrain, OpenClaw, dashboard UI, CLI, Python services, docker | configuration, views | | | | [not modelled](#not-modelled) |

## Modules and the code

| module | models | extends / uses |
|---|---|---|
| `AutoDialer` | `AutoDialer.ts`, several dialers side by side, with Asterisk's replies and events | |
| `CampaignControl` | the campaign handlers of `DashboardServer.ts` around it | extends `AutoDialer` |
| `TtsPlayer` | *abstract*: what the Rust server promises about an utterance | |
| `TtsInjector` | the pacing task of `tts.rs` | implements `TtsPlayer` |
| `SpeechQueue` | queue, barge-in and harness of one call | built on the actions of `TtsPlayer` |
| `RtpRouting` | session manager, listener and handlers around them | |
| `CallLifecycle` | calls from StasisStart to the end, with the routing they cause | extends `RtpRouting` |
| `BrainHarness` | what a brain sees of its call: speech, turns, barge-ins, the end | |
| `LlmChatBrain` | the brain that talks to an LLM | extends `BrainHarness` |
| `FlowBrain` | the brain that walks a graph of prompts and menus | extends `BrainHarness` |
| `TtsClient` | the client of the speech synthesiser, its replacement, the order of the service's answers | |
| `Transcription` | the task that sends a session's audio to the speech recognisers | |
| `Engine` | the engine's child processes: start, restart, stop, and who listens at the recogniser's port | |
| `AutoDialerProofs`, `CampaignProofs`, `CallLifecycleProofs` (also of `RtpRouting`), `BrainProofs`, `TtsClientProofs`, `ServiceProofs` (`Engine`, `Transcription`, all three services), `SpeechQueueProofs`, `TtsInjectorProofs` | the theorems | extend the module they are about |
| `MCCampaign`, `MCSpeech`, `MCTts`, `MCCalls` | instances for TLC | |
| `MCBrains` | one call with either brain, and the properties of both | extends both brains |
| `MCServices` | either client, or the engine; they share nothing, so a behaviour is one of `part` "tts", "stt" or "engine" | extends all three |

### AutoDialer, CampaignControl

A state variable of the code is a variable of the same name, a function of the dialer.
`phase`, `answered`, `events`, `listening`, `missed` and `deaf` are Asterisk's side: what became
of the originate of each number, the events on their way, the listeners that exist. Each
JavaScript callback is one action: `Start`, `Pause`, `Resume`, `Stop`,
`OriginateReturns`/`OriginateFails`, `OnChannelDestroyed`, `OnStasisEnd`. `FillSlots` is the loop
of `fillSlots()` including originates that throw at once and the re-entry they cause; the
`process.nextTick` of `cleanupCall` runs before any other callback and so belongs to the action.
An event that is sent before its listener is added, or after the ARI client of the dialer was
replaced on a reconnect, reaches nobody (`EventMissed`, `deaf`). `OriginateFails` may also come when Asterisk has made the
channel and only the reply was lost: the dialer records a failure and frees the slot, and the channel, which nobody listens to, is not
counted by `ConcurrencyRespected`. A refined result an
assistant reports ("transferred", "no_interest") is `answered`: which one is data.
`CampaignControl` adds the slot; the `campaignComplete` listener runs inside `emit()` and is
therefore part of the dialer's step (`OnComplete`).

### SpeechQueue, TtsPlayer, TtsInjector

`SpeechQueue` is one call. `speech[o]` is one `SessionSpeechState` *object*: deleting the map
entry (transfer, end) leaves the loop that works on it running, and the next lookup makes a new
one, so there are up to three, and `current` is the map entry. `phase` says at which await
of `performSpeakViaRust` the loop of an object is: `synth` (TTS service), `stream` (POST audio),
`done` (POST done), `wait` (for the playback notice, 60 s), `prefetch`. The 60 s may pass at any time (`PlaybackTimeout`): the timer
does not ask whether Rust still plays, and texts may be longer, for OpenClaw's replies are not split and Rust takes bodies of 10 MB.
Likewise a request may fail before Rust took it or after (`StreamFails`, `DoneFails`). In each case the loop goes on without
the utterance (`GoesOnWithout`), and Rust plays what it has (`orphan` in `TtsPlayer`). An action runs from
one await to the next, including what the queue loop does after it: the next item, or the
`finally`. `harness` holds the pending promise, the outcome of each `speak()` and SPEAKING.
`UserSpeaking` is stage 1 of a barge-in, `Transcription` stage 2, `SafetyTimer` the 3 s limit.
The texts are numbers; equal numbers are equal texts, `Blank` an empty one. Where the
code compares against a time window, both outcomes are possible.

`TtsPlayer` is what `SpeechQueue` needs of Rust: audio is taken, declared complete, played or
cut by a cancel, and what was declared complete is reported. `TtsInjector` is the task: a
command channel, a buffer of audio units, frames of `FrameUnits` units, the `select!` between
frames, padding of the last frame, `pending_done`, and `tts_active` that the AEC thread reads.
`ImplementsPlayer` is the refinement, with `Fate(u)` reading an utterance's abstract state off
buffer, channel, wire and events. What `TtsInjector` assumes of its client, that
an utterance is handed over only when the previous one was reported or given up (`givenUp`, which the client may do at
any time), is what `SpeechQueue` does: the two modules discharge each other's assumption (proved, `ClientKeepsItsWord` and
`QueueUsesPlayer`).

An utterance that was given up is the exception of `OneVoice` and `EchoSuppressed`, and it is a real one: a text longer than
60 s is heard together with the next, and what of it is left when the queue is empty is taken for the user's words.

### RtpRouting, CallLifecycle

`RtpRouting` has the maps of the Rust server and one action per step that its locks make
atomic; `remove_session` is two (`RemoveSession`, `RemoveBindings`). `AssignUnboundSession` may take *any*
session without a source: the order of a hash map.

`CallLifecycle` gives each call a `step`, the await its setup is at, and the caller's and the
dialled party's channels (`caller`, `leg`). The caller may leave at each of these awaits (`HangUp`), also while the bridge is made
and there is no session yet: then `StasisEnd` finds nothing to end and the call is set up for nobody. Its steps are `StasisStart`, `BridgeCreated` (then
`createSession`), `MediaCreated`, `RustCreated`, `Configured`, each with its failure; `StasisEnd`,
`EndSession`, `DeleteServed`; `Dial`, `LegStasisStart` (the dialled party's own listener, if it was added
in time), `LegAnswered` (`findSessionForOutgoingChannel`); `AriDrops`, `Reconnect`, `Reconcile`; and
`Crash` where `answer()` rejects and nobody catches it, or an assistant's timer does (`BrainDies`). `AssistantFails` is a setup
that ends before the row is written, because the assistant cannot be made. `Close` is `close()` on SIGTERM, SIGINT or the end of the
dashboard's server: rows and sessions are ended, and no Rust session is deleted. Events are handled until `Exit`; after it
the program is not started again, since `Crash` shows what it would find. `FirstTracked` is the search of the session map in
order of insertion: the first session that fits, or none. `early` and `mishaps` only remember which calls met an event before their session,
and which met a failed clean-up or were there when the program crashed or was stopped, so that properties can except exactly these. ExternalMedia channels are
sources named after their call. The three awaits of `endSession()` are one step.

### BrainHarness, LlmChatBrain, FlowBrain

`harness` is the record of `BrainHarness.ts` and of the flags of the controller it depends on:
who awaits the promise of `speak()` (`holder`), how many texts are still to be reported
(`playing`), the turn buffer with its timer (`buffer`), and the wait for text after a barge-in
(`awaiting`). The queue itself is `SpeechQueue`'s, reduced to what that module shows: a text is
reported once, a barge-in reports what waits at once, what is being said later, and what was added
since never.

An async method is a *task* that runs from await to await. Tasks of the LLM brain are
`onCallStart` (`start`), the two turns there can be (`turns`), and the reprompt or goodbye of the
silence timer (`silence`). `SaysAt` is the heart of it: a task that awaits `speak()` takes the one
promise there is, and the task that held it is `lost`, as in the code, where its callbacks are
overwritten. A turn is `fetch` (reading the stream), `speak`, `tool`, `backoff` (the retry's
pause), `apology`; `Fails`, `Aborts` and `ToolTakesOver` are the catch blocks. A turn that is aborted while it speaks (`aborted` =
"speaking") may say more sentences, those of the lines it had read, before its next read rejects. `late` and `dropped`
only remember that a greeting came while the brain was busy, and that an uncaught
`BargeInError` ended a turn, so that properties can except exactly these.

`FlowBrain` is parameterised by the graph. A task is one call of `transitionTo` or a prompt
that is replayed; nodes that only compute are edges (`next` is a set). Whether prompts are sound
files or texts is chosen once per behaviour: a sound cannot be interrupted and does not touch
the state.

### TtsClient, Transcription

`client[c]` is one client *object*: `reconnectTTS()` closes the current one and makes another, and
the old one lives on, since the close event of its socket is still to come. `inbox` and `wire`
are the service, which answers the requests of a connection in order; an answer names its
session and not its request (`ForActive`). `TimesOut` is the 15 s limit, which tells the service nothing.
`audio` and `tainted` are for the properties: whose chunks a request was resolved with,
and whether some request had timed out on that connection.

`Transcription` is the task of one session: `Failed` is its retry rule (the same service again after 2 s,
the next one at once, the first one after 5 s), `Drains` the emptying of the channel before a new
attempt, which is also where it notices that the session was removed.

### Engine

A process is named after the call that spawns it: "rust", "start" (`startParakeet` in the background) or a restart.
`op` is the await each call is at, `ticks` how often it has polled, `starting` and `stopping` the awaits of `start()` and
`stop()`; `proc` and `port` are the operating system's side: a process loads, binds the port or fails to, crashes,
or ends because it was told to. `Checked` is the 5 s interval of `spawnParakeetServer`, whose TCP check accepts
any listener and whose last round gives up; `SaysReady` the line on stdout, `ExitSeen` the exit event, which may come
after another check. What is left of an earlier engine, or was started by hand, is `port = "other"`. A TCP probe and what
the code does with its answer are one step.

## Runs

All runs use Spec-level bounds only; no definition is replaced. `CHECK_DEADLOCK FALSE` everywhere:
campaigns end, calls end, and the finite supply of numbers, texts or calls runs out.

| run | instance | distinct states | shows |
|---|---|---|---|
| `campaign` | two campaigns one after the other, 2 and 1 numbers, one at a time | 251 172 | slots, concurrency, results and completion are right; a campaign left running completes; the slot is not stale |
| `speech` | 3 texts (all different, or a repetition and a blank), 1 barge-in, a brain that does not await, transfer and end | 206 528 | no text forgotten, one voice, order, echo suppression; promises settle; the bot listens again |
| `tts` | 3 utterances of 1 to 3 units in frames of 2, 2 cancels, utterances given up, removal | 303 671 | what is reported was played, frames unmixed, flag right, everything reported; implements `TtsPlayer` |
| `calls` | 2 calls that may be left at every await, 1 ARI outage, the dashboard may hang up one | 386 101 | a session whose caller has gone leaves the map |
| `calls_dialling` | 2 calls, one dials and may fail at every request; the program may crash or be stopped | 2 380 773 | one source per session, no stale bindings, voice goes back, bindings stable, leaks are visible |
| `brains` | a call with the LLM brain (2 inputs, 1 barge-in, 1 reprompt, 1 tool turn, 2 sentences per response) or with a flow of 7 nodes | 212 210 | one turn at a time, the brain stops being busy, a silent caller is timed, nobody is left in a menu, nothing goes on after the call |
| `services` | 3 requests of 2 sessions, 2 clients, 2 losses; or 2 recognisers, 2 attempts each, a channel of 2, 3 chunks, 3 breaks; or the start and 1 restart, 2 polls, 2 checks | 185 896 | promises are held once and settle, a request gets its own sound, the recogniser's task finds a service and ends, calls that start a process settle and forget none |
| `campaign_slot`, `calls_isolation`, `brains_promise`, `brains_transfer`, `services_mixed` | the same instances, smaller where the counterexample is short | until the counterexample | violations of what comments and documents say, see [below](#disagreements-with-comments-and-documents) |

The properties, by what they say:

* `SlotsAccounted`, `ConcurrencyRespected`: `activeCalls` is exactly the number of calls holding a
  slot, and Asterisk never has more than `maxConcurrent` of them. `ResultsTruthful`: at most one
  result per number, the right one. `CompletionIsTotal`, `DialsOnlyWhileRunning`,
  `CampaignProgresses`: completes only, and eventually, when all was called; never dials when
  paused, stopped or complete. `SlotIsNotStale`: the dashboard is never stuck with a dead campaign.
* `QueueIsServed`, `SpokenInOrder`, `OneVoice`, `EchoSuppressed`: see the comments in
  `SpeechQueue`. `SpeakSettles`, `BotListensAgain`: liveness through duplicates, failures,
  barge-ins, lost messages.
* `DoneMeansPlayed`, `FramesUnmixed`, `ActiveWhilePlaying`, `EveryDoneReported`, `ImplementsPlayer`.
* `OneSourcePerSession`, `BindingsAlive`, `SpeaksToWhoItHears`, `LeaksAreVisible`,
  `CallerGoneIsCleaned`. `BindingIsStable` is proved only.
* `OneTurn`: at most one turn is under way, `processing` covers it, and the promise of `speak()` is
  its own. `BusyBrainComesBack`: it always ends. `IdleIsTimed`: a brain that waits has its silence timer
  set. `DeadCallQuiesces`: no timer and no turn outlives the call for long.
* `FlowIsSequential`, `MenuMovesOn`: one transition at a time, the right timeout, and a menu the caller does not
  answer is left.
* `PendingIsHeld`: an unsettled promise is held once, by the current client. `WaitersAreReleased`: it
  settles while there is a connection (`RequestsSettle`), and whoever starts or restarts a service
  is answered (`StartsSettle`). `OwnAudioUnlessLate`: a request gets its own sound, all of it.
  `CallerIsHeard`: the recogniser's task reaches a service that accepts, and ends with its session.
* `ChildrenAreKept`: a process that lives is one the engine has a handle of or is starting, as long as
  calls do not overlap, none gives up on a slow process, and Node does not exit during one.

Each is paired in `PROJECT.json` with a mutant of the code (a dropped guard, a swapped order,
a missing reset) under which TLC finds it violated. The mutated operators stand in the modules
directly before the definition they alter, with a comment saying what is different; nothing
else uses them.

**Why the bounds are enough to be interesting.** Two campaigns give a stopped campaign whose
calls are still up beside a running one; two numbers with one slot give a slot that is freed
and filled again. Three texts are one to interrupt, one that meets the interrupted loop, one that
starts the next. One unit, a frame, and a frame and a half cover all positions of an end of audio
relative to a frame; two cancels give one that comes late and one that overtakes. Two calls are
needed for anything one call can do to another. `Diallers`, `Operated`, `Faulty` and `Stoppable` say which calls
may dial, be hung up by the dashboard, meet failing requests, or be there when the program is told to stop: with every call allowed
everything the state space is many millions of states. So `calls` has hang-ups, the dashboard and the outage, for which
`CallerGoneIsCleaned` needs fairness; `calls_dialling` has dialling, failures, crashes and `close()`. What is proved of calls
holds of all of it together. `MaxDrops`,
`MaxBargeIns`, `MaxCancels` cap the counters of events from outside. Two inputs give a turn that meets
another, by text or key, or text that waits for the turn under way; one reprompt gives the reprompt and
the goodbye; one tool turn gives the tool and the answer after it. The flow has a menu that leads
to a menu, a question, a request with an error path, and two ends, and `MaxRetries` 2 gives a replay and a way
out. Two requests of one session give the late answer that is taken for the next; the third, of
another session, the one that is not. Two recognisers of which any may refuse give
both kinds of failover, three chunks a channel that overflows. The start and one restart of the recogniser give
one after the other in both orders, and overlap; two polls and two checks (20 and 18 in the code, 50 for Rust)
give one that is repeated and one that gives up. More restarts exceed a million states; what must hold of them is proved.

## Fairness

Only what must happen by itself is fair, and always weakly.

* `CampaignControl`: callbacks that are due run (Node's event loop); Asterisk resolves what
  it was asked (an originate times out, people hang up). Nobody has to pause, resume or stop.
* `SpeechQueue`: the loop steps and Rust's handling of its requests. Every await ends: synthesis has a 15 s
  limit, HTTP requests reply or fail, the wait for a notice ends with it or with its 60 s timer, which is
  `PlaybackTimeout`. Barge-ins, transcriptions, timers of barge-ins and losses are not fair.
* `TtsInjector`: the frame timer fires and the channel is polled.
* `CallLifecycle`: events on a connected WebSocket arrive, `endSession` goes on, the reconnect timer fires (or the
  program, once told to stop, ends) and the list of channels is answered or refused. That a DELETE is served is not needed.
* `MCBrains`: timers fire (turn, silence, menu, barge-in), sounds and texts come to their end, and servers answer
  or time out: the LLM has its 10 s, requests, commands and MCP tools their own limits. A tool that is a module has none
  (`ToolExecutor.ts:236`): that it answers is assumed, and a turn whose tool never does keeps the brain busy. What the caller does,
  and the end of the call, is nobody's promise.
* `MCServices`: of the synthesiser's client only its own timers (15 s limit, reconnect): no service has
  to answer. The recogniser's task runs: it connects or is refused, its sleeps end, it takes what has
  come and notices a broken connection. The engine's timers fire and its probes answer or time out; no
  process has to come up, or to end.

`CampaignProgresses` excepts campaigns that missed an event or whose ARI connection was
replaced, `CallerGoneIsCleaned` calls whose StasisEnd came before the session (`early`, which the hang-ups of run `calls`
reach) and those whose clean-up failed: there the code really has nothing that would make progress. `WaitersAreReleased` excepts a client
without a connection, whose queue waits, and a Rust server that exits with code 0; `BusyBrainComesBack` a brain whose greeting came late, and
`MenuMovesOn` a timeout that runs while an interrupted prompt still plays.

## Proofs

`tlapm` checks all of the following for every value of the constants.

**AutoDialerProofs**, from `DialerAssumption` (lists are bounded, `MaxConcurrent` is positive; any set of
dialers). `SlotsAccounted` is not inductive. `Inv` adds to the types, for each dialer: the numbers never
dialled are those behind `currentIndex` (a slot is taken once), a cleaned-up call's channel is gone and
events are sent only of channels that are gone (a slot is given back once, and only when
Asterisk has no call, or the originate was reported as failed), and `activeCalls` is between 0 and `MaxConcurrent`.
`HeardFirst` adds that only a call whose channel the dialer has hooked is recorded and cleaned up, so that one whose originate
may still fail has its slot and no result. `FillSlotsInv` shows
that `fillSlots()` restores it from any state in which a slot was freed; there is one lemma per callback. From
`Inv`: `TypeCorrect`, `SlotsAreAccounted`, `ConcurrencyIsRespected`, and the action property
`NoLateDialling`.

**CampaignProofs**, from the same assumption and that `NoDialer` is no dialer. `CallInv` relates, for each call, its results to the
request, the listeners and the events not yet delivered: a call without a result can still get exactly
one, a call that is over has the true one. `Finished` says what a campaign that completed by itself has
left: nothing. From them `ResultsAreTruthful` and `CompletionsAreTotal`. `ControlInv` adds the types of the
slot and `SlotIsNotStale`, which needs to know that a dialer that completes inside `start()` or
`resume()` does so before its listener exists. `ControlRefinesDialers` (`ControlSpec => Spec`)
carries everything proved of `AutoDialer` over to the campaigns the dashboard runs.

**CallLifecycleProofs**, from `RoutingAssumption` (the nulls are no ids) and `LifecycleAssumption`. First of the
routing alone: `RInv` says that bindings are of sessions that exist or are being removed, one each, and
that a TTS target is the bound source. It gives `OneSource`, `BindingsLive`, `VoiceGoesBack`, and the action
property `BindingsAreStable`. `CallsRoute`: every step of any number of calls is a step of
`RtpRouting` or leaves its variables alone, so `Spec => RtpSpec`, and the four routing properties follow for calls that
are set up, dial, fail, end and crash in any order. Then of the calls: `CallsInv` adds the types and `Fits`, which says
what the await a call is at tells of its sessions. In the session map (`MapFits`): only while it is set up or talks. In the
Rust server (`RustFits`): only from POST /sessions on. A call that is lost on the way is a mishap (`LostIsMishap`). A call
that was set up and whose row is no longer active has its DELETE under way, or is a mishap
(`EndedIsDeleted`): `stasisEnd()`, `reconcileSessions()` and the dashboard's hang-up end no row without a request, the request may
fail, and the two that end rows alone, `close()` and the next start of the program, make mishaps of all the calls there are
(`DownFits`). It gives `CallsAreTyped` and `LeaksAreSeen`, which therefore says where sessions leak: a crash, a stop, a failed
request, a setup that ends without a row, and otherwise only behind a row that is still active.

**BrainProofs**, from `HarnessAssumption`, `LlmAssumption` and `FlowAssumption` (the limits are numbers, the edges of the flow
lead to nodes of it): any flow graph, any number of inputs, barge-ins, reprompts, tool turns and
sentences. The invariant has a part for each brain. `LlmInv`: a turn that may call a tool has not used them all;
`processing` and `streaming` are of some turn; while the silence timer is not set, something will set it (`Timed`); a turn that
holds the promise is saying something; and, unless a greeting came late, the turn under way is the only one,
holds the promise exactly while it speaks, and the flags say so (`Turning`). That `processing` survives needs
the state the harness shows, because `onSpeakingDone()` clears it unless the turn streams or the
bot is not SPEAKING. `FlowInv`: while a flow is orderly (`Orderly`: prompts are spoken, or no key has come) one task runs, at
the node the caller is in, and no timeout beside it (`OneTask`, `TimerFits`); a task that says its prompt holds the promise
(`Prompting`); sound files are unknown to the speech queue (`Quiet`). The steps are composed of few
operators, so the lemmas are about what a step leaves behind: a task that ends its turn (`Leaving`), one whose promise is
settled (`Settled`), another that speaks meanwhile (`Waiting`); a flow's task that goes on (`Goes`), with its prompt played
(`Prompted`). It gives `BrainsAreTyped`, `TurnsAreSingle`, `SilenceIsTimed` and `FlowsAreSequential`.

**TtsClientProofs**, from `TtsClientAssumption`. `PendingIsHeld` is not inductive without the connection's
history. The invariant says that only requests that are pending are held, and only by the current client,
once each (`Held`, `HeldOnce`); that clients after the current one are untouched; and, for a connection
on which nothing has timed out, that inbox, wire and chunks together are exactly the answer of the
request in flight, at the service, on its way or half heard (`Connected`). It gives `TypeCorrect`,
`PromisesAreHeld` and `OwnAudio`.

**SpeechQueueProofs**, from `SpeechAssumption`. `SpeechInv` has four parts, one per thing that could go wrong:
`EntryInv` counts how often the entry of `sessionSpeechState` is made, so that there is one object as long as
the call is active; `Loops` says that a loop exists for what waits, in order, and that
`ttsActive` or a barge-in is set while a text is in hand; `VoiceInv` says that
what Rust has not finished with is the loop's text or was given up, and what comes next is new to Rust; `RustType` that there
are no more cancels than barge-ins. The head of the queue loop, which is the end of five actions,
has lemmas of its own (`ContinueKeeps`, `ContinueGives`). It gives `SpeechTypeCorrect`, `QueueServed`,
`VoicesAreOne`, `EchoIsSuppressed` (both of all that was not given up, as above) and the action property `OrderIsKept`, for any
number of texts and barge-ins. Two more close
the bargain with the Rust server: `ClientKeepsItsWord`, an utterance is given to Rust only in the situation that `HandOver`
of `TtsInjector` assumes, and `QueueUsesPlayer` (`Spec => Player!PlayerSpec`), the queue supposes of Rust no more than what
`TtsInjector` is proved to implement.

**TtsInjectorProofs**, from `InjectorAssumption` (frames and utterances are not empty; any number of
utterances, lengths, cancels). `Inv` says where the audio of each utterance is. `ChannelInv`: what waits in
the channel is of later utterances than all that was taken, and a "done" there is of the last one, with
only cancels behind it. `PendingInv`: a "done" that is pending is of the last utterance, whose end is in the buffer.
`BufferInv`: the buffer is in order, and what it has of an utterance is, with what was sent, all of it.
`Orphans` and `Contiguous`: only the last utterance waits, or those before it that were given up, and behind what waits
everything waits. `WireInv`: what was sent is whole frames, in
order. It gives `TypeCorrect`, `DoneIsTrue`, `FlagIsTrue`, `FramesAreWhole` and `Refinement`
(`Spec => ImplementsPlayer`): `FateTable` is the refinement mapping as a table, and each action has a lemma
that says which step of `TtsPlayer` it is – a frame is a step only when it ends an
orphan, a cancel hits exactly what is in the buffer.

**ServiceProofs**, from `EngineAssumption` (the names differ, the limits are positive; any number of
restarts), `TranscriptionAssumption` (the same of its limits) and `TtsClientAssumption`. Of the engine: `ChildrenAreKept` needs to know why a handle may be overwritten: a restart has let go of it
(`HandleInv`), and a start finds either nobody at the port, and then the process of the handle is gone, or somebody, and
then it spawns nothing. That in turn needs `PortInv` (who is up listens at the port), `SpawnInv`, that
only one call runs, and that a process that starts shares the port with nobody: without a launcher no other
service comes up. `CalmUntouched`, `CalmGoesOn`, `CalmMoves` and `CalmReady` are the four
kinds of step. It gives `EngineTypeCorrect` and `NoChildIsForgotten`.
Of the recogniser's task: `SttInv` says that audio is counted once (in the channel or in the buffer), that a
connection that is given up leaves nothing, and that the task ends only when its session is removed
(`EndsWithSession`); `FailedRecord` is what its retry rule keeps. Of all three: a step is of one of them and leaves the others alone
(`StepsOfParts`), so the specification the runs check implements that of the client and that of the engine
(`ServicesRefineClient`, `ServicesRefineEngine`), and `ServicesAreTyped`, `RecogniserStays` and
`ServicesKeepWhatTheyHold` hold of it.

**Model-checked only.** Liveness (`CampaignProgresses`, `SpeakSettles`, `BotListensAgain`,
`EveryDoneReported`, `CallerGoneIsCleaned`, `WaitersAreReleased`, `CallerIsHeard`, `BusyBrainComesBack`,
`DeadCallQuiesces`, `MenuMovesOn`): the prover has no rules for fairness and ENABLED. Every invariant and every action property
of a passing run is the subject of a theorem.

## Disagreements with comments and documents

Five runs end with a counterexample to what the repository says of itself.

1. `campaign_slot` – "You can pause, resume, or stop at any time" (`3.campaigns.md:26`): late
   calls of a stopped campaign complete it a second time, and the listener empties the slot of
   the campaign that runs by then.
2. `calls_isolation` – "isolated bridge, channels, and transcription" (`CallSession.ts:5`): with two
   calls in setup, or late packets of an ended call, audio is bound to another call's session.
3. `brains_promise` – "Returns a Promise that resolves when playback finishes, or rejects"
   (`BrainHarness.ts:176-177`): a greeting that is said late takes the promise of a turn's sentence; the
   turn waits for ever, and the brain is busy for the rest of the call.
4. `brains_transfer` – "harness already acted — stop the loop" (`LlmChatBrain.ts:445`): only the loop stops;
   the silence timer runs on and hangs up on the caller who was transferred.
5. `services_mixed` – "binary chunks always belong to the single active request" (`TtsClient.ts:12-14`): the
   late answer to a request that timed out is taken for that of the next request of its session.

Five more properties do not hold; they stand in their modules and can be added to the
configuration named, which then ends with a counterexample.

6. `StopHangsUpAll` (`Campaign.cfg`) – "Hard stop: hang up all active channels" (`AutoDialer.ts:163`): a channel
   whose originate is answered after `stop()` is tracked afterwards and never hung up.
7. `Stage2StillNeedsIt` (`Speech.cfg`) – "don't reset awaitingBargeInText here — Stage 2 still needs it"
   (`AriControllerServer.ts:759`): the `finally` of the interrupted loop resets it.
8. `ResolvesWhenFinished` (`Speech.cfg`) – `speak()` "resolves when playback finishes"
   (`BrainHarness.ts:175-177`): after a barge-in, a brain that speaks again while the interrupted loop is still
   in a request has its promise resolved by the end of the interrupted text, and its own text is
   dropped unsaid.
9. `RustSessionDeleted` (`Calls.cfg`) – "Clean up Rust RTP session" (`AriControllerServer.ts:1811`): a hang-up
   during the setup deletes the Rust session before it is created.
10. `DialledJoinsItsCaller` (`CallsDialling.cfg`) – "find its session and add to bridge"
   (`AriControllerServer.ts:1166`): the dialled party is matched to the first *pending* session, which is
   never the one that dialled it.

Read on the way, in the code alone:

* *Call lifecycle.* `close()` (`AriControllerServer.ts:2208`) ends every row and session and deletes no Rust session: a
  Rust server that outlives the process (its own container, or one found running) keeps them all, behind rows that say "ended". A
  crash does the same when the next start marks the rows. A call whose assistant cannot be made (`AssistantFactory.ts:209`) leaves a
  Rust session with no row at all.
* *Speech queue.* The wait for the end of playback gives up after 60 s (`AriControllerServer.ts:1972`) although Rust may still play a
  longer text: the next text is spoken over it, and when the queue is empty `ttsActive` is cleared while the bot is heard.
* *Auto-dialer.* An originate that fails after Asterisk made the channel frees the slot of a call that goes on.
* *LLM brain.* A `BargeInError` on the apology (`LlmChatBrain.ts:353`), which a debounce timer has begun, is caught by nobody (that on
  a greeting is: `AriControllerServer.ts:1161-1163`). In a host that handles unhandled rejections only the turn is lost, which is what
  `LlmChatBrain` follows; under `core/standalone.ts`, which does not, the process ends (`BrainDies` of `CallLifecycle`). A turn that a
  barge-in has aborted still says the sentences of the lines it had read. Text that arrived during a key's turn
  stays in `pendingText` until some later turn of text ends. The 10 s limit on a silent LLM is handled as a barge-in:
  the caller gets no answer and no apology. A greeting or reprompt that was interrupted by a noise leaves no
  silence timer. The goodbye's hang-up does not look whether a turn has begun meanwhile.
  A retry says again the sentences the first attempt had said, and calls the LLM even if the call ended during its pause.
  `notifyBargeIn` drops what the user had said before he interrupted.
* *Flow brain.* A sound replayed after a wrong key leaves the state LISTENING: the next key is taken
  while the first prompt plays, two transitions run at once, and the timeout of a menu that was left may fire. A
  menu timeout that finds the state SPEAKING is dropped for good. `retryCount` is not reset when
  a menu is entered by timeout, so the next menu has fewer tries.
* *TtsClient.* The close event of a socket given up by `close()` sets the reconnect timer of the closed client,
  which connects again and reports its status to the dashboard beside the new one. Requests
  in the queue have no time limit while the client is disconnected.
* *Transcription.* `retry_count` is not reset by a successful connection, so failures far apart add up
  to a failover. The task that reads the answers outlives the one that sends the audio.
* *Engine.* `spawnRustServer` settles neither way when the process exits with code 0 before it is
  ready (`Engine.ts:667`), and `start()` waits for ever. A restart of the recogniser during another restart, or during
  the start, leaves a process the engine has no handle of, although `spawnParakeetServer` refuses a port in use ("Safety",
  line 505): the port is free while the first still loads. So does a start that times out, which does not
  kill what it spawned (line 607); its process may bind later, and then every restart is refused. A `stop()`
  during a start leaves one too. A service the engine found running, or the launcher spawned, cannot be restarted: there is no
  handle to kill. A process counts as ready when anybody listens at the port (lines 596-602). `startParakeet` catches its
  errors, so the dashboard is told "Parakeet ready" after a failure and after a start that was skipped (lines 98-100).
* *Documents.* `3.campaigns.md:36-44` lists the result `busy`, which `AutoDialer.ts:279-287` never records (a
  busy line is `no_answer`); `ASSISTANT-ARCHITECTURE.md:549-550` gives debounces of 300 and 500 ms, the
  code has 800 and 1000 (`BrainHarness.ts:77, 144`).

## Not modelled

* The dashboard's UI and REST routes, the CLI, docker files and configuration: I/O without
  concurrent state of their own. They are more than half of the repository's lines, which is why the
  lines `PROJECT.json` maps are about an eighth of all of it, and not quite a third of the
  TypeScript and Rust of the call path.
* The Python TTS and STT services: external processes, seen as requests that succeed, fail or time out.
* `ElevenLabsTtsClient`: one HTTP request per text, no state.
* `IvrTransferBrain` and `DirectDialBrain`: they match a spoken name and dial; `CallLifecycle` lets a call dial at
  any time. OpenClaw relays; how it speaks is in `SpeechQueue` (`supersedeQueued`).
* In `Engine`: a recogniser on another host (its start is skipped; a restart would spawn one here), a second
  `stop()`, and restarts of containers, which keep no state and end in a reconnect.
* The legacy speech path through `channel.play` and sound files: used only without the Rust server.
* Audio as data: codecs, G.722, AEC, VAD thresholds, RTP headers. Textual echo cancellation and the
  cooldown windows compare texts and real time; only the flags around them are modelled.
* In `CallLifecycle`, keys and what an assistant decides to do: a call may dial, speak or do nothing at any time.
  The brains have their own modules, joined to the speech queue by what it promises.
* One ARI connection at a time; a manual reconnect that overlaps the automatic one is not covered.
* `endSession`'s awaits as separate steps, the per-session decoders of the listener, the start of the program after `close()`.

## Plan

The order was: what can lose calls or money (campaigns), what the caller hears (speech queue and
player), what happens across calls (routing, lifecycle), who decides what is said (harness and brains), and
the services behind it (synthesis, recognition). Done: all modules above. What is left, most useful first:

1. `CallLifecycle`: the awaits of `endSession`, and with them `setOutgoingChannel` on a session that
   has ended.
2. Proofs: the rest of the safety of the code read on the way, as properties of their own (what a flow's `retryCount` and a
   recogniser's `retry_count` bound).
3. A manual ARI reconnect beside the automatic one.
