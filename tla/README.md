# WariVerse in TLA+

Formal models of WariVerse, the assistant for the pilgrims of the Pandharpur
Wari: a FastAPI backend (`src/wariverse-backend`, four uvicorn workers over
PostgreSQL and Redis) and an Expo app (`src/Frontend/artifacts/wariverse`).
Paths below are relative to `src/wariverse-backend/app` unless they start with
`Frontend`, which stands for `src/Frontend/artifacts/wariverse`.

Run things from this directory: `tlc -config SosDispatch_room.cfg MCSosDispatch`
checks a run, `tlapm SosDispatchProofs.tla` the proofs of a module.
`PROJECT.json` lists runs, mutants, hazards, findings and theorems, and maps every
definition to the lines it models.

## 1. The system

| Component | State it keeps | Operations | Status |
|---|---|---|---|
| Emergency dispatch: `services/sos_service.py`, `routers/sos.py` | `sos_events` rows; pushes on `sos:new`; SMS to the control room | `trigger`, `list_active`, `set_status`, `resolve` | modelled |
| Sessions and consent: `services/session_service.py`, `routers/conversation.py`, `services/llm_orchestrator.py` | a session in Redis (`wv:session:*`), in each worker's memory, in `sessions` | `resolve`, `save`, `record_turn`, `set_pending_sos`, `escalate`, `ensure_row`, `sync_context`; chat message, SOS confirm | partly |
| Assistant: `services/llm_orchestrator.py` | the tools' outcomes of a turn | `process_message`, `_run_llm`, `_execute_tool`, `describe_outcomes`, `_rule_based` | partly |
| IVR menu and call endpoints: `services/ivr_state.py`, `routers/ivr_session.py` | `state.ivr` of the session; receipts `ivr:turn:*` | `next_state`; `start`, `dtmf`, `voice`, replay of a turn | partly |
| App's IVR client: `Frontend/services/ivrApi.ts`, `components/IVRActiveCall.tsx` | turn number, turn id, round, the prompt on screen | `start`, `press`, `speak`, retry, canned answer | partly |
| Twilio webhooks: `routers/ivr.py`, `twiml.py` | the session of a call, in Redis, memories and its row | answer, language, transcribe, dtmf, status | partly |
| OTP sign-in: `routers/auth.py` | `otp_codes`, `users`, Redis counters of sends and attempts | send, verify | modelled |
| Chat rate limit: `routers/conversation.py` 263-295 | one Redis counter per session | INCR, EXPIRE | modelled |
| Community facilities: `services/community_service.py` | listings in PostgreSQL and in each process's memory | create, deactivate, lock, unlock, list | partly |
| Crowd readings: `services/crowd_service.py`, `crowd_simulator.py` | `crowd_readings`, a cache per zone | read, record, override, tick; curve, forecast, waits, advice | modelled |
| Temple information: `services/temple_service.py` | a row and a cache entry per language | get, update | modelled |
| IVR audio: `services/ivr_audio_cache.py`, `tts.py` | cached clips, a warm-up lock, a manifest | warm, synthesize, store | modelled |
| Lost and found: `routers/lost_found.py` | reports, a sequence of reference numbers | allocate, create, get | modelled |
| Redis and database handles: `redis_client.py`, `db.py` | a health flag per process; a session per request | init, ping, get | modelled |
| Facility, route and palkhi look-ups: `services/facility_service.py`, `route_service.py` | a counter of Mapbox requests | nearby, nearest, guidance | partly |
| Start-up wiring and composition: `main.py` | none of its own | `lifespan` | partly |
| Speech to text: `services/stt.py` | none | a call to an external provider | not modelled |
| App state and screens: `Frontend/store`, `services/api.ts` | one screen's state | requests to the endpoints above | not modelled |
| Configuration, schemas, logging, i18n | none that changes | declarations and formatting | not modelled |

How they meet. Every endpoint that talks to a pilgrim loads the whole session
through `SessionService.resolve`, changes its own copy and writes it back; nothing
locks the session in between. The panic button, a confirmed chat prompt and key 1
at the call's confirmation all end in `SosService.trigger`, which resolves the
session again, stores the event, pushes it over Redis pub/sub to the control room's
dashboard, activates it, texts the control room and answers with a card. The
dashboard polls `list_active` and calls `set_status`. The app repeats IVR requests
under one turn id, and the server keeps each answer in Redis as a receipt. The other
services meet through the handles of the two stores alone: each process has one Redis
client and a flag that says whether it believes in it, which a crowd look-up clears for
everything the process serves and the readiness probe sets again.

What is hard. Four workers share no memory, so every `await` is a place where
another request runs; a worker can die at any of them; Redis may be unreachable,
flushed or restarted, and the code then falls back on the worker's memory or on
PostgreSQL; a commit can be applied although its acknowledgement was lost; a request
can be retried while its first attempt still runs.

What makes a component correct:

- dispatch: an emergency leaves a trace before anybody is told; its card does not
  claim more than the store holds; the pipeline does not undo what the control room
  did; a stored emergency stays on the dashboard until somebody closes it;
- sessions: whichever copy a request finds, it goes on where the pilgrim was; no copy
  carries a consent nobody was asked for; an emergency has a session row to hang on;
- calls: only 1 at the confirmation prompt raises an emergency; a key acts once,
  however often it is sent; the caller looks at the menu the server is at;
- sign-in: the hourly limit holds and is lifted again, a code is used once;
- chat: no more messages pass in a minute than the limit, and it is lifted again;
- listings, readings, temple: what was published is seen, and what was withdrawn,
  overridden or corrected does not come back from a memory or a cache, within the limits
  §3 names;
- audio: one warm-up at a time, whole clips, a manifest that is true; references: unique;
- look-ups: help in range is never missing, the service's own line keeps off a crush while
  there is a way around, a forecast agrees with the reading it starts from;
- phone calls: a caller who said where they are is found; the assistant: a report's
  reference reaches the pilgrim whatever becomes of the model.

## 2. The modules

### EmergencyLedger and SosDispatch

`EmergencyLedger` says what the dispatch promises: an emergency is entered in the
ledger, or in the error log that is reconciled by hand, before anybody is told of it
or answered; it stays open until somebody orders it closed.

`SosDispatch` is `sos_service.py` split at its awaits. `row[e]` is the event's row
(status, whether `resolved_at` is set, the notes, the insertion order), `told` what
Redis accepted, `texted` the SMS, `logged` the error log; `pc[e]`, `session`, `loaded`
and `announced` are the request's locals.

| Action | Code |
|---|---|
| `Trigger` | the look-ups at the head of `trigger`, with or without a session id |
| `PersistCommit`, `PersistFail`, `Refresh`, `RefreshFail` | `_persist_pending`: the INSERT's commit, acknowledged, failed, or applied but unacknowledged; then the separate `refresh` |
| `Publish`, `PublishFail` | `_publish` |
| `Activate`, `ActivateFail` | `_activate`: an UPDATE of `status` alone, and only if it differs from what was loaded |
| `Answer` | `_alert_control_room` and the card |
| `SetStatus`, `Commit`, `Abandon` | `set_status`: its SELECT; its UPDATE of the columns that differ from that SELECT, under READ COMMITTED; or neither |
| `Crash` | the worker dies |

A failing commit in `_activate` rolls back, which expires the ORM object; the log line
then reads `event.id`, which needs I/O the handler cannot do, so the request fails.
`RefreshFail` and `ActivateFail` model that.

### IvrMenu and EmergencyConsent

`IvrMenu` is `ivr_state.py` as operators: `next_state(state, key)` gives the next
state and the action the endpoint performs.

`EmergencyConsent` is one client's session and the requests on it. `hot[s]` is the
session in Redis, `ptr` the key from the client's token to a session id, `mem[w]` the
memory of worker `w`, `row` the row with that token. A request has a point `pc[r]`, a
kind (`message`, `yes`, `confirm`, `cancel`, `panic`, `start`, `voice`, or a key) and the
copies it holds: `found`, `own`, `kept`. A session is abstracted to its id, a pending
confirmation, an escalation and the menu position.

| Action | Code |
|---|---|
| `Arrive` | a request reaches a worker |
| `Look`, `Select`, `Create`, `Adopt` | `resolve`: the pointer and the copy in Redis, the row, a new row, the save and the new pointer |
| `Handle` | what the endpoint decides from its copy (`Yes`, `Confirm`, `Cancel`, `Start`, `Press`, `Voice`) |
| `Turn` | `process_message`: the tools the assistant calls, and what stays pending |
| `Raise` | `_resolve_session` and `ensure_row` inside `trigger`, and the caller's clean-up |
| `Save`, `Sync` | `save`; `_persist_messages` or `_sync_context`. `voice` goes through them twice: for the turn, and for the older copy it kept |
| `VoiceUnusable` | no transcript |
| `Flush`, `PointerExpires`, `Outage`, `Recover`, `Crash` | Redis empties, a key expires, a store goes away and returns, a worker dies |

History variables say what the pilgrim was told: `asked`, `waiting` and `place` follow
the answers given; `prompted` and `armed` remember whether a confirmation was ever asked
for, and whether 4 was ever pressed at the menu.

### IvrTurns

One call over a bad network: the app's side of a turn (`client`, `round`, `screen`), the
attempts under way (`live`), the server's menu position and its receipts.

| Action | Code |
|---|---|
| `Begin`, `Unheard` | `sendKey`, `finishTalking`: a turn with a number and an id; a recording that came out empty |
| `NoReply`, `Retry` | `attempt` and `request`: a timeout, a dropped connection or a retryable status; the next round, or the canned answer of `mockApi.ts` |
| `Check` | `_replayed_turn`, which Redis may fail |
| `Apply`, `Store`, `Remember` | `dtmf` and `voice`: the transition and what it performs, `_store`, `_remember_turn` |
| `Refuse` | a recording answered with 400, 413 or 415 |
| `Reply` | the answer, dropped unless its attempt is still awaited and its turn is the latest |
| `Lose`, `Forget` | a lost request or answer, a dead worker; a lost receipt |

The stored menu position is one cell here; what the three copies of a session make of it
is `EmergencyConsent`'s subject. A recording the assistant answers leaves the call in
`speech`; an emergency it may confirm is `EmergencyConsent`'s too.

`ScreenTrue` holds in a call whose turns did not overlap even when attempts of one turn
do, or its receipt is lost: pressed again, a key leaves the menu where its first press put
it. Only `#` does not (`HungUp`): from a prompt it leads to the menu, from there it ends the
call, and an ended call is opened again by any key (`ivr_state.py` 279-280). So a hang-up
sent again while its first attempt is alive, or after its receipt was missed, can leave the
server one step past the answer on the screen; with `#` pressed, `ScreenTrue` asks that
there was no such turn.

### Handles and Services

`Handles` is `redis_client.py` and `db.py`: `redisUp` and `dbUp` say whether the stores
answer, `healthy[w]` is the flag `_healthy` of process `w`. `Answered(w)`, `Raises(w)`
and `Executes` are the outcomes of a call. `LookupFails` is the crowd service giving up
on Redis, `ping_redis` the readiness probe, `RedisAway` and the like the outages.

`Services` puts the twelve modules below on these handles. They share no other state
while they run, so a behaviour of `Services` is one service (`service`, of the instance's
`Studied`) on up to three processes under everything that can happen to the handles it
uses: interleaving two of them would multiply the states and add no behaviour of either.
A service that does not run stands still, and is given no choice of initial state.

### CrowdReadings and CrowdFigures

One zone of `crowd_service.py`. `zoneCache` is the key `crowd:{zone}`, `reading[i]` the
readings, `begun` their order by `recorded_at` (the start of the transaction, not its
commit), `stored` those committed.

| Action | Code |
|---|---|
| `read_zone`, `read_zone_select`, `read_zone_fill` | `read_zone`: the cache, `_read_db`, `_write_cache` of what was read |
| `update_crowd`, `tick` | the administrator's override; the simulator, at most `MAX_STEP` from the cached reading |
| `record`, `record_cache`, `record_commit` | `record`: the look at the previous reading, the cache, the row |
| `EntryLost`, `CrowdDies` | the TTL or Redis; a process dies |

`CrowdFigures` holds the functions: `curve_density`, the status bands, `forecast`,
`recommendation`, `advice` (waits and `alternates`). Python's `round` of a float that is
an exact half may go either way, so the rounded values are sets.

### TempleCard

`card` is the cached card, `row` the row, both functions from fields to the number of the
edit that wrote them; `copy[w]` and `change[w]` are a request's locals. The session of an
update holds the row it refreshed (`expire_on_commit` is off, `db.py` 57-59), so the `get`
that closes the update answers with that object, and caches it, whatever another update has
stored since: `_read_row` prefers the copy. `stale` is the set of processes whose copy is
older than another's update, or the default for want of the database.

| Action | Code |
|---|---|
| `get`, `get_row`, `get_fill` | `get`: cache, `_read_row` or the bundled default, the write-back |
| `update`, `update_commit`, `refresh`, `update_clear` | `update`: the row loaded; the UPDATE of the changed columns or the INSERT, acknowledged, failed, or applied but unacknowledged; `refresh`; `_clear_cache`; then `get` in the same session |
| `CardLost`, `TempleDies` | the hour passes; a process dies |

### OtpSignIn and ChatLimit

`OtpSignIn` is `auth.py` for one phone, split at the awaits of `send_otp` and
`verify_otp`. `sends` and `sendsExpire` are the hourly counter and whether it has a TTL,
`attempts` that of the guesses, `codes[c]` the rows, `recent` the newest. `ChatLimit` is
`_check_rate_limit` split between INCR and EXPIRE; `limit_lost` is either of them carried
out and its reply lost. A message that is not told its count passes, whatever the count is;
`passed` counts those that were told and passed.

### CommunityListings and LostFound

`CommunityListings`: `table[l]` is a listing's row, `memory[w][l]` the copy of process
`w`. `create`, `create_commit`, `change_row`, `change_copy` and `change_commit` are
publication and the three changes, each from the row or from the copy; either commit may
be applied and not acknowledged. `active(w, box, near)` are the lists `w` may give somebody
who asks for the listings `near`, with `box` around them: the query has no ORDER BY and is
cut to `RowLimit` rows (500), the copies are merged, the radius applied and the rest cut to
`ListLimit` entries (100 by default), so `Cut` gives any subset of that size. `stands[l]`
says what a listing's provider was told, or what a withdrawal did. `HostRestarts` empties a
memory. `LostFound`: `nextval` is the sequence,
`reference[f]` what filing `f` was given, `rows` the stored ones. `create_report`,
`allocate_reference_id`, `report_commit`, `_notify_dashboard` and `report_answer` are the
request, `DeskDies` the end of it at any step.

### NearbyFacilities and RouteGuidance

`NearbyFacilities` is one search: `nearby` takes the question, `_candidates` reads the
table or the bundled places, `check_mapbox_rate_limit` and `limit_window` the shared
counter, `_fetch_mapbox_pois` the outside places, and `nearby_answer` merges, filters,
sorts and cuts. Places lie on a plane in ten-thousandths of a degree, distances are whole
metres. `RouteGuidance` is `_zone_statuses`, one look-up of a zone after the other while
`Shift` changes them, then `guidance` over the scores and `_fetch_mapbox_route`, which says
whose line is drawn: the service's own along the chosen approach, or Mapbox's.

### SpeechClips

`clips[t]` says how much of a text's clip is cached and for how long; `manifest`,
`warmLock` the two keys of the warm-up; `job[w][p]` where prompt `p` is in `w`'s run.

| Action | Code |
|---|---|
| `warm_static_prompts`, `warm_lock`, `warm_done`, `warm_unlock`, `stop` | the run: the manifest, SET NX EX, the manifest again if all was clean, the unconditional DELETE; cancelled or dead |
| `_warm_prompt`, `warm_synthesised`, `_synthesize_patiently`, `warm_keep` | one prompt under the semaphore: cached, synthesised, given up, kept for a month |
| `speak`, `synthesize`, `speak_store`, `speak_fails` | a live request: the pieces of a stream, and the clip cached once it is whole |
| `ClipExpires`, `ManifestExpires`, `LockExpires` | the TTLs |

### PhoneCall

The session of a Twilio call, of which only whether the caller's place is known is told
apart: `hot[s]` in Redis under the `pointer`, `mem[w][s]` in a process, the row `session`;
`state` is the copy of the webhook and that of the status callback.

| Action | Code |
|---|---|
| `answer`, `choose_language`, `language_saved`, `ensure_row` | the greeting and the choice of language |
| `transcribe`, `_remember_spoken_location`, `_handle_digit` | speech or keys; a zone named for the first time |
| `_ask`, `_ask_fails`, `_emergency`, `_escalate`, `hold`, `record_turn` | what the turn does and its recording |
| `call_status`, `finish_call` | the status callback |
| `HangUp`, `KeysExpire`, `LineDies` | the caller, Redis, a process |

`resolve`, `save`, `_persist_messages` and `_sync_context` are operators here: the handlers
use them at a point each. Their interleavings in the app's sessions are
`EmergencyConsent`'s subject.

### AssistantTurn

One turn: `outcomes` is the list of `ToolOutcome`s, `filed` the reports committed,
`reply` the sentences and `cards` the cards of the answer.

| Action | Code |
|---|---|
| `process_message`, `model_calls`, `model_answers`, `model_breaks_off` | `_run_llm`'s rounds: tool calls, a last word, or nothing, too late, too many |
| `_execute_tool`, `_tool_report_lost_found`, `report_refresh` | the tools; a report is committed and then read back |
| `describe_outcomes`, `_rule_based` | the answer without the model, `classify_intent` over keyword hits |

### Proof modules and MC modules

`SosDispatchProofs`, `EmergencyConsentProofs` and `IvrTurnsProofs` hold the theorems of
their modules. Those of `Services` are in `ServicesProofs` (references and listings),
`SignInProofs` (codes), `CacheProofs` (temple and clips), `CrowdProofs` (readings) and
`CallProofs` (phone call and assistant). `MCSosDispatch`, `MCEmergencyConsent` and
`MCServices` add symmetry sets, value sets and a view. `IvrTurns` needs none.

## 3. The runs

| Run | Question | Instance |
|---|---|---|
| `sos_room` | Does the control room keep its notes and closing times against a late trigger? Is the invariant of the proofs true? | 1 emergency, 3 status calls |
| `sos_crowd` | Is nobody told of an untraced emergency, is the card true, does a stored emergency stay visible, is the ledger kept, does a request end? | 2 emergencies, 1 status call, a page of 1 |
| `sos_500` (violated) | Does a failed write still answer? | 1 emergency |
| `sos_reopened` (violated) | Does a reopened emergency read as open? | 1 emergency, 1 status call |
| `session_calm` | Requests one at a time, every kind; Redis may lose anything at any moment. Does the conversation go on where it was? | 1 slot, 2 session ids, every kind and tool, no trouble |
| `session_storm` | Two overlapping requests and an outage or a crash: can a stale copy raise an emergency nobody was asked about? | 2 slots, 1 worker, 3 ids, chat requests, 1 trouble |
| `session_split` (violated) | Does an emergency have a session row while the database is up? | 2 slots, 2 workers |
| `session_voice` (violated) | Does a voice turn keep the escalation it asked for? | 1 slot |
| `turns_retry` | Does a turn act once, and does the caller look at the menu the server is at? | 2 turns of an impatient caller, 1 retry each; keys 1, 4 and `#` and a recording |
| `turns_screen` (violated) | Did a caller who raised an emergency see the confirmation? | 3 turns, no retries, keys 0, 1, 4 |
| `services` | Does each of the twelve services keep what it promises through an outage, lost keys, deaths and overlaps? | 3 processes, 1 outage; below |
| `assistant_told` (violated) | Is a reference told when the model breaks off? | the same |

The bounds. Two emergencies and a page of one are the least for which an event can
drop off the dashboard's list; emergencies do not read one another's rows otherwise.
Three status changes allow close, reopen, and one that overlaps. `session_calm` reuses
its slot for ever, so it covers every sequence of requests, of any length: the state
carries no counters. `MaxTroubles` bounds outages and crashes; one is enough for a
copy to go stale in Redis or in a memory, and two slots for a lost update. `MaxTurns`
bounds a call; two turns let one follow, overlap or outrun the other, and one retry
makes two attempts race; two turns are also enough for `#` to follow a 4, and so to be
acted on at a prompt and again at the menu. The theorems have no such bound. Three is the least
number of turns with which `turns_screen` can go wrong. Uuids are fresh members of a
finite set, which may run out; the runs without a check for deadlock stop there, or when
every call and request has been made.

`services` (2.7 million states, under four minutes) is the sum of twelve instances. Three
processes are a reader, an administrator and the simulator, or a visitor and two
operators, or two of anything that can overlap and, where it matters, a third that looks
on; all code of a service that overlaps does so in pairs. One outage of either store may
come and go at any moment (for readings, temple and OTP that is what makes a copy
stale). Readings: 2 records, one overriding, one superseding or racing it, densities 10
and 50 apart so that `MAX_STEP` bites. Temple: two edits of two fields, which may be
different ones. OTP: 2 codes, a limit of 1 send and 1 attempt: each limit is reached and
passed. Lost and found: 3 filings, two that overlap and one after a failure. Chat: a limit
of 2 and two processes. Listings: two, and both limits 1, so that a listing may be crowded
out of a query or a list. Facilities: two places to ask from, both limits, a provider's place that is a namesake of the nearest
bundled one, and a Mapbox limit of 1. Routes: three ranks in every zone, two lengths, one
change while they are read. Clips: two prompts, a text only spoken live, two pieces, one at
a time. The call: two lines, two sessions. The assistant: three tool calls, of four tools
and one made up; the pilgrim's words by their keyword hits. `CrowdFigures` is checked for
two zones, all 24 hours and four densities at a quarter to: the shifted and the plain
curve, and reductions on both sides of the midnight. A service may reach its bound and
stop there, hence no check for deadlock; a bound on retries or deaths is named in the
module.

Conditions in the properties say when the code gives up a promise: `clash` (two status
changes of one event overlapped), `logged` and `touched`, `Calm` (no failure, no overlap;
losing Redis' contents is allowed), `hurried` (a turn was sent again while its first
attempt was still alive), `unreceipted` (its receipt was not written, or not there),
`crowded` (a turn began before the last one was over). In the services: `clean` (no one
overlapped the override), `slipped` (the cached card is that of a `stale` process, or an
update ended without dropping it), `uneven` (two sends looked before either was counted, or
a count was lost),
`orphaned` and `stuck` (a counter was made and not dated), `doubted` (two verifications
held one code, or its commit failed), `shared` (a publication left a row and a copy),
`overrun` (a lock went before its holder was done), `gone` (a prompt's clip was lost,
replaced or never taken), `strayed` (a session's copy in a memory, or a second session).
Each is a history variable set by
the action that brings the condition about; the comments of `_replayed_turn` and
`_remember_turn` accept the consequences of the receipt ones. Several of them are a hazard
of the code itself, so the property that excuses it does not say that it goes well: it says
that nothing else breaks the promise. `PROJECT.json` lists the hazards, each with what the
properties named there leave open.

`Concludes` is the liveness property checked: weak fairness on the steps of a running
trigger request. The clients of Redis and of the SMS gateway have timeouts, and the event
loop runs what is ready; the database has no statement timeout, so there it is assumed
that PostgreSQL answers or the connection breaks. Nobody owes a trigger, an operator's
call or a crash. The other specifications assume no fairness.

Every property of a passing run has a mutant in `PROJECT.json`: an operator beside the
one it replaces, named for the mistake, that the run must notice.

### What the violated runs show

- `sos_500`: with a failed activation commit the pilgrim gets a 500 for an emergency
  that is stored and pushed; `sos_service.py:21` says a failed write does not fail the
  request.
- `sos_reopened`: an operator resolves the event between the push and the activation;
  the activation writes ACTIVATED over it and leaves `resolved_at` set.
- `session_split`: two concurrent first requests; the loser of the INSERT race becomes
  the session Redis points at, has no row and can get none.
- `session_voice`: `voice` stores the copy from before the turn, so an escalation made
  in that turn disappears although nothing failed.
- `turns_screen`: a canned answer shows the main menu while the server waits for a
  confirmation; 1 for the crowd status raises an emergency.
- `assistant_told`: the model's first report is refused and its second filed, then it
  breaks off; the answer words each tool once, by its first outcome, and a phone call
  has no cards, so the caller is not told the reference.

Other places where code and words part, met while modelling; the modules do what the code
does, and no run is spent on them:

- `get_db` always yields a session once `init_db` ran, so the branches that answer 503
  for a missing database are not taken: statements raise, and the answer is a 500.
- A tick looks at the previous reading in a cache whose TTL is the tick's interval: when
  the entry has just expired `MAX_STEP` does not apply.
- `TempleService.get` caches the bundled card for an hour when the database could not be
  read; a reader that missed the cache writes an older reading, or card, over a newer one.
- Of two temple updates that overlap, the one that refreshed its row before the other's
  commit may clear the cache and cache that older row after the other has finished
  (`temple_service.py` 76-82); "visible immediately" (`routers/admin.py` 156-157) then waits
  for the hour.
- Listings beyond the 500 rows of the query, or the 100 of the answer, are not shown, and the
  query has no order (`community_service.py` 279, 292): which they are is left to PostgreSQL.
  With a place, the 500 are taken from the box around the radius, so that a short list may
  miss a listing in range.
- A withdrawal whose commit was applied and not acknowledged is answered with a 500 and has
  taken the listing down all the same.
- An INCR that Redis applied and whose reply is lost is counted, and its message passes
  whatever the count (`conversation.py` 279-285); if it made the counter, nothing dates it.
- `verify_otp` may answer 500 after the code is used up, when the closing refresh fails;
  likewise a lost-and-found report the assistant filed is called failed.
- `_candidates` falls back on the bundled places whenever the query is empty, so places
  taken out of service come back; `open_only` does not apply to volunteers' offers; a
  place of Mapbox hides a bundled one of its name, though it be farther.
- Mapbox's directions know nothing of the crowd: where they answer, the line, the distance and
  the time returned are Mapbox's and may lead through a zone the answer warns of, under the
  `route_id` and the `avoid_areas` of the approach chosen (`route_service.py` 138-193).
- `check_mapbox_rate_limit` has ChatLimit's gap between INCR and EXPIRE, on a key all
  processes share.
- `_describe` reads keys `get_route_guidance` never sets, and answers a missing route or an
  unknown zone as if the place were missing (`llm_orchestrator.py` 1209-1210, 1230-1232).
- `POST /speak` catches only `SynthesisError`; the second `GET /speak` of `voice.py` is
  never reached; a 200 without audio counts as a clean warm-up, and a live request that
  overlaps the warm-up leaves a day's clip under a current manifest.
- The status callback may overwrite what the webhook still running is about to record
  (`ivr.py` 196-207), and `_load` prefers an older copy in memory to the row.
- "A route is as bad as its WORST point" (`route_service.py` 287-289), yet the number of
  its busy zones is compared first (297-301). `tests/test_ivr.py` 298 expects a silence to
  end the call: the document says so after its gather, but `actionOnEmptyResult`
  (`twiml.py` 115) makes Twilio post the silence, and the call listens again.
  `get_redis` (`redis_client.py` 59) promises None only if Redis was never reachable; the
  crowd service clears the flag at any error. Nothing calls the palkhi's
  `advance_simulated_position`.

## 4. The proofs

Every property of the passing runs but the liveness one is a theorem, 38 in all with the
inductive invariant of `SosDispatch`. They hold for every value of the constants under the
named assumptions (`LimitAssumption`, `EmergenciesAssumption`, `PhoneAssumption`;
`NoSidAssumption`, `KindsAssumption`, `ToolsAssumption`, `TroublesAssumption`;
`MaxTurnsAssumption`, `RetriesAssumption`; of `Services`, `StudiedAssumption` and that of
each of its modules), which TLC evaluates in the runs. They say no more than what the code
fixes: that the limits are positive, that the zones asked about are those of the table, that
places have whole coordinates and come in finite numbers.

**SosDispatch.** `Traced` and the others are not inductive: they say nothing of a
request half way. `IndInv` is `Pipeline(e) /\ Room(e)` for each emergency. `Pipeline`
says what the request has done by each step: nothing is told before the row or the log
entry; while no operator has touched the event, the row is PENDING before the
activation and ACTIVATED after it. `Room` says that a lone status change in flight
still sees the notes and the closing time it is about to overwrite. `Inductive` proves
it (`PipelineStep`, `RoomStep`); `TracedCorrect`, `CardIsTrueCorrect`,
`ConnectedCorrect`, `AckedNoteCorrect`, `ResolvedIsTimedCorrect`, `VisibleCorrect` and
`OperatorWorkCorrect` follow. `LedgerCorrect` proves the refinement of
`EmergencyLedger`, step by step. So every safety property of `sos_room` and `sos_crowd`
is proved.

**EmergencyConsent.** `TypeCorrect` splits by stores, requests and history.
`GroundedCorrect`: every copy of the session, in Redis, a memory, the row or a request,
claims only a prompt that was made once (`Sound`). It is inductive as it stands: a step
copies a sound state or makes a new claim together with the prompt, and prompts are never
taken back (`PromptsStay`, `SoundStoresStep`, `SoundRequestsStep`).

The other four are about calm weather, and rest on `CalmInv`: `OneByOne` (at most one
request is under way); `CalmStores` (both stores answer, no memory keeps a session, Redis
has the row or nothing, except between `Save` and `Sync`, when it has what the request is
about to write; and the row, unless it is being written, says what the pilgrim was told);
and for the request a `Stage`: what it found is the row, what it is about to write says what
the pilgrim was told. `OnlyOne` turns a step into a step of that one request, `CalmStep` goes
through them, and every loss in Redis keeps it, as it only removes copies.
`WrittenThroughCorrect` is then a reading of `Told`. For `YesAnswersPromptCorrect` and
`KeyConfirmsCorrect` only `Handle` decides to raise (`OnlyHandleDecides`,
`WhyItDecides`), from a copy that by `Grounded` was led there once, in any interleaving,
outage or crash, and by `CalmInv` is where the pilgrim is. `EmergencyHasSessionCorrect`:
a request about to raise has found the row.

**IvrTurns.** `TypeCorrect` needs that a turn waits for a next round only while one is
left, and that an attempt that acted has an answer (`Typed`). `AppliedOnceCorrect` rests
on `OnceInv`: turns are numbered in order; a turn that was neither hurried nor
unreceipted has at most one attempt under way; and if the server has acted on it, its
receipt is there or that attempt is on the way to write it.

For the other two, `Agrees(view)` says that every answer under way, every receipt and the
screen are where the turn takes the menu or has taken it, and that taking the turn again
changes nothing, as far as `view` tells prompts apart. `AgreesStep` proves it of any view
under which keys repeat to no effect, while turns do not overlap. `DispatchConfirmedCorrect`
uses the view that sees only whether the confirmation is asked (`Asked`): it holds for all
keys, `#` too (`ConfirmRepeats`), and a 1 never leads to the confirmation. `ScreenTrueCorrect`
uses the view that sees every prompt, which holds for the keys other than `#`
(`PromptsRepeat`) as long as the call is in the menu (`InMenu`); for a call with a `#` it
has `OneAnswer`: with no turn hurried or unreceipted each acts once, and everybody has the
one answer.

**Services.** A frame lemma at the head of each proof reduces a step of `Services` to a
step of the module at hand, of the handles, or to nothing of its variables; it needs no
assumption on the other services. Then:

- `OneReportPerReference` (`LostInv`): references given out are distinct and not above the
  sequence, and every row, and every request past its allocation, has one. Only then does
  a reference find one report.
- `PublishedForAll`, `WithdrawnForGood` (`ListingsInv`): a listing whose publication is
  pending is known to nobody else; one outside `shared` lives in the row or in copies,
  never in both; a change under way starts from a row. So a column-wise commit cannot
  bring a withdrawn listing back. `CutFacts` says what the two cuts may leave out of a list.
- `SendsLimited` (`SendInv`, with `Even`): while nothing was uneven, sends follow one
  another and the counter is the codes issued, one less between row and count.
  `SendCounterGoes` is inductive with it. `CodesSignInOnce` (`CodeInv`, with `Held`): a
  code that is not doubted is held by one verification at most, which found it unused.
- `NoEditLost`, `CorrectionsSeen` (`TempleInv`, with `Edited` and `Visible`): an update
  that saw a row commits to a row, which has the newest edit of each field; a copy that is
  not `stale` is the row or the default (`UpToDate`); and unless it slipped, the cached card
  is the row's or about to be dropped.
- `NeverTwoWarmers`, `ClipsAreWhole` (`ClipsInv`, with `Received`, `Locked`,
  `Remembered`): a live request comes to store only with all pieces; a warmer at work holds
  the lock unless one was overrun; and a prompt it is done with, or that the manifest
  stands for, has its month's clip or is in `gone`.
- `OverrideHolds` (`CrowdInv`, with `Recording`, `Alone`, `Parted`, `Undisturbed`): while
  the override runs undisturbed everybody else is idle and its record is the last to
  begin, and so the newest row from its commit on (`LastIsNewest`); afterwards cache, row
  and whatever is about to be written back agree until the next record.
- `PlaceReachesEmergency` (`PhoneInv`, with `Numbered`, `HasSession`, `Ordered`,
  `Placed`): as long as no copy strayed there is one session; from the first durable turn
  with the place on, every copy an open call can find, and the one its webhook holds, has
  it. `Stores` and `Resolves` prove it for all steps that write and that look.
- `ReportsAreShown` (`TurnInv`, with `Accounted`): reports are numbered as they are filed,
  each is an outcome with a card except the one being read back, unless the database was
  away.

- `ChatLimited` (`ChatInv`, with `Fair`, `Room` and `Lasting`): the messages told their count
  and about to pass have distinct counts within the limit, none above the counter, so those
  and the ones that passed fit into both; a counter without a TTL is about to be given one
  by the process that counted 1, or is stuck.
- `ClearRouteTaken` (`RouteInv`, with `ReadsSeen`): every status read was one of its zone's
  since the look-up began. So an approach clear throughout is read as clear, a zone congested
  throughout as congested, and the scores put the first before any through the second. The
  line drawn is that approach's only where Mapbox gives none; the warnings are the same in
  either case (`Advised`).
- `HelpIsAnswered` (`HelpInv`): the posts sought are among the candidates at every stage, from
  the table or the bundled list. A post missing from the answer is then beyond its cut, so
  that the nearer places fill it, or was dropped for a namesake.
- `ForecastContinues` (`FiguresInv`): the blend of reading and curve has weight 1 at the first
  hour and 0 from the fourth on, and in between lies between the two, by whole numbers; then
  so does either rounding.
- `ServicesTypeCorrect` puts the types of the handles and the twelve services together, from
  one lemma each. The bounds in them are results: sends and those about to send fit into the
  codes (`Counts`), sequence numbers into the reports (`Minted`), the numbers of sessions, turns
  and outcomes into the calls that make them (`TurnFits`).

Only model-checked: the liveness property `Concludes`. Out of the prover's reach are
liveness under fairness and ENABLED, induction over data, and modules with RECURSIVE
operators; no module here declares one. The violated runs are TLC's counterexamples.

## 5. What is left out of the modelled parts

- The deployment without a database (`db is None`) in `EmergencyConsent`: sessions then
  live in Redis and memory alone. `SosDispatch` covers it as a missing session and a
  failing persist.
- A session has one client token, and location, language and the history of messages are
  left out. A missing location is a branch of `Activate` and of `Turn`.
- Adjacent writes of the same copy are one step, as are the two reads of Redis in one
  look-up. `trigger`'s own look at the session (`sos_service.py` 345) is not repeated in
  `PhoneCall`; a second session it might make there is `strayed`.
- `IvrTurns` counts an answer that breaks off in its body as no reply; `json().catch(() =>
  null)` (`ivrApi.ts` 116) makes an empty answer of it, which is not sent again.
- The text of prompts, cards, widgets and SMS; the presets' shortcuts, dialling and
  hang-up in `IvrTurns` (`start` answers with the menu position it sets, and hanging up
  ends the call).
- `confirm_sos` does not look at the pending prompt, so a retried confirmation raises
  twice; the code promises nothing there, and no property asks for it.
- In `Services`: the words, languages, layout and tokens of answers; the check of Twilio's
  signature; hashing and delivery of codes; audio formats and Google's token. Requests to
  outside providers are their outcomes.
- `routers/community_facilities.py`: one INSERT and one SELECT on a table of its own, with
  nothing kept between them.
- The palkhi: a look-up gives the first halt, from the cache or bundled, as nothing moves
  the simulated procession.
- Not modelled: speech to text (a stateless call whose failure is a branch of its callers),
  the app's other screens (they hold what the last answer said), middleware, configuration,
  schemas and reference data (declarations; the tables the modules compute with are in the
  modules).

## 6. The plan

Done: `SosDispatch` with `EmergencyLedger`; `IvrMenu` and `EmergencyConsent`; `IvrTurns`;
`Handles`, the twelve services and their composition, with proofs.

The proofs of every safety property the runs check are done too; on the way `ScreenTrue` had
to give up calls whose hang-up key was acted on twice.

Left, in this order:

1. Abstract specifications of listings and clips (a set that withdrawals leave for good; a
   partial map of whole clips) as refinements of their modules, model-checked and proved.
2. Compose `AssistantTurn` with `EmergencyConsent`: the tools an app's turn calls decide
   what stays pending.
