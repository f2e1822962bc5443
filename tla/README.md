# A TLA+ model of the React QA service

The repository is a FastAPI service that answers questions about an indexed
document with a language model, with a React front end.  Its state lives in
Redis (accounts, sessions, chat histories, audit entries), optionally mirrored
to PostgreSQL, and in a vector store (document chunks).  Every request is an
`asyncio` coroutine; **every `await` of a Redis, database, vector-store or model
call lets another request run**, and nothing in the code (no lock, `WATCH`, Lua
script or transaction on the Redis side) makes two awaited commands one.  That
is what this project is about.

## 1. Inventory

| component | source (under `src/`) | state it keeps | operations |
|---|---|---|---|
| Accounts | `app/services/user_service.py` | `auth:users:<name>`, `auth:users:all` | create, update, delete, record_login, record_failed_login, authenticate, increment_token_version, bootstrap, list |
| Token sessions | `app/services/token_session_service.py`, `app/core/security.py` | `auth:refresh:<jti>`, `auth:refresh:user:<name>`, `auth:revoked:access:<jti>` | issue, validate, rotate, revoke, revoke all, black-list |
| Auth endpoints and middleware | `app/api/v1/endpoints/auth.py`, `app/middleware/auth.py` | none of their own (they hold claims and records across awaits) | login, refresh, logout, logout-all, register, change password, administration |
| Dual write to PostgreSQL | `app/services/*`, `app/repositories/*`, `app/db/models.py`, `app/main.py` (start-up) | the same records in tables | selection of the back ends, mirror save and delete, bootstrap, clean-up of the old admin |
| Audit log | `app/services/audit_log_service.py` | `auth:audit:logs` | append, trim, list |
| Chat sessions | `app/services/session_manager.py`, `app/services/chat_service.py`, `app/api/v1/endpoints/chat.py` | history list, metadata, per-user session set, confirm token | ensure owner, append, history, list, delete, dangerous-action confirmation |
| Document agent | `app/services/document_agent_service.py` | the state of one question's graph | classify, plan, retrieve, rerank, summarise, answer |
| Summaries | `app/services/summary_service.py` | partial summaries of one call | single, map/reduce with timeouts and fallbacks |
| Retrieval pipeline | `app/core/chunking.py`, `app/services/query_rewrite_service.py`, `retrieval_postprocess.py`, `reranker.py` | none (pure) | split, rewrite, deduplicate, rank, merge |
| Vector store and indexing | `app/core/vector_store.py`, `app/api/v1/endpoints/docs.py` | chunk keys per document | add chunks, search, list |
| Rate limit, validation | `app/middleware/rate_limit.py`, `validation.py` | counter per client and window | increment, expire |
| Front end | `App.tsx` and `web/` code | conversation, session list | submit, select, delete, log out |

How they interact: the middleware decodes the bearer token, asks Token sessions
whether its `jti` is black-listed and Accounts whether the user is still active
with the same `token_version`; the auth endpoints call Accounts and Token
sessions in turn; both write a primary store and, under dual write, a mirror,
and start-up writes the configured accounts through the same operations; the
chat endpoints call the session manager, the confirm-token functions and the
question-answering service; the latter runs the document agent's graph over the
retrieval pipeline and the model; indexing writes the vector store the agent
reads.

What is hard, per component, and what makes it correct:

- **Accounts**: read-modify-write over three commands.  Correct: every operation
  behaves as if atomic; no write undoes another one; record and index agree.
- **Token sessions**: a record and a set describe the same thing; two clocks.
  Correct: an ended session stays ended; a sweep misses none.
- **Auth endpoints**: several calls in a row, each with several commands, any
  request in flight across any other.  Correct: what a response has confirmed as
  ended never works again; a refresh token is exchanged once; a password change
  outlives every token of the old password.
- **Dual write**: two stores, no transaction over both, a mirror that may refuse,
  fail or be cut off, and settings that change from one process to the next.
  Correct: a call that succeeded leaves the stores equal, what was confirmed as
  ended is ended in both, and a start-up that succeeds has done what it is for.
- **Chat**: check-then-set of the owner, two keys per session, single-use tokens.
- **Document agent, summaries**: bounded loops, time-outs, fall-backs at each node.
- **Retrieval**: pure functions with order, limits and ties.
- **Front end**: answers that arrive after the user has moved on.

PROJECT.json lists the hazards line by line.

## 2. Modules

| module | models | kind |
|---|---|---|
| `AccountRecord` | `StoredUser` and the pure updates of it | operators, constants, assumptions |
| `Accounts` | what UserService promises: a table with atomic operations | abstract specification |
| `UserStore` | `user_service.py` on Redis, one action per command | detailed specification, refines `Accounts` |
| `TokenSessions` | `token_session_service.py` on Redis, one action per command | specification |
| `AuthApi` | endpoints and middleware, composed of `UserStore` and `TokenSessions` | specification |
| `DualWrite` | both services over two stores, with the start-up, one action per store access | detailed specification, its primary refines `Accounts` |
| `ChatSessions` | `session_manager.py`, the confirm token of `chat_service.py`, the chat and qa endpoints | specification |
| `VectorStore` | `vector_store.py` and the indexing endpoints | specification |
| `Summaries` | `summary_service.py` under the agent's overall limit, with a clock | specification |
| `DocumentAgent` | `document_agent_service.py`: the graph of one question, composed of `VectorStore` and `Summaries` | specification |
| `Lists` | what the program does with Python's lists: sort, filter, cut, add up | operators |
| `Chunking` | `chunking.py`: lines to blocks, blocks to chunks | specification (a program read step by step) |
| `QueryRewrite` | `query_rewrite_service.py`: the queries a question is searched with | operators and one action |
| `Retrieval` | `reranker.py`, `retrieval_postprocess.py` and the choice of a summary's chunks, after `Chunking` and `QueryRewrite` | specification and operators |
| `*_proofs` | theorems about the module they are named for, for every value of the constants; those about `VectorStore` and `Summaries` are in `DocumentAgent_proofs`, those about `Chunking` and `QueryRewrite` in `Retrieval_proofs`, the lemmas about `AccountRecord` in `UserStore_proofs` | proofs |
| `MC*` | values and symmetry sets for TLC | instances |

`AuthApi` takes `UserStore` and `TokenSessions` with `INSTANCE`; `DocumentAgent`
extends `VectorStore` and `Summaries`; `Retrieval` extends `Chunking` and
`QueryRewrite`, so that what it ranks and merges is what the chunker makes of some
text; these three and `DocumentAgent` use `Lists`.  `UserStore` and `DualWrite` look at the same code from two sides: the former
takes one store apart into its commands, the latter takes the two stores apart and
leaves each access whole.  Both refine `Accounts`.  `ChatSessions` stands alone: it
shares no key with the others, and what the agent does between two messages is its
`Act`.

**State.**  `users`, `userIndex`, `sessions`, `index`, `revokedAccess` are the
Redis keys (`NoUser`/`NoToken`: the key is absent).  `refreshJwt` and `accessJwt`
are the signed tokens: claims that nobody can change.  `ucall[p]`, `tcall[p]` and
`req[p]` are coroutine `p`'s local variables: the call it is in, the command it
is about to issue (`pc`), the record it has read, the endpoint and its place.

In `DualWrite`, `users[store]` and `live[store]` are the accounts and the active
sessions of each store, `rows` the session rows of PostgreSQL (which are never
deleted), `conf` the settings of the running process, `phase` and `todo` how far
start-up is, `call[p]` a call with the access it is about to make (`get` the
primary, `save` it there, `probe` PostgreSQL for the row, `mirror`).  `split` (what
only the primary got) and `ended` (what was confirmed) are history variables.

In `ChatSessions`, `history`, `meta`, `listed` and `confirm` are Redis keys,
`timed` says which have a TTL, `creq[p]` is a request; `issued`, `executed`,
`gone`, `turns`, `faulted` are history variables.  In `VectorStore`, `chunks`, `chunkIndex`
and `docMeta` are keys, `icall[x]` an indexing request, `read` the search or
listing under way.  In `Summaries`, `group[i]` is task *i* of the task group,
`reduceAt` and `begun` are when the call and the whole began.  In
`DocumentAgent`, `node` is the node of the graph and the other variables are the
fields of `AgentState`; `used` and `known` are history variables.  In `Chunking`,
`headings`, `paragraph`, `pending` are the locals of the same loops in
`chunking.py`, `blocks` and `chunks` what they have made so far; a chunk is the
`pieces` of blocks it has, with its length and metadata, and its `order` is its
place.  In `QueryRewrite`, `question`, `limit` and `queries` are the argument, the
configured number and the result of `rewrite`; a text is a sequence of symbols,
since what counts is where words, blanks, marks and polite phrases are.  In
`Retrieval`, `stage` is how far the one question is.

**Actions.**  One action is the code between two awaits.  `UserStart` is a caller
awaiting an operation, `Fetch`/`Reject`/`ReadUser` its GET and the early returns,
`SetUser`, `SAddUser`, `DelUser`, `SRemUser` its other commands.  In `AuthApi` a
handler action looks at the result of the call that returned and starts the next
call or responds; the commands in between are the steps of the two instances, so
they interleave with those of every other request.  A refresh token can be
presented once its response has been sent (`Held`).

In `DualWrite` a call is `GetPrimary`, `SavePrimary`, `Probe`, `WriteMirror`; what
PostgreSQL's constraints refuse (`PgTakes`) raises out of the whole call, and
nothing undoes the write before it.  `Fault` breaks a connection before any
command, `Stop` ends the process with whatever it was doing, `Start` runs it with
any of the settings; `BootUser`, `Cleanup` and `BootReturns` are start-up, whose
calls are the same calls.

`ChatSessions` goes the same
way: a turn is `GetOwner`, (`SetMeta`, `ExpireMeta`, `SAdd` when it bootstraps
the conversation,) `Recent`, then twice `LPush`, `LTrim`, `ExpireHistory`,
`GetOwner`, `SetMeta`, `ExpireMeta`, `SAdd`, with the model's `Act` or the confirm
token's commands between the two.  The pipeline of `add_chunks` is not a
transaction, so its SETs and SADDs are actions of their own; a search or listing
is SMEMBERS, then a GET per key in any order.  A node of the graph that awaits
nothing but a model is one action, with the outcomes of the model as choices.
`Chunking` reads one line or takes one block per action, `Retrieval` makes each of
its functions one action over any candidates and any answer of the model.

**Time** is an action: a lock, a session's TTL and a JWT's expiry may pass at any
moment (`LockExpires`, `SessionExpires`, `JwtExpires`, `HistoryExpires`,
`MetaExpires`, `ChallengeExpires`).  Only `Summaries` has a clock, since its
properties are about deadlines: `Tick` waits for what is due, and at the instant
of a deadline the answer and the time-out may come in either order.  `DualWrite`
leaves time out: both stores keep the same expiry times.

**Overlap.**  Nothing in the code stops two writes of one account from
overlapping, and several promises do not survive it.  The constants `Overlap`
and `MayOverlap` (a set of endpoints) say which writes may overlap: the passing
runs show what holds when the listed writes are serial *while everything else
interleaves freely*, the violation runs show what breaks without it.  The two
together locate the cause: the read-modify-write of `user_service.py` and the
two-key updates of `token_session_service.py`, and nothing else.

`ChatSessions` has the constant `Hazards` for the same purpose: `"overlap"` lets
requests that write one conversation overlap, `"straddle"` lets a TTL end during a
request on the conversation, `"fault"` lets any command fail or a worker die
(`faulted` remembers the conversations this happened to).

## 3. Runs

| run | instance | shows |
|---|---|---|
| `user_store` | 2 coroutines, 1 account, 2 passwords, 2 versions; writes serial | UserService implements the atomic table of accounts; record and index agree |
| `token_sessions` | 2 coroutines, 1 user, 2 refresh ids; no issue during a sweep | what ended stays ended; a live session is indexed; a sweep ends all that were established |
| `auth_sessions` | login, refresh, logout, logout-all, register, me; logins overlap each other | what a logout or logout-all has confirmed as ended never works again, with refreshes in flight; an exchanged refresh token is spent |
| `auth_accounts` | login, refresh, password change, reset, disabling, deletion; serial writes | the same for these; no token outlives the password it was obtained with |
| `auth_logout_overlap` (violated) | login and logout-all overlap | `ConfirmedEndIsFinal` fails: the login in flight saves the old token version back |
| `auth_refresh_twice` (violated) | two refreshes of one token | `ExchangedOnce` fails: both issue tokens |
| `dual_write` | requests on accounts and on sessions, 2 names, 1 session, start-up with any of 4 settings, faults and kills anywhere | the mirror is a copy but for what was interrupted or refused; confirmed ends hold in both stores; start-up aligns the configured accounts, and fails in two situations only; the primary stays an atomic table |
| `dual_delete` (violated) | one client, no fault, dual write with reads from PostgreSQL | `BackendsInSync` fails: the row of a user with session rows cannot be deleted, so a deletion ends with the account in one store only |
| `chat_serial` | 2 users, both administrators, 1 conversation, 2 confirm tokens, 3 turns; writers serial | messages, count, owner, list and deletion agree; a page is the caller's own; a confirmation acts only for whom it was sent to, and once |
| `chat_any` | overlap, failures and expiry at any point, cap of 1 message | a conversation that no request broke off on stays within its cap plus outstanding trims, and none of its keys is left without a TTL |
| `agent` | 1 question of 4 kinds, 2 documents, 2 editions, 2 indexing requests meanwhile; 2 rounds, 2 queries; 1 model call at a time | the graph ends; citations were given to the model; filters hold; a confirmed document is complete and not missed by a summary; the summary drops no group |
| `retrieval` | every question of up to 5 symbols, 2 answers of the model; every text of 4 lines (2 titles, 2 levels), chunks of 7, overlap 4; 2 documents, up to 3 candidates, 2 ids named, 2 shown to the model, 3 results, 3 chunks for a summary | the question is searched first, nothing twice, and in another form when it can be; no character is lost in chunking and no chunk too long or mixed; reranking neither drops nor doubles; a merged result is a run of one document; the choice for a summary is full, ordered, without duplicates and keeps the results |

**Bounds.**  Two coroutines: every interleaving hazard of this code is between
two requests.  One account: operations on different names share no key but the
index sets, whose updates commute.  Two or three `jti`s per kind: one session to
end and one that is issued meanwhile, a third where the requesting session is a
third party.  `MaxFailures = 2` with `TryBound`: the first failure does not lock,
the second does.  `VersionBound` limits how often sessions of an account are
ended.  Bounds are guards on *starting* a request (`Within`, `Admitted`, `Room`),
never on a request that is under way.  The theorems of section 4 have none of these
bounds.

In `dual_write` there are two names because start-up treats two: the configured
administrator and `admin`, the default of earlier settings, which it cleans up.
The settings are those that docs/auth-migration-plan.md goes through: Redis
alone, dual write, reads switched to PostgreSQL, PostgreSQL as primary; a restart
may choose any, so every step back is covered too.  One coroutine calls the
operations on accounts and one those on sessions, since the hazards are between
an operation's two writes and a failure, a restart, or an operation of the other
kind.  One `jti` and one increment suffice for a session row to stand in the way
of a deletion and for the copies to differ.

In the chat runs one conversation is enough: different ids share only the user's
set, and its members are independent.  `MaxMessages` is 1 or 2 so that the cap is
hit; three turns let a conversation be used, deleted or
expired, and used again.  In `agent`, two documents tell a document from the
others, the two editions have different numbers of chunks (so that re-indexing
leaves surplus ones) and match different questions; `TopK` and `MaxChunks` are
below the number of chunks, so that searches and summaries cut; `Parallelism = 1`
makes two waves of calls; two rounds and two queries make evidence and candidates
of one round meet those of the other.

In `retrieval` a line has length 2, so that with the newlines two lines have 5 and
two blocks of one line 6, a block of three lines 8: blocks that fit into a chunk
of 7, fit together, do not fit, and are split, the latter into two snippets that
overlap.  With a merged length of 7 some neighbours merge and some are too long.
A score is a number of 1200ths: the distances that occur divide it, so
`Relevance` is exact.  Four lines are enough for a section to begin and end; three
candidates for a pair and a third; two ids for a repetition.  The keyword query
has 2 tokens and the focus 1 (6 and 3 in the code), so that a question of five
symbols is longer than each, equal to each, or shorter; the answers of the model
contain the question with other blanks, and more texts than there is room for.

Lengths in `Summaries` are to `PerChunk = 10` as characters to 1000.  In `agent`
the edition `old` has chunks of length 14.  The default chunk has 800 characters
and no endpoint asks for another size, so with default settings the agent passes
at most what a single pass takes, and `SummaryService`'s groups and reduction are
not reached from it (README.md:14 of the repository announces them for very long
documents).  The service takes chunks of any size, and this is how the run reaches
them.

**Environment assumptions.**  `Recreate = FALSE`: a name is not registered again
while tokens of a deleted account of that name are around.  The code does not
ensure it: a new account starts at `token_version` 0 and an old token then
matches it again (see the hazards).  In `DualWrite` the operator switches the
primary only when the stores agree on everything (`split = {}`), as
docs/auth-migration-plan.md:195 asks; every other setting may change at any
restart.  The clean-up of `admin` also looks at the stored role
(user_service.py:379); the account is taken to have the role it was created with.

**Fairness.**  Only `agent` assumes any, for `QuestionEnds`: weak fairness of the
agent's next step (the event loop runs a ready coroutine; Redis and the models
answer, raise or time out) and of the summary service and the clock (time
passes).  Indexing requests get none.  `CHECK_DEADLOCK FALSE` stands where a model
handles one question or document and then stops.

**What does not hold.**  Three runs show a statement of the repository's documents
violated (`findings` in PROJECT.json): a logout-all undone by a login in flight, a
refresh token exchanged twice, back ends that differ after a deletion.  Other
things found while modelling, for which no document says otherwise:

- Two users who open one conversation id at the same time: the question of the one
  is stored in the conversation of the other (`MessagesAreOwners` fails with
  `"overlap"`; the check of the owner and the append are separate commands).
- Merging of neighbouring results stops at two: the merged result keeps the order
  of its first chunk, so a third neighbour is never adjacent to it.
- An account that only the mirror has makes bootstrap call `update_user`, which
  looks into the primary and raises: the process does not start until someone
  repairs the stores (`Stranded`; docs/auth-migration-plan.md:207-219 describes the
  look into both stores as what settled such conflicts).  The same happens when the
  old admin has session rows and PostgreSQL is the primary.
- docs/auth-migration-plan.md:173 wants a failed dual write not to block the main
  path at once; an exception of the mirror leaves the operation, after the primary
  was written.  Repeating the call repairs it (`StoresAgree`, `split`).
- With Redis as primary, reads from PostgreSQL and no dual write (a setting the plan
  does not have), the clean-up of the old admin deletes it from a store that is
  not the one it was found in.  `BootAlignsHolds` excludes this setting.
- The front end adds the turns of a late answer to whichever conversation is
  selected when it arrives (App.tsx:882).

## 4. Proofs

| module | theorems (each `Spec => []...` or `Spec => ...`) |
|---|---|
| `UserStore_proofs` | `UserTypeCorrect`, `NoStaleWriteHolds`, `EveryUserListedHolds`, `StoreImplementsAccounts` (refinement), `TokenVersionMonotone` |
| `TokenSessions_proofs` | `TokenTypeCorrect`, `EndedStaysEndedHolds`, `LiveIsIndexedHolds`, `SweepIsCompleteHolds` |
| `AuthApi_proofs` | `ApiTypeCorrect`, `ExchangedIsSpentHolds`, `ConfirmedEndIsFinalHolds`, `TokensFollowPasswordHolds` |
| `DualWrite_proofs` | `DualTypeCorrect`, `EndedEverywhereHolds`, `StoresAgreeHolds`, `PrimaryIsAtomic` (refinement), `StartRefusedOnlyThen`, `BootAlignsHolds` |
| `ChatSessions_proofs` | `ChatTypeCorrect`, `OnlyConfirmedActsHolds`, `ExpiryIsComingHolds`, `HistoryIsBoundedHolds`, `ConfirmedOnceHolds`, `DeletedIsGoneHolds`, `LiveIsListedHolds`, `MessagesAreOwnersHolds`, `PageIsOwnHolds`, `CountCoversHistoryHolds`, `AnswersFollowQuestionsHolds` |
| `DocumentAgent_proofs` | of the summary service: `SumTypeCorrect`, `InTimeHolds`, `FallbackMeansDeadlineHolds`, `AtMostParallelHolds`, `NoGroupIsDroppedHolds`, `OneWaveIsNotCutHolds`; of the store: `ListedIsStoredHolds`, `ConfirmedIsCompleteHolds`; of the agent: `AgentTypeCorrect`, `CitedChunksExist`, `KnownIsSummarizedHolds`, `FilterIsKeptHolds`, `CitedIsUsedHolds`, `RoundsAreBounded`, `AgentReadsStore`, `ConfirmedForQuestions`, `SummariesForQuestions` |
| `Retrieval_proofs` | `ChunksFitHolds`, `NothingIsLostHolds` of the chunker; `QueriesAreSoundHolds` of the rewriting; `RerankIsCompleteHolds`, `ResultsAreWholeHolds`, `SelectionIsSoundHolds` |
| `Lists_proofs` | lemmas only: induction, sorting, picking, adding up, flattening, for lists of any length |

The type invariants (but for the agent's and the endpoints', which a run checks
too), `NoStaleWrite`, `ListedIsStored` and `InTime` are proved and not listed in a
run.

`UserStore_proofs` proves type correctness from `UserInv` (types and the order of
the commands of a call), for any overlap.  Under `~Overlap` the strengthening is
`NoStaleWrite`: at most one writer per account, and what it holds is what the
table holds.  It is what makes SET the linearization point of an operation, hence
the refinement of `Accounts`; monotony of the token version follows from the
refinement rather than from the code again.  `ListedOrComing` (a record is listed
or its SADD is to come) gives `EveryUserListed`.

`TokenSessions_proofs` proves `TokenInv` (a live session carries its own token's
claims; an issue has its `jti` to itself until it returns) and, with it, that
ended sessions stay ended, for any overlap.  Under `~Overlap`, `SweepInv` adds
how far each sweep is, and yields `LiveIsIndexed` and `SweepIsComplete`.

`AuthApi_proofs` reuses the step lemmas of these two for the instances inside
`AuthApi`, and adds what the composition needs.  `ApiInv` says which call a
request awaits at each of its places and with which arguments (`Fits`), and that
a token exchanged once is over (`Spent`); `Grows` says what no step undoes.  Both
hold for any `MayOverlap`.  `OwnStep` lists what a handler's step can be (a request
arrives, goes on, responds), so that the invariants that follow are proved per
kind of step rather than per handler.  `EndInv` is for `MayOverlap \subseteq
{"login"}` and `~Recreate`: a copy about to be saved has the account's present
version and password, no token is ahead of its account, and a request that has
raised the version or deleted the account leaves the tokens it set out to end
behind it for good.  Two logins may overlap because neither changes version or
password.  `PwInv` rests on `EndInv`: a token (access or refresh) of the account's
present version was obtained with the account's present password, unless a request
that may have changed the password is still on its way to the increment
(`Changing`); that increment leaves every token there is a version behind.  It has
to follow the password through a login (`KnowsPassword`: the one compared is the
account's until the tokens are sent), and through a refresh, whose new tokens have
the version and the password of the token it spends.

`DualWrite_proofs` proves `DualInv` (types, and what a call holds at each access)
for any overlap and fault; with `EndsComing` - a session about to be confirmed as
ended is out of the primary, and nothing issues it again - it gives
`EndedEverywhere`.  Under `~Overlap`, `SyncInv` says that a call that is halfway
carries to the mirror what the primary has, which gives `StoresAgree`, and the
refinement of `Accounts` takes the save in the primary as the operation.
`BootInv` follows start-up: the accounts done so far are aligned, and a refusal
comes from an account that is stranded or a row that is in the way.

`ChatSessions_proofs` proves `ChatInv`: types, the order of the commands of a
request (`InOrder`: a confirm token is compared before it is deleted, and deleted
before the action), that a stored challenge was sent to the key it is stored under
(`ChallengesMatch`) and that a compared one is the caller's (`Confirmed`).  It
holds for every `Hazards`.  For a conversation that no request broke off on,
`ExpiryIsComing` is inductive given the types, and `HistoryIsBounded` is: an LPUSH
adds one message and one request to `Trimming`, an LTRIM takes one away and cuts
to the cap.  The others need that requests writing one conversation do not
overlap, and no more than that for `ConfirmedOnce` (`OnceInv`), `DeletedIsGone`
(`DeleteInv`) and `AnswersFollowQuestions` (`AnswersInv`), whatever expires or
fails; `LiveIsListed` (`ListedInv`) also needs that no request breaks off;
`MessagesAreOwners` and `PageIsOwn` (`OwnersInv`) and `CountCoversHistory`
(`CountInv`) need `Hazards = {}`.  The theorems so say which hazard each promise of
the session manager survives.

For the summary service, `DocumentAgent_proofs` proves `SumInv`: types; a call is not awaited beyond its own
limit, nor the whole beyond the overall one (`CallsInTime`: `Tick` is disabled
when something is due); a task is done only with a draft (`GroupsKept`); and,
when the groups fit into the limiter, all calls begin at once (`OneWave`), so that
they are over before the overall limit and only the reduction can be cut.  TLC's
instance shows the two-wave case, the theorem the one-wave case for any number.

For the store it proves `StoreInv`: a chunk is stored before it is listed
(`Progress` says how far a request is, and what it has written); other requests
only overwrite or add, so nothing that a request has listed is lost.  The agent's
steps leave the store alone (`AgentReadsStore`), so this holds under it.

For the agent, `FilterInv` follows matching chunks from the search to the
citations, `CitedInv` the citations from the material of the answer, `RoundsInv`
bounds the rounds.  `AgentInv` puts these, the store's and the summary service's
invariants together and adds what the agent holds: every chunk in its hands is one
that an edition has, under a key that is listed (`HeldInv`; `Sized` says why: a key
is only ever written with an edition long enough to have it), and the store is read
and the summary service at work only in the nodes that await them (`NodeInv`).  It
gives the types, that only chunks of an edition are cited, that the lengths passed to the summary service are defined, and
with this that what is proved of the summary service holds for every question
(`SummariesForQuestions`).  `KnownIsSummarized` needs more: `CollectInv` follows a
listing.  A key confirmed before the question, or among the evidence, is still to
be got or already found while its document is listed, since listed keys are never
withdrawn and always hold something; the pages collected so far are of whole
documents; and where there is evidence, some document gets listed, so that the
fall-back to the evidence itself is taken only when there is none.  That an edition
may change under the listing does not matter, and the theorem says so.

`Retrieval_proofs` is about functions over lists of any length.  The library's
induction theorems take an operator as a parameter, which the provers here cannot
instantiate; `Lists_proofs` states induction for a *set* of numbers instead
(`SetInduction`), derived from the library's theorem that a well-founded relation
has minimal elements, and from it the existence of recursive functions
(`Recursion`), what a sum or a concatenation does with one element more, and that a
sort (`Sorted`) lists its set, each element once and in order, when the order is
strict and total.

- `FitInv` (every text): the pending blocks form a group, that is they fit together
  and agree in path, page and kind, so the chunk they become fits too; an oversized
  block is cut into windows that are no longer than a chunk (`StrideFacts`).
- `LostInv`: the rows of the blocks and of the open paragraph are the lines read so
  far, and the pieces of the chunks and of the pending group cover the blocks taken
  so far without a gap; the windows of a split block overlap but leave nothing out,
  and the last one reaches its end (`SnippetFacts`).
- `RewriteInv` (every question, answer of the model and limit): `_dedupe_queries`
  keeps the first of each normal form, so the question itself stays first.
- `RerankInv` (every candidates, every list of ids the model names, repeated or
  unknown ones too): what is named once, followed by the rest, is each candidate once.
- `ResultsInv`: the fold that merges neighbours keeps a run of whole chunks per
  result, and apart (`MergedOf`); sorting by place before it is what makes two
  results of one document comparable.
- `Sound`: the sample over the document (`CoverageFacts`) and the chunks of the
  results are merged without repetition, filled up and cut; a chunk that is a result
  has the highest relevance and fewer such chunks than results can precede it, so it
  is in the share that is kept.

Assumptions used: the `ASSUME`s of the modules (named, evaluated by TLC), and the
hypotheses (`~Overlap`, `MayOverlap`, `Hazards`, `Configs`) where a theorem states
them.

Only model-checked: `QuestionEnds`, since fairness and ENABLED are out of the
prover's reach.  Every other property of a passing run is stated by a theorem.

## 5. Not modelled, and why

- **Audit log**: one capped list and an INSERT, appended to and never read by the
  program; awaits of `append` only add interleaving points where the modelled
  state is at rest.  `list_entries` limits before it filters, a matter of display.
- **Front end**: a client of its own, in the browser; it keeps none of the
  service's state, and no document or test says what a late answer should do.
- **Rate limit and validation**: a counter per client and second and checks of
  headers and sizes.  **Feedback**: one LPUSH that nobody reads back.
  **Operations endpoints**: read only.
- **ReAct engine**: a stub that returns one step; `QAService` has no caller.
- **Model clients, file parsing, configuration**: their outcomes (an answer, an
  error, a time-out) are choices of the models that call them.
- Roles: `role` is copied from the claims; it takes part in no state change here.
- Password hashing, JWT encoding: a password is compared, a JWT is its claims.
- Reads for the response body (`GET /me`'s second read, the re-read at the end of
  `PATCH /users`): no state depends on them.
- Expiry of access tokens and of black-list entries: the model's entry lives as
  long as the token.  In the code the key's TTL and the token's `exp` are rounded
  to seconds (see the hazards).
- Titles, previews, time stamps and texts of messages; entries that do not parse
  (only this code writes them).  `GET /chat/sessions` only reads.
- What a model is asked, and traces and steps of the agent.  A planner, rewriter,
  reranker or answer model is a choice of its outcomes; the JSON around an answer
  is left out.
- In `DocumentAgent`, which chunks of a long document a summary keeps (`Limited`
  allows any `MaxChunks` of them in order: `Retrieval` says which), which score
  best (`Best` allows any), and which queries are made (`QueryRewrite` says which).
- In `Chunking`, what a line says: its kind and length are choices.  In `Retrieval`,
  the arithmetic of the fallback score (any order is allowed) and the JSON of the
  model's answer (any ids).  The duplicates that `_dedupe_chunks` looks for: two
  chunks of one document and order, which an index of one edition does not have.
- Chunks whose vectors have another dimension (the embedding model is fixed while
  the service runs); documents that yield no chunk (refused before anything
  is written).
- A document's metadata may name its id or not (`Tagged`), never another's id.
- Deletion of documents: the vector store has none, and chunks of an earlier,
  longer edition stay.  The model keeps them; nothing in the docs promises
  otherwise.
- `POST /auth/users/bulk-delete`: one deletion after the other.

## 6. What is left

The order of work was that of importance: accounts and sessions
(state with read-modify-write), then conversations, then documents, then the second
store.  Left over, in the order of what they would add:

1. `Conversation`: the front end's state, once it is decided what a late answer
   should do.
2. The remaining hazards without a property (PROJECT.json says why each has none):
   tokens of a deleted account, the rounding of TTLs, surplus chunks of an earlier
   edition.
