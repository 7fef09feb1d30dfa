# tgWatch in TLA+

tgWatch keeps several Telegram accounts logged in through TDLib, mirrors parts of their state in MongoDB and shows them on web
pages and over a small RPC interface. It is one Go process; its difficulties are goroutines that share state without a lock, a
login spread over web requests and two goroutines, updates handled in no order, calls of TDLib and MongoDB that fail, and
restarts. This directory models these parts in TLA+, checks them with TLC on small instances, and proves the most important
invariants with TLAPS for instances of any size.

Line numbers below are those of `src/`. External to the code, and modelled from how it is used: TDLib (what it knows, the updates
it sends, the pages it answers), the login loop of go-tdlib (`client.NewClient` calling `Handle`), and the death of a Go process.

## 1. Inventory

| Component | State | Operations | Hard behaviour | Correct when |
|---|---|---|---|---|
| Login conversation, `tdlib/authorizer.go` | four channels of capacity one, a context of 60 s, the state the page shows | `Handle` (called by go-tdlib), `ChanInteractor`, `Close` | two goroutines, the deadline at any time, blocked requests | no send on a closed channel, answers match their questions, no hang |
| Account creator, `tdlib/creator.go`, `controller.go:443` | `CurrentAuthorizingAcc`, the authorizer and channel of the login | the add-account page, `RunAccountCreationFlow` and its goroutine | requests race over one unguarded object; crashes; failed saves | what is saved is the phone's own and logged in |
| Accounts storage, `db/accounts.go` | collection `accounts` | `LoadAccounts`, `SaveAccount`, `GetSavedAccount` | every call may fail | an active account stays active |
| Accounts store and start, `account/`, `cmd/tgwatch/main.go` | the running clients, the cancelled context | `AccountsStore.Run` with `Account.Run` and `RunTdlib` before the web server; the signal and its 30 s | updates before `t.tdlibClient` is set; an account whose start failed but whose TDLib runs on; a nil cursor; a login nobody can answer | whatever else fails, each active account is served or failed, or MongoDB without a cursor ends the process; only an early update meets a nil client |
| Chat-list mirror, `updatesListener.go`, `tdApi.go:514,623`, `tdMongo.go` | rows (chat, list) with an order | handlers of four updates, the page's refresh | a goroutine per update, reload against updates, partial failure | a chat in a list has its row and order |
| Join marks and chat cache, `tdApi.go:136,394` | `localChats` | `MarkJoinAsRead`, `GetChat`, `cacheChat` | check-then-act against TDLib; many writers of the cache, two for each answer | no regular message is hidden; an older answer never comes back to the cache |
| Chat folders, `tdApi.go:566`, `tdMongo.go:33,145` | `t.chatFolders`, collection `chatFilters` | `SaveChatFilters` and a goroutine per folder | an unguarded slice that handlers assign and read | no folder is missing without a cause |
| Public post search, `tdApi.go:786`, `rpc/handler.go` | a directory of files by day, query and offset | one page; the filtered search with its crawl | concurrent writers, a crash within a write, midnight | whole files, one answered query a day, distinct judged posts |
| Delete by pattern, `controller.go:377` | the scan's position and matches | scan the history, delete | the chat changes under the scan; a loop without end | no match passed over, nothing else deleted |
| Text rendering, `web/utils/text.go` | one pass over entities | `RenderText` | nested entities, slice bounds | every character once, in its entities |
| Scheduled forwards, `tdApi.go:742`, `updatesListener.go` | `sentMessages` | forward, then poll for the sent messages; send | late and failed sends; an id that two chats share; no caller in the repository | an answer has the forwarded messages, each once |
| Chat-list page, `controller.go:233` | none of its own | the lists, the cached, owned and unassigned chats, the groups in common | one page is many queries, with updates and reloads between them | a page shows what the mirror has |
| Requests, `web/middleware.go`, `web/handler.go`, `rpc/handler.go` | a cookie | `detectAccount`, the routes that need an account | cookies of another run; accounts that failed | no page or call reaches an account without a client |
| Custom routines, `modules/customRoutine.go` | none | react to messages of two hard-coded chats | run with the client of the moment | as for the start |
| Other web pages, configuration, MongoDB client, helpers, generated RPC code | none of their own | format answers | - | not modelled, see section 7 |

How they meet. The add-account page calls the creator, which starts a login; the login's `ChanInteractor` publishes the state the
page reads, and takes what the page posts. What the login ends with, the creator saves to `accounts`; the next start of the
process reads it and runs a client per active account. The client's result handler starts `UpdatesCallback` in a goroutine for
every update *and every answer* (`tdApi.go:83-85`), and these write the chat rows, the folders and the chat cache that the pages
and the RPC handler read. The list page's refresh deletes and reloads the same rows.

The hazards, each at its line, are in PROJECT.json with the properties that cover them, or a note where none does.

## 2. Modules

    LoginStages --- AuthSession                abstract login
         |               ^
         |               | SessionSpec (refinement)
         |           Authorizer  <- AuthorizerProofs
         v
    AccountCreation  <- AccountCreationProofs
    ChatLists        <- ChatListsProofs
         ^                    |
         | Spec (refinement)  |
    ChatPage         <--------+
    ScheduledForward
         |
    Serving          <- ServingProofs
    ReadMarks        <- ReadMarksProofs
    ChatFolders      <- ChatFoldersProofs
    DayAnswers                                 abstract file cache
         ^
         | OneAnswerADay (refinement)
    PublicPosts      <- PublicPostsProofs
    PatternDelete    <- LoopProofs
    RenderText       <- LoopProofs

Every component has an `MC` module and one or two `.cfg` files. PROJECT.json maps each definition to its lines. Definitions whose
comment begins with "A faulty ..." or "Mutant" are changed forms of the definition after them; no specification uses them, and
they serve to show that each property can be violated by a plausible mistake in that code.

**LoginStages, AuthSession.** The promise of one login: TDLib may ask for a code and then for a password, each question gets one
answer, and a login ends only while no question is open. `Moves` is shared with AccountCreation.

**Authorizer.** `Handle` and `ChanInteractor`, one action per receive, send or branch; a channel of capacity one is a value or
`Nil`. `LibAsk` and `LibReturn` are go-tdlib's loop, which never hands `Ready` to `Handle`, so that `ChanInteractor`'s branches
for `Ready` and for a closed channel of the authorizer are unreachable. The 60 s of `Handle` begin before it waits; `Deadline` may
fall at any time. `Submit` is the page's post, which blocks on an unbuffered channel. A request posts at most once.

**AccountCreation.** A step is the code between two calls that leave the process. `Find`, `SetCurrent`, `SaveNew`, `Spawn` and
`Check` are the request in `RunAccountCreationFlow` and after it; `Show` to `FlowClear` the login's goroutine. A panic in a
request is recovered by net/http; one in a goroutine is `Die`. `sess`, the TDLib directories, outlives the process. `Start` is
`AccountsStore.Run` with `RunTdlib` (`Hangs`, `Clients`). The history variable `overlapped` says that two phones were in work at
once. Login stages move along `LoginStages!Moves`, which Authorizer is shown to implement.

**ChatLists.** `Move`, `NewMessage`, `Join`, `Leave` are TDLib's and post updates, an unordered set since each has its own
goroutine; equal updates stay apart by a number (`Copy`). `HandlePlaces`, `HandleAdded` and `SaveChatFolder` are the handlers;
`Refresh`, `DeleteRows`, `Load*`, `GetChats`, `SaveRow` the refresh. A refresh whose deletion fails ends where the count of no
result is read, or goes on when there was a result beside the error (`DeleteFails`). Orders are small numbers; the archive is
handled like the main list. `UpdateChatRemovedFromList` is left out because its handler returns at once, so the row of a removed
chat stays with order 0. `cut` records why a row may be missing, and `may` the orders it may end with: those of the updates that
were in flight when TDLib posted the last one, and what writes since then left.

**ChatPage.** One view of `/l` beside the whole of ChatLists, which it extends: every step of a page leaves the mirror alone, or
is a `Join` of TDLib (`AddChat`, the form of the groups in common), so that ChatPage implements ChatLists. A page looks at a chat
at a time, and the view "not in any folder" reads the rows of one folder after another for it; a read that fails is an empty one,
as in the code. `known` remembers which of the rows the page read are still as it read them: a page says nothing of a row that
came or went while it was made. Two panics end a request and not the process: the member that is nil after CHANNEL_PRIVATE
(`OwnedPanics`) and the chats that are nil when the groups in common fail. The chats in `localChats` and the cached folders are
any, as other answers and ChatFolders leave them. The page's own refresh is the one of ChatLists. The process may end at any step
of a page, among others by ranging over `localChats` while a chat is cached (`tdApi.go:697`).

**ScheduledForward.** Messages sent to a chat get ids that count within the chat; `sentMessages` is keyed by the id alone, so that
`SendSucceeded` replaces another chat's message. A call looks its ids up one by one, again and again, until it has as many as it
forwarded, or gives up and drops what it took. Anything else that sends is `SendMessage`.

**Serving.** The process from `main` to its end. An account's start goes through `Stages`: folders, login, version, `GetMe`, the
assignment of `t.tdlibClient`, the store. `Login` makes its TDLib `live`, and from there on updates come, before the client is set
(`early`) and also when a later stage fails, for a failed account is passed over and its TDLib goes on. `Asks`, `Custom` and
`CallTdlib` are an update's handler, which reads `t.tdlibClient` when it uses it or, in a custom routine, when the routine is
called; a nil client ends the process there, as nobody recovers it. `LoadChatFolders` drops the error of `Find` (`tdMongo.go:148`)
and reads the cursor, so that MongoDB down, or a signal, which cancels the context of its calls, ends the process: in main while
an account still waits to start, or in the goroutine of an update of the folders (`ReloadFolders`). A signal that comes when all
accounts are started leaves the web server up until the timer (`Deadline`). A request has a cookie of any account, or none.
`Quiet` and `NoForwards` are bounds: forwards share nothing with updates and requests but the process, so they are made when
nothing else is at work.

**ReadMarks.** The handlers of joins in one chat (chats share nothing), other people's reading and deleting, and the chat cache.
Every answer of `GetChat` reaches the cache twice: by the caller and by the goroutine that sees the same result (`Echo`). These
goroutines are counted for each answer (`echoes`), so that equal ones stay apart. Whoever else calls `GetChat` (pages, handlers of
other updates, the filling of a folder) is one of `Callers`: unforced, it asks only when the cache has no chat (`GetChat`,
`GetChatAnswers`, `GetChatCaches`). A custom routine asks the TDLib client itself, and only the result's goroutine caches what it
gets (`CustomRoutineAsks`). `recent` is TDLib's newest answer with those that were still to be cached when it came; `gone` has the
joins that were deleted before their handler looked.

**ChatFolders.** The handlers of `UpdateChatFolders`, their goroutines, `wg.Wait`, the load and the assignment of `t.chatFolders`.
That assignment stores three words without a lock: a read during it may give anything, and two at once may leave anything
(`garbled`). A folder is its id; rows are never deleted; a load that fails to read
assigns nil, as the code does, and one without a cursor ends the process (`Restart`).

**PublicPosts, DayAnswers.** DayAnswers is what the cache directory promises: a page has one answer a day, there at once and until
midnight, and one that is lost stays lost. `Kept` is what a search of the day finds of a page: a whole answer, nothing yet, or a
file that was spoilt. PublicPosts is the code. The day's files of one query (queries share nothing). `os.WriteFile` is a
truncation (`Open`) and a write; overlapping writes may leave a torn file. At midnight a search that is at a file becomes `late`
and goes on with yesterday's, which nobody else sees. The filtered search goes on with the empty offset after the last page, which
is page 1 again (`wrapped`). An answer that says the limits are exceeded is cached like any other. `getLinks` is the constant
`Links`; of the links, TDLib knows and resolves any.

**PatternDelete.** The scan of the history, page by page; TDLib answers with the newest messages before `lastId`, as many as it
likes. The loop leaves a page at its first message that does not match when none before it did, and goes on from there. Others
write, edit and remove messages at any time; `touched` records those. A content is one that a person wrote, one without a text, or
one whose text the code itself makes up (`GetContentWithText`), and the pattern is looked for in what that function returns.

**RenderText.** The loop over a text's entities. A character is its place and the entities it is wrapped in. The entities are as
TDLib sends them: ordered, disjoint or nested.

## 3. Runs

| Run | Bounds | What it shows |
|---|---|---|
| authorizer | 3 posts, 1 login | `NoSendOnClosed`; `AnswersMatchForms`: a code is never checked as another answer unless it was posted twice; `LoginSettles`: no submission, login or page is left open by the program itself; refinement of AuthSession |
| account_creation | 3 requests, 2 phones | while no two phones are in work at once: `ActiveIsOwn`, `LoginOwnsCurrent`, `ActiveStays`; `OverlapWindow`: how two come in work; `FailureBlocksCreation`: a login that failed keeps its account in work, one that ended otherwise left it active |
| active_is_served | same | **violated**: an account that became active has no client until a restart, though readme.md:25 strikes that out |
| serving | 2 accounts, 2 updates at once, 1 request, 2 chats, 2 messages to each | `RequestsHaveClients`, `DeathHasCause`, `ForwardIsWhole`; `StartSettles` under fairness: no failed account keeps the next one from its start, unless the process ends |
| chat_lists | 2 chats, 1 folder, 2 refreshes, 2 updates in flight, limit 1 | `MissingHasCause`, `OrderHasCause` under failures and restarts |
| chat_page | 1 chat, 2 folders, 1 refresh, 2 updates in flight | `MissingHasCause` where an update has places in two lists, saved one by one; `PageHasCause`: a page that reads one folder after another, under failures and restarts |
| loaded_are_listed | 2 chats, 1 list, nothing fails | **violated**: a refresh that `LoadChats` answers with ok leaves chats without rows, though the log and comment at `tdApi.go:539-540` call it ok |
| read_marks | 2 messages, 1 other caller and a custom routine; these wait while a result with the same count is on its way (`MaxResults` = 1), the joins' handlers do not | `RegularStaysUnread`, `CacheHasCause`; `LoneJoinIsRead` under fairness |
| chat_folders | 2 folders, 2 handlers | `MissingHasCause`, `CacheHasCause`, `HandlersEnd` |
| public_posts | 2 searches, 2 pages, 5 posts, limits 2 and 3 | `DayIsCached` (`OneQueryADay`: TDLib answers once for a page of a day; `WholeFiles`), `AnswerIsSound`; `OneAnswerADay`: refinement of DayAnswers, also by a search that is under way at midnight; `SearchEnds` |
| pattern_delete | 4 messages, pages of 3, limit 2 | `ScanIsExact`, `EndsWithEnough` |
| render_text | 4 characters, 4 entities | `ShownRight` |

Each run checks a type invariant besides.

Why the bounds are enough. Two requests suffice for every race between them, and the third is one that answers, or that comes
after a failed login. Two phones are what it takes for them to get mixed up. Two accounts are one that fails and one that must
start after it; two updates are one before and one after the client is set. Two chats of two messages share an id, and one forward
can find the other chat's message. In the chat lists a limit of 1 with two chats leaves one out; two updates of one chat can be
handled in the wrong order; two refreshes can delete under each other. An update with a place in two lists, whose write may stop
half-way, needs a second list: chat_page has it, with one chat that moves between the two while a page reads one after the other;
that orders are right with several lists rests on the proof (`OrdersAreTdlibs`). Two messages are a join with another before or
after it; that marking hides no regular message among any number rests on the proof (`RegularsStayUnread`), and so does what the
cache ends with among any number of callers and results (`CachesHaveCause`). Of two folder handlers
one misses what the other assigns, and two assign at once. Five posts are a forward, two that count, one that a link adds and one
that only a deeper crawl would add; a limit of 3 is reached only by wrapping. Pages of three are the least that begin with a
match, a miss and a match. Four entities make three of one range, with one beside them, possible.

Symmetry is used only where no liveness is checked (requests, phones, chats, folders).

**Properties with causes.** Much of this code cannot promise what one would like: a failed write is only logged, handlers have no
order. Such properties read "holds, unless one of these recorded things happened". The history variables that record them excuse
no more than needed: `cut`, `may`, `missed`, `garbled`, `unsure`, `recent` and `fate` are taken back by the step that repairs
the state, `known` loses a row that changes, `wrapped` and `touched` last for one search or scan, `gone` is about one message;
only `overlapped` stays for good, because what was saved under two phones is never repaired.

**What the exceptions show of the code.** They are reachable, and each is a way this code goes wrong: two phones posted at once
share one creator; a position that was overtaken while its update was in flight may be saved
last; an answer that was overtaken before it was cached may stay in the chat cache; a MongoDB that is down, or a signal during the
start, ends the process through a nil cursor; an update that comes before
its account's client is set ends the process, and so does, at any time, one of an account whose start failed after its login; a
page may miss a chat that moved between its folders while it read them; a scheduled forward may answer with another chat's
message; a refresh may leave a list incomplete; torn and empty cache files fail every search of a day; a search whose pages hold
only forwards never ends, nor does a deletion with fewer matches than its limit; a text with three entities of one range, or one
within a longer one, is shown more than once, though the comment at `text.go:37` takes such entities for nested.

## 4. Fairness

Goroutines and request handlers are weakly fair: they are runnable, and their calls end (the client's fallback timeout of 60 s, 10
s for MongoDB). Nothing else is: not the operator, the deadline, other people, failures, crashes or midnight. TDLib's closing
(`TdClose`), which the login waits for, is fair. In Serving the start of the accounts is fair except for `Login`, which waits for
a person or for ever; nothing is assumed of the timer of 30 s after a signal. Where a crash or restart would cut every attempt
short, the property has the disjunct that it happens infinitely often. `SearchEnds` is claimed only when some post counts,
`EndsWithEnough` only when the chat has enough matches and nobody touches it.

## 5. Proofs

TLAPS proves, for every value of the constants:

* **AuthorizerProofs**: types; `NoSendOnClosed`; `AnswersMatchForms`; that Authorizer implements AuthSession. A question TDLib
  asks is in exactly one of three places: queued as the last state, held by `ChanInteractor`, or answered in its channel; all
  three imply that `Handle` is waiting for it (`QueueInv`, `HoldInv`, `AnswerInv`), so the login cannot have closed the channels.
  `FormInv` and `PasswordInv` follow an answer from its form to TDLib.
* **AccountCreationProofs**: types (no step follows a nil account); `ActiveIsOwn`, `LoginOwnsCurrent`. As long as the phones have
  not overlapped, at most one request is busy (`OneBusy`), and the object in work, its directory and the document are of its
  phone. `ActiveStays` needs besides that a new account is saved over none that is active (`NewInv`); `OverlapWindow` follows
  step by step. `FailureBlocksCreation` needs how a login ends: with an error its object stays the one in work, and without one
  its phone's document is active by then (`EndInv`).
* **ServingProofs**: types, with one account at a time in its start and every account of the store with its client;
  `RequestsHaveClients`; `DeathHasCause`, from: a handler whose update was not early is of an account in the store.
  `ForwardIsWhole`, from `ForwardInv`: an id that was given is not given again in its chat (`Issued`), a message is on its way,
  kept or in the answer, where it is once (`Once`), what a call took has an id it waits for (`Wanted`), and an answer has as many
  messages as were forwarded (`Full`). Messages of one chat that are not the same have different ids, so an answer of one chat has
  every id. That there is a least id to look up is the well-foundedness of finite sets under inclusion, a theorem of the library.
* **ChatListsProofs**, of ChatLists and of ChatPage, which extends it: the types of both; that only updates that TDLib posted and
  nobody handled are in flight, no more than the bound, needs that there are finitely many chats. `MissingHasCause` and
  `OrderHasCause` speak of quiet moments and are not inductive: `Covered` adds that a missing row has an update or a refresh still
  to write it, `Carried` that its row may end with a position in flight, `Fresh` that it may end with TDLib's own order, and that
  a row with another order than it may end with has a position in flight. A step either posts, and counts in what is in flight, or
  takes no order away from those a row may end with (`MaySteps`). ChatPage implements ChatLists, so that what is proved of the
  mirror holds beside any page; `PageHasCause` follows from `MissingHasCause` and what `known` means: the chat of a known row of
  the list is, or will be, on the page (`KnownOfList`), and a known row of a folder is not there, or its chat was found
  (`KnownOfFolders`).
* **ReadMarksProofs**: types; `CacheHasCause`, since what is still to be cached or is in the cache stays within `recent`, for any
  number of callers and of equal results; `RegularStaysUnread`. A handler that counted 1 stays alone: every message before
  its own is read or deleted, as later steps only read, delete, and add after it. Needs facts on finite sets (a count of 1 is a
  singleton).
* **ChatFoldersProofs**: types; that the cache holds saved folders (`CachedAreSaved`) and `MissingHasCause`. `OnItsWay`: a folder
  that is not saved is in some handler's `todo` or `new`, and a handler past its check has neither. `CacheHasCause`: unless it is
  `unsure`, a handler alone has loaded what is saved (`Lone`), and with no handler the cache is what is saved (`Sure`).
* **PublicPostsProofs**: types; `DayIsCached`, by following one file through the searches that fill it
  (`WhileFilling`): one that is not spoilt has at most one search at it (`OneFills`), which holds what TDLib answered as far as it
  has come, and with none the file is there exactly if it was asked for. `AnswerIsSound`, by following one search through the
  pages: before it wraps a post is counted only on its own page, and pages are disjoint (`Sound`). The implementation of
  DayAnswers is shown step by step from the first: a step of a search changes what is found of one page (`OnePage`), from nothing
  to a whole answer or to a lost one. How many posts a search has is a sum over a set, of which nothing can be proved without
  induction; the proofs hold for any outcome of the comparison with the limit.
* **LoopProofs**, of two unrelated loops. PatternDelete: types; `ScanIsExact`, which is inductive with them; the messages the loop
  reaches of a page are the newest part of a page, which is the newest part of what is before `lastId`. RenderText: types;
  `ShownRight`: up to where the loop has come the text is shown with its entities, each character once where one remembered
  entity is enough; that point is the end of the outermost entity handled last, whose characters are remembered (`Outer`), or its
  beginning while an entity of the same range is pending (`Bound`). The loop is the transition system, so the proof is an
  invariant of its steps and needs no induction over texts.

Assumptions are those named in the modules: `Nil` is no request, phone or state; bounds are numbers; `NoList` is no list and
`NoChat` no chat; there are finitely many chats; TDLib's pages of a query are disjoint, and there is at least one. TLC evaluates
them in every run.

Only model-checked: liveness (`LoginSettles`, `StartSettles`, `LoneJoinIsRead`, `HandlersEnd`, `SearchEnds`,
`EndsWithEnough`), since fairness and ENABLED are beyond the prover. Every safety property that holds is a theorem.

## 6. Plan

Done, in this order: the login and its creator (the most shared state and the worst outcomes), the chat lists, the read marks, the
folders, the search, the deletion, the rendering, the start of the process with its updates and requests, the scheduled forwards,
the chat-list page; the proofs of every safety property, and the abstract file cache.

1. An abstract specification of the chat-list mirror, implemented by ChatLists.
2. The history page's paging (`controller.go:182-231`), and `processTgDelete` with two requests at once.
3. Titles of folders: one that TDLib renamed is skipped as a known one (`tdApi.go:580`).

## 7. Not modelled

The history, message, session, link and file pages make one call of TDLib each and format its answer; templates,
`GetContentAttachments`, file downloads, configuration, the MongoDB client and helpers keep no state; the RPC stubs are generated.
`AccountsStore.Delete` and `TdApi.Close` have no caller. The new-account page's fields (`wc.st`, `controller.go:446`) are
abstracted: posted values go to the channel within the same request. Which HTML tag a kind of entity gets, and escaping, are left
out of RenderText, as are titles and names everywhere. `GetLocalChats` and `GetStorage` hand out shared objects without a lock
(`tdApi.go:697`): a concurrent map access ends the process, which is `Crash` or `Restart` where it matters. That TDLib may answer
a forward with null for a message, over which the loop that collects the ids panics (`tdApi.go:748-749`), is left out, as nothing
calls it.

Three things were met in code that is not modelled, all about one answer: `chatInfoLocal` shows a chat that was found as not
found, and uses one that was not (`templater.go:99-106`), `processCustomEmoji` takes the first of the stickers without a look at
their number (`controller.go:549`), and the middleware renders its error page before the store of the accounts is in the context
when `ParseForm` fails (`middleware.go:26`); net/http recovers the panics.
