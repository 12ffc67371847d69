# QuickPin: models, checks and proofs

QuickPin collects social media profiles.  A Flask application keeps profiles,
posts, relations, labels and notes in Postgres; background workers, fed by two
Redis queues (RQ), scrape Twitter and Instagram and keep a Solr index up to
date; a Dart client shows it all and follows the work through server-sent
events.  This directory holds TLA+ models of the parts whose correctness depends on
the order of things, TLC configurations that check them on small instances,
and TLAPS proofs of the most important results for every size.

`PROJECT.json` maps every definition to the lines it translates and lists
components, runs, mutants, hazards, findings and theorems.

## Inventory

| part | source | state it keeps | operations | what is hard |
|---|---|---|---|---|
| search index pipeline | `lib/app/queue.py`, `lib/worker/index.py`, `lib/app/index.py`, `lib/app/views/profile.py` (delete) | profile and post rows, queue `index`, Solr documents | scrape and commit, queue an index job, read rows, write Solr, delete a profile and clean up | rows change between commit, job, read and write; a process dies in any gap |
| background jobs | `lib/worker/__init__.py`, `lib/app/queue.py`, `lib/app/views/tasks.py`, `lib/worker/sleep.py` | RQ queues, `job.meta`, channel `worker` | enqueue, `init_job`, `start_job`, `update_job`, `finish_job`, exception handling, failed queue | scheduler and worker save the same metadata without a lock |
| profile scraping | `lib/worker/scrape.py` 89-331, 602-747, 1075-1089 | profile rows, stub flag, labels | upsert, populate, label, follow-up jobs | two jobs for one profile, stub against full |
| relation scraping | `scrape.py` 446-599, 876-1042 | rows, friend/follower edges | fetch ids, look up in chunks, insert, commit | rollback of what is pending, edges seen from both ends |
| post scraping | `scrape.py` 334-443, 751-873 | post rows | page through a timeline from the newest or the oldest stored post | truncation, paging state, concurrent fetches |
| avatars, files | `scrape.py` 30-86, `lib/model/avatar.py`, `lib/model/file.py` | avatar rows, files named by hash | fetch, store once, current avatar | races on the file system, files half written |
| labels, notes, profile API | `lib/app/views/{profile,label,note}.py` | label and note rows, channels `label`, `profile`, `profile_notes` | create, change, delete, publish | publication before commit, two sessions in one request |
| notifications | `lib/app/views/notification.py`, `sse.dart` | one Redis subscription per client | forward messages | lost without a subscriber |
| client views | `static/dart/lib/component/...` | lists on screen | fetch, listen, merge | answers and events out of order |
| authentication | `lib/app/views/authenticate.py`, `lib/app/authorization.py` | signed tokens | log in, check | expiry |
| users, configuration, search | `lib/app/views/{user,configuration,search}.py` | rows | read, write | little: one transaction each |
| command line | `lib/cli/*.py` | - | create the database, rebuild the index, start servers | rebuild while workers run |
| display | the remaining Dart components, `less`, `js` | - | layout | - |

The parts interact in three ways.  Web requests and jobs commit to Postgres and
*then* queue jobs in Redis (never atomically).  Jobs read Postgres again, by
primary key, when they run.  Everybody publishes to Redis channels, which
`notification.py` forwards to connected clients; a message without a subscriber
is lost, and clients re-fetch over HTTP.

What would make each part correct: the index shows what Postgres has once
nothing is under way, and never steps back; a job is in one place, its
metadata survives both writers, its statuses come in order, it always leaves its
worker; scraping a profile twice is the same as once; a relation that was
fetched is stored; a timeline has no holes and no duplicates; a file that has a
row is complete; what is announced is committed; the client's lists converge to
the server's.

## Plan

Modules are written in the order of what a user would notice first: stale
search results, lost or stuck jobs, wrong profiles, wrong relations, missing
posts, broken pictures, clients that show what is no longer so.

1. `IndexSync` with the abstract specification `IndexMirror` (done).
2. `JobLifecycle` (done), with the abstract `JobBoard` (done).
3. `ProfileScrape`, `Relations`, `Timeline` (done).
4. `FileStore`: files named by hash, avatars and the current avatar (done).
5. `Labels`, `Notes`, `ProfileList`: the REST API with its commits and
   publications in the order of the code, and the Dart views on top of it, over
   a channel that loses events (done).
6. `TasksClient`: the view of background tasks, on top of `JobBoard` (done).
7. Left: the rebuild of the index from the command line, as an extension of
   `IndexSync`; sessions and their expiry; the pure algorithms
   (`_create_labels_dict`, the chunking of `schedule_profiles`, `query_chunks`,
   the pager) against reference definitions.

Every safety property of the runs is proved.  What is only checked is liveness,
which is out of the prover's reach.

## Modules and code

Each module has the variables and actions of one component, `<M>Props` its
properties, `MC<M>` the definitions that TLC needs, `<M>_proofs` its
theorems.  Two proof modules cover two components each: `LabelsNotes_proofs` and
`Client_proofs` (`ProfileList` and `TasksClient`); `Notes` and `TasksClient` therefore
prefix the names both would have (`NotesInit`, `TasksSpec`, ...).  A definition marked "Mutant" is a plausible bug: put in the place of
the definition after it, it makes a property fail, which shows that the property
says something about the code.

**IndexSync** has rows (`status`, `version`, `posts`), Solr (`doc`, `postDocs`),
the Redis queue, and the program counters of scrape workers, delete requests and
index workers.  `version` counts commits of a profile row; a document carries
the version it was made from.  A row is identified by its primary key, which is
never reused.  Each commit, each `schedule_...` call, each read of Postgres and
each write to Solr is an action.  `debt` and `postDebt` record rows whose chain
commit - job - document was broken by a death between two of these steps.

**IndexMirror** is the abstract specification: the document of a profile is
some earlier state of its row and moves only forward, in steps of any size.

**JobLifecycle** has each job's place (queued, running, failed, ...), its
metadata in Redis, the copy that the scheduler holds between `enqueue_call` and
`init_job`, and the copy a worker holds between fetch and save; `said` is what
was published on the channel `worker`.  `get_job` fetches the job from Redis
each time, so fetch and save are two steps; save and publish are one.  Job
kinds are not told apart: a job may be started with a total or without, may
raise, or return early where a scraper swallows an error.  One queue stands for
each of the two.  What RQ does after a job has ended (expiry of results,
registries), and the dummy jobs of `init_queues`, are not modelled.

**ProfileScrape** has the rows of one site's profiles, identified by the site's
id (which is unique in the table), the label rows, the follow-up jobs queued so far
and the profiles announced.  A job looks accounts up, and for each of them
inserts (or loads) the row, reads its labels, commits, queues the follow-up jobs
one by one; at the end it announces everything and calls `finish_job` (`Finish`).  An
exception inside the `try` is announced (`Raise`, `Error`); `start_job` comes before the
`try`, and publishing an error may raise in its turn: then nobody is told (`RaiseMute`).  `mark` is the value that the
next commit will give to `is_stub`: SQLAlchemy writes the column only if the
value was assigned and differs from the one that was loaded.

**Relations** has rows and edges, and for each job the friends and followers it
still has to store, the chunk looked up, and what the session will insert when it
next commits (`pend`).  At Twitter each edge has a commit of its own; at
Instagram an edge is inserted by the commit of the stub after it.

**Timeline** numbers the posts of one profile from the oldest; `stored` counts
rows per post, since the table would accept a post twice.  Requests follow the
parameters the code sends (`since_id`, `max_id`, `min_id`); what the sites answer is
external: newest first, Twitter including `max_id`, Instagram excluding `max_id` and
including `min_id`.  Whether Twitter's answers include the post that `since_id` names
the code cannot decide: Twitter documents that they do not, the comment in
`scrape.py` 817-818 says that they do and that the post is ignored.  The code
ignores the post that `max_id` names and no other.  The model has both readings
(`inclusive`, `Floor`).  A maximum of 0 is left out: the Twitter job fails at its
first post, as `update_job` divides by the total, and the Instagram job after its
commit, as it has no list of new posts.

**FileStore** has avatars, directories, files and the parts of each file that are on
the disk, and the jobs `scrape_avatar` with the place each has reached in the
constructor of `File`.  Files are named by the hash of their content, so jobs for
accounts with the same picture write the same file, and other files share
directories.  Each look at the file system and each change to it is an action:
`isdir`, `mkdir`, `isfile`, `open` (which empties the file), one action per part
written.  Rows are committed afterwards.  `met` records which jobs ran side by
side; `broken` the files whose writer was stopped on the way.

**Notes** has the table of notes as a log of its states, the requests that change
it, the events on their way (`wire`), and the two clients: the view of a profile,
which fetches once and then applies events, and the page of notes, which
fetches again at each event and adds answers to a map.  A request commits,
reads the row again and publishes it, in three actions.

**Labels** has label rows, the labels of one profile, and requests each in its own
transaction: POST, PUT and DELETE of labels, PUT of a profile with its labels, and
the submission of profiles.  Names are unique, so a request that inserts a name
another transaction has inserted waits (a disabled action); requests that wait
in a circle are ended by the database (`Abort`).  POST and PUT publish when they
flush, before they commit; a submission commits each label first.  The two
clients are the view that edits the labels of a profile, and the page that lists
labels.  The view ignores what its PUT answers, but a PUT publishes the profile when it
has committed, and at each such event, of any profile and from any user or job
(`ProfileEvent`), the view fetches its profile again (`ProfileRead`) and takes the answer,
edits that are being saved included (`ProfileAnswer`).  The page does the same at each event
about a label.  Answers arrive in any order, and a fetch may fail, which leaves the client
what it shows (`ProfileFail`, `PageFail`); `overtaken` marks the answers that are older than
one that has arrived or failed.

**JobBoard** is the abstract life of a job: its phases, and what is published in
which phase.  `JobLifecycle` implements it (`BoardKept`), and **TasksClient** builds on
it: each publication becomes an event to the page of background tasks, which
answers it by changing what it shows or by a chain of requests (`asks`, `answers`).
Chains overlap, and answers overtake each other.  A request that fails leaves the old
list, and its chain goes on.  `MayFail` lets any request fail; requests for the workers
fail in any case while a worker is at a job that was started with a total of zero
(`Divides`).  So the page is checked
against every life of jobs that `JobBoard` allows, not against one instance of
`JobLifecycle`.

**ProfileList** has the table of profiles as a log, the jobs and requests that store
and publish profiles, and the client's list: its URL, its requests, its rows, the
rows that wait for a name (`waiting`, the code's `newProfilesMap`), and the timers that
remove rows which do not pass the filter.  A writer is a request to add a profile, with its
job, or a PUT; a PUT of the list's own (`Rate`) comes back with an answer that sets the
interest of the row (`Rated`).  An event brings some columns of a row only: `shown` is the
content they are from, `interest` the value of that column, and `Uncopied` the content of
the columns that are never copied.

Histories in these four (`missed`, `crossed`, `raced`, `late`, `behind`, ...) record
the events that the properties make an exception for; no action depends on them.

The components interact through rows, queues and channels.  `IndexSync` composes
them on the side of the index: its scrape actions are the commits of all three
scrapers, reduced to "some columns of this row changed" and "these posts were
added".  `TasksClient` composes jobs and client through `JobBoard`.  `Notes`, `Labels` and
`ProfileList` each compose server, channel and clients.  `notification.py` is the
channel in these modules: it delivers in order to who is subscribed, and an
event that was published while nobody listened is lost.

## Runs

Passing runs.  Type invariants of `IndexSync`, `JobLifecycle`, `ProfileScrape`,
`Relations`, `FileStore` and `TasksClient` are proved and therefore not run; the other
modules have theirs in their run.

| run | instance | what it shows |
|---|---|---|
| `index_sync` | 1 profile with 3 versions, 1 post, 2 scrape workers, 1 index worker, 1 delete request, deaths | each document is right or its repair is queued or running; clean-up jobs hit deleted profiles only; `IndexMirror` is implemented: documents never step back; every committed state becomes searchable or is superseded; posts of deleted profiles disappear from the index, unless somebody died in between |
| `jobs` | 2 jobs, 2 workers, total 1, chunks of 2 | one place per job, metadata of a job that was described in time is kept, statuses in order, `JobBoard` is implemented, every job that is queued leaves its worker |
| `scrape` | Twitter with two accounts of which both exist (so that a batch can fail half way) or one does not, or Instagram, with one protected account; 2 jobs in batches of up to 2 accounts, one label, a row from earlier, failures | a job that ends well has done all it was asked for; full Twitter profiles stay full; who hears of a profile finds it filled in; every request for an existing account is answered, by its profile or by an error, unless the worker is killed, or `start_job` or the publication of the error fails |
| `relations` | either site, 4 accounts with a mutual relation, one suspended, chunks of 3 of up to 6 relations, 2 jobs, any consistent rows and edges to begin with, failures | edges are those of the site; at Twitter what ends well is stored, up to mutual relations, of which one is stored; at Instagram a job alone among unknown accounts misses its last edge only; every job ends |
| `timeline` | either site, 5 posts of which any stretch is stored, pages of 2, at most 3 per job, 2 jobs up or down, failures | whether or not Twitter's answers include the post of `since_id`: no duplicates and no holes unless two jobs fetch the same range at a time or one was cut at its maximum, or (duplicates only) Twitter answers with the newest stored post again; a job that ends short of its maximum has missed nothing; the page loop ends while posts appear |
| `files` | 2 profiles, 2 pictures whose files share directories, 3 jobs on 2 workers, files in 2 parts, interruptions, deletions | what has a row is whole, being written, or was broken off; two avatars of one address, an older current avatar, or a refused directory only come from jobs that ran side by side |
| `notes` | 2 notes, 2 requests, lost events and answers, killed requests | the view shows the rows except notes whose last event was lost, overtaken or undone by an older answer; the page too, unless requests overlapped; deleted notes disappear |
| `labels` | 2 requests of any kind, of the view's user or of others, names x, y, X (stored as x) and one that is refused, a row from earlier, 1 event about a profile besides those of these requests, answers in any order, failed fetches | what is announced is stored unless the request is refused; while the view shows what its last PUT sent, this is stored if that PUT committed last and alone; when all is answered the view shows what is stored, though answers take edits back, unless its newest answer failed or an older one came after it, or the PUT was refused; the page lists all labels, with the same exceptions and that of labels announced before their commit; every request ends, though they wait for each other |
| `tasks` | 1 job, with a total, without or with a total of zero, progress up to 2, up to 3 events on their way, events handled while up to 1 request is under way, any of which may fail | what the page shows when all is answered is what is so, but for named exceptions: among them a list of which the last request failed, as those for the workers do beside a job with a total of zero |
| `list` | 2 accounts, 2 URLs, 2 writers, 2 requests, faults | rows show what is stored, in each column, no profile twice, none missing, but for named exceptions; rows that wait are filled or show an error |

Runs that refute what a comment or document says (each checks one property,
and PROJECT.json quotes the sentence):

| run | the code does |
|---|---|
| `index_docs_posts` | only the last page of a timeline is queued for the index |
| `relations_docs_instagram` | a rollback throws away the relation before it; the last one is never committed |

The models also contain, without a run that singles them out:

* *Index and jobs.*  Profiles touched as friends or followers are never queued for
  the index (`ScrapeRelation` puts them in `debt`).  `init_job` may save an empty copy
  over the total a worker has defined, and `update_job` then raises (`early`).  The last
  chunk of relations counts as a whole one, so that the progress exceeds 1
  (`UpdateSave`).
* *Scraping.*  A stub request for an existing stub marks it full although nothing
  more is fetched, and a stub request makes a full Instagram profile a stub
  (`Assigned`).  Two jobs that attach the same label: the second fails, and nothing
  of its batch is announced (`CommitConflict`, `Error`).  A failure of `start_job`, or of
  the publication of an error, is announced to nobody (`RaiseMute`).  Labels of Instagram requests
  are dropped, and Instagram accounts are searched by name even when an id was
  given (`Found`).  Accounts that do not exist are left out by Twitter's answer:
  unless all of them are missing, the client hears nothing about them (`LookUp`).
* *Relations and posts.*  An account that is friend and follower in one chunk is
  stored as a follower only (`ChunkRelations`), and a relation job at Twitter fails when
  none of the accounts in a chunk is described.  A job cut at its maximum leaves a
  hole in the timeline that no later job fills (`cut`).  If Twitter answers with the post of
  `since_id`, as the comment beside the test of `max_id` says, then each job for newer posts
  stores the newest stored post again (`Again`); the test does not ignore it.  Two jobs at a time store the
  same posts twice, which the session's merge is meant to prevent.
* *Files.*  A profile that returns to an earlier avatar keeps the later one as
  current.  The thumbnail is written over the image in one buffer that is not
  truncated, so it may end in bytes of the image.  Deleting a profile leaves its
  files.
* *Labels and notes.*  Names are compared as written in PUT, but stored in lower case:
  a name with capitals finds nothing, and its insertion is refused when the label
  exists.  Requests that change the same labels at the same time end in an error of
  the database, which answers 500.  The view of a profile ignores what its PUT answers,
  but the event makes it fetch the profile: an answer read before a PUT was committed
  takes the edit back (`ProfileAnswer`), and a PUT made of what is then shown drops the
  labels that were just saved (`Put`).  A fetch that fails leaves the labels as they are
  (`behind`, `late`).  The view cancels its listeners when it is left.  The pages of
  notes, labels, posts and relations do not: they hand new subscriptions to
  `UnsubOnRouteLeave`, not those that they have made.  The page of notes saves a changed note
  under `editingNoteid`, a name it does not have (it is `editingNoteId`).
* *Tasks.*  A job with nothing to fetch is started with total 0, by which the view of
  workers divides: as long as that job is at a worker, the answer about all workers is
  an error (`Divides`), and the page keeps the list it has (`refused`).  "finished" and "failed" are published before RQ moves the job, so that a
  page which fetches in between shows it until the next event (`hastyW`, `hastyF`).  The
  listener throws while the first answer about workers is under way; a chain goes on
  after an error, of which nothing is shown.
* *List.*  No filter by site, interest or stub is ever assigned, so events insert rows on
  any page; with a filter by labels, the client removes its own additions after
  two seconds, and a comparison of `text` where the server sends `name` filters
  everything.  A profile with two labels makes the listener throw.  A row for a name
  that is already listed, or was added twice, stays as it is; so does one whose
  request was refused.  The name, the location and the lock of a row stay those of the
  answer it came with, and a row from an event has none of them (`partial`); the answer to
  the list's own PUT sets the interest back when a newer event came before it (`setBack`).
  A list fetched again between submission and event hides
  the new profile (`hidden`).  A late answer for an earlier URL replaces the list.
  Deletions are not announced.

Bounds.  Two of each kind of process give every pair of interleavings of the
steps in the code, and the hazards are between two processes; `files` has three
jobs so that one can be overtaken by two.  Versions, posts, totals, pages and
parts are as large as it takes to reach each boundary: a page that is full, one
that repeats its first post, a maximum inside a page, a chunk that is not full, a
file that is half on the disk.  What earlier jobs have left is in the initial
states, so that a run need not repeat them.  `MaxQueue` and `MaxVersion` stop
scrapes from starting, `MaxWire` and `MaxCalls` stop jobs and events from going on
while a channel is full, `MaxAsked` stops the user from choosing another URL; none
stops what has begun from ending.  `index_sync` has one profile:
profiles meet only in the queue, and the jobs of others that touch this one are
there as `ScrapeRelation`; the theorems are about any number of them.  `tasks` has one job:
lists are replaced as a whole, and what the page does about one job does not
depend on another.  The site is chosen in the initial state (`setting`, `site`), so
one run covers both.  Symmetry is used for interchangeable jobs and writers in
`files` and `list`, which check no liveness.

Deadlock is not an error in these runs: when all jobs have ended and no more
requests come, the system rests.

Fairness: weak fairness of the steps of each process that has begun something,
and of workers serving their queues; in `Notes` also of the client handling what has
arrived and opening its view, and in `Labels` of every request, where the database
ends one of those that wait for each other.  supervisor restarts workers, and
nothing else in the code waits for a lock.  Nobody has to make a request, and no
failure, timeout or death is ever assumed to happen.  `FileStore`, `TasksClient` and
`ProfileList` have safety properties only: they speak of the states in which
everything has arrived.

## Proofs

All theorems hold for any number of profiles, posts, jobs, workers and accounts;
`MirrorRefined` assumes a single index worker, which is what the installation
runs.

* `IndexSync_proofs`.  `TypeCorrect`, `CleanupSafe`, `ProfilesInSync`,
  `PostsInSync`, `QuietInSync`, `MirrorRefined`.  `ProfileSync` and `PostSync` are
  inductive together with the types and `CleanupOnlyGone`: each says of a row that
  its document is right, or that a job for it is in the queue, in the hands of the
  worker before the read, or owed by a process that has yet to queue it, or that
  the chain was broken.  One lemma frames the steps that do not touch the row;
  then there is one step per action.  The refinement needs one more invariant: what a worker
  has read is not older than the document, nor newer than the row.
* `JobLifecycle_proofs`.  `JobTypesCorrect`, `OnePlace`, `ProgressIsKept`,
  `EventsInOrder`.  The strengthening `Facts` ties the copies of the metadata to the
  step of the worker, for jobs whose `init_job` came before a worker took
  them.  `BoardRefined`: `JobLifecycle` implements `JobBoard`, action by
  action.  The abstract phase of a job is computed from its worker, found with
  `CHOOSE`; the invariant therefore says that a running job has exactly one worker,
  that nobody else's steps touch it, and what its copy of the metadata may be at each
  step.  Every action maps to the step named in the proof or to a stutter.
* `ProfileScrape_proofs`.  `ScrapeTypesCorrect`; `FullIsKept` (at Twitter no
  commit writes "stub"); `AnnouncedIsStored`, by `Recorded`, which says what has been
  done to the account in hand, by step; `EndedIsFulfilled`, by `Accounts`, which adds
  that no account is lost between "left" and "done" and which follow-up jobs have been
  queued at each step.  Rows, labels and jobs only grow, so the steps of other
  jobs cannot undo any of it.  `EndedIsAnswered` is the part of `Answered` that needs no
  fairness, for batches of any size.
* `Relations_proofs`.  `RelationTypesCorrect`; `EdgesAreTrue`, by `Facts`: a job
  deals with relations of its profile only, and both ends of the relation in hand
  have rows; `FetchedAreStored` and `AccountsLinked`, by `ReachInv`: a relation the
  job set out to store stays stored, listed or in the chunk, unless its account
  is suspended or the other relation to the same account takes its place.
  `NewAccountsAreStored`, by `AloneInv`, which speaks of an Instagram job that nobody
  has come before: an account has no row until its relation is in hand, so nothing
  sends the job on the path that drops a relation, and what is not yet stored is on a list.
  `JobsHaveWork` and `RelationsComeDown` are the part of `RelationsEnd` that needs no
  fairness: no job is stuck in its loops, and each of its steps leaves fewer relations
  on its lists, or as many there and fewer in its chunk, or brings the one in hand
  further; other jobs do not undo that.  The lists are finite (`FiniteAssumption`).
* `Timeline_proofs`.  `TimelineTypesCorrect`, `PostsStoredOnce`, `TimelineHasNoHoles`,
  `JobsCatchUp`, by `TimelineInv`, for both readings of `since_id`.  What a running job has taken is a `Stretch` without
  gaps, which between two requests reaches down to `max_id` (`Paged`), and after the last
  one fills the range of the job or its maximum (`Complete`).  `Apart` keeps jobs
  that did not clash on different sides of what is stored, which is why two
  stretches overlap in the post of `since_id` at most, and a stretch meets the stored posts.  `LoopsComeDown` and
  `LoopsAreBounded` do the same for `TimelineEnds`: the number `Remaining` of steps left
  to a job is bounded by the length of the timeline, each of its steps lowers it, and
  neither posts that appear nor other jobs raise it.  The lemmas about newest
  and oldest elements are the facts on `Max` and `Min` of finite sets that this needs.
* `FileStore_proofs`.  `StoreTypesCorrect`; `RowsAreWhole`, by three facts: a file that
  exists is whole, or was broken off, or has a writer all of whose parts so far are on
  the disk (`Sound`; emptying a file that another job is writing keeps it, because
  whoever empties it becomes such a writer); the files a job has behind it exist
  (`Present`); and the queue holds each job that is still to come once (`QueueInv`).
  `FetchedOnce`, `LatestStays` and `OnlyNeighboursClash` rest on `Beside`: jobs at work
  at the same time have met, and a job that is done has met those at work or was
  queued before them (`Neighbours`); a job that goes on to fetch an address of which
  an avatar is stored runs beside the job of that avatar (`Stored`); a directory that
  appears between a look and the `mkdir` was made by a job beside it (`Refused`).
* `LabelsNotes_proofs`.  `LabelTypesCorrect`, with the invariant that the joins a request
  is about to commit are of labels that are stored or its own (`Kept`): a label that
  is being attached cannot be deleted.  `AnnouncedIsKept`, by `Honest`, which compares
  what a request has announced with what it has inserted (the same, until it ends)
  and with what has ever been stored, and `Apart`: no other request can store what
  a refused one has announced.  `PageAgrees`, by `PageInv`: a stored
  label is in the list that is coming, or is about to be announced, or was announced
  before its commit and missed for that reason (`Early`).  `ViewAgrees`, by two invariants.
  `ViewInv` is for what the view sends: while it shows this, its labels match those that
  the last PUT has found so far (`Matches`), and a PUT that overlaps no other one has read
  the joins as they are when it commits (`Sound`, `Alone`).  `ToldInv` is for what it is told:
  it will fetch again, or the last answer on its way has the names of the stored labels,
  or no answer is on its way that is not overtaken and the view shows these names, or an
  edit that is not stored (`Informed`); steps that store no labels of the profile keep
  this (`Passing`), and a PUT that stores some makes the view fetch.  Answers list the
  names that they have read, each in the place that `Sorted` gives it (`SortedAssumption`).  `NoteTypesCorrect` and `NotesAgree` by `NotesBase` (what
  a request holds and an event carries is a state the note has had) with one
  invariant for each client.  `NoteViewInv`, for the view: unless an event about the note was lost, a
  request still owes its publication (`Owed`) or events have told of all that it
  contained before (`Known`); and the last event about it on the way says what is so, or
  there is none and the view shows it, unless events crossed (`Followed`).
  `NotePageInv`, for the page, which reads the whole table at each event: unless an event
  was lost, an event, a publication or the reading of a request is to come, or the
  newest answer has all rows; and unless an answer came late or not at all,
  the page is the newest answer.
* `Client_proofs`.  `ListTypesCorrect`, `ListFollowsTable` and `NobodyWaitsInVain`,
  by `ListInv`.  `Links` follows a stored content on its way to the list: it has
  been published or is about to be (`Published`); the last event on the wire brings the
  newest one, and with none on the wire the client shows it (`Arrives`); a profile that is
  not shown was stored after the fetch was answered (`Unshown`); and a row that
  waits for a name has its writer ahead of it, an event on the wire, or an event
  that was lost (`Expects`).  `Counted` bounds the events by what the writers have done.
  `Valued` says of the interest of a row that it is the value in the content shown, or a
  newer one from an answer, whose event is therefore still to come, or that an answer came
  late; `Whole` that a row no event has changed is all from one content.
  `TaskTypesCorrect` and `TasksAgree`, by `TasksInv`, which adds to the types the order of
  the answers (`Ordered`: what was read before an overtaken answer is overtaken as well,
  so that an error which comes late finds nothing newer on its way) and five facts about
  each job.  Each says that a list will be read again (`WorkersToCome`,
  `FailedToCome`: by a request, or by an event that makes one), or that the answer which
  the page will show last is right or an error (`Coming`), or that the page is (`Final`).  `Left` says it
  of a job that has left its worker, `Works` of one that has been started, `Fails` of a failed
  one; `UpToDate` says that the last event about progress tells the newest, and
  `Removed` why a job that has not failed may still be listed.  They except the
  histories that the property excepts, and no others.  Lemmas say how reads, answers
  and events change what is to come.

`CountsPaired`, `InSyncWhenQuiet`, `AccountsAreLinked`, `EndedIsAnswered`, the type
invariants named above and the four theorems about the loops of jobs are proved only; every other property that is proved is checked by a
run as well, as the same definition.

Left to TLC: the eight liveness properties (`EventuallySearchable`, `DeletedPostsDisappear`,
`JobsEnd`, `Answered`, `RelationsEnd`, `TimelineEnds`, `DeletedDisappear`, `RequestsEnd`), as the
prover has no rule for fairness: it proves that the loops of `Relations` and `Timeline`
go down, but not that therefore they end.  What the sites answer is an assumption in all
modules, and so is what Postgres does with unique keys and foreign keys in `Labels`.

## Not modelled

`components` in PROJECT.json lists every part with the reason.

* Vendored libraries (`static/js/d3.js`, `markdown.js`, fonts, style sheets) are not
  the program's own logic.  A measure of coverage that counts only these files as
  the implementation finds nothing of them here.  QuickPin's own Python in `lib/` and
  Dart in `static/dart/lib/` have 14,426 lines; the map names about 2,700 of them (19 %),
  among them 77 % of `worker/scrape.py` and half of `app/queue.py`, `worker/__init__.py`
  and `background_tasks.dart`.  The rest is mostly queries, formatting, markup and views
  without state.
* The rebuild of the index (`cli/index.py`), which is run by hand with nothing
  else running; the other commands set things up.
* Sessions: a token is valid until it expires, and nothing changes that.
* Autocompletion: its only state is the last answer that arrived.
* Users, configuration, search: views that run one transaction on one row, or one
  query.
* The pure algorithms: see the plan.  They are short and tested more easily than
  the order of things.
* What RQ does after a job has ended (expiry of results, registries), layout and
  formatting, set-up of connections, command line parsing.
