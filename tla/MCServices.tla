----------------------------- MODULE MCServices -----------------------------
(***************************************************************************)
(* The smaller services of the server.  They share no state, so a          *)
(* behaviour of all of them is one of each; here only one part of them     *)
(* takes steps, as part says, while the others rest in a state in which    *)
(* nothing has to happen.                                                  *)
(***************************************************************************)
EXTENDS Naturals

CONSTANTS
  LastRevision, Damaged, Calls, MaxTokens, Tasks, MaxRounds, Ttl, Names, MaxContents,
  MaxHashings, MaxBodies, MaxReceived, Callers, Cooldown, MaxChecks,
  Requests, Users, Addresses, UserMax, AddressMax, Window, MaxKeys, MaxTime,
  MaxOutages, MaxCalls, CacheKeys, CacheValues, MaxEntries, Lifetimes, MaxClock,
  Base, MaxVarInt, Sign, MaxResponse, Bytes, Players,
  MaxSize, MaxWritten, Invalid, Days, MaxRemoved, MaxRecords, None

ASSUME ServicesAssumption ==
  /\ {LastRevision, Days} \subseteq Nat \ {0} /\ MaxRounds \in Nat
  /\ None \notin Nat /\ None \notin [round : Nat, task : Nat]
ASSUME LimitsAssumption ==
  /\ {MaxKeys, MaxEntries} \subseteq Nat \ {0} /\ Lifetimes \subseteq Nat
  /\ {Requests, UserMax, AddressMax, Window, MaxTime, MaxClock} \subseteq Nat
ASSUME PiecesAssumption ==
  /\ {MaxBodies, Base, Sign, MaxResponse} \subseteq Nat /\ MaxVarInt \in 3..5
  /\ Base > 2 /\ Sign > 4 /\ MaxResponse > 3 /\ None # "ok"

VARIABLES
  part,
  branch, source, binary, previous, schema, pinned, running, stopping, inProgress, scheduled,
  onShutdown, step, unsafe,
  kept, up, owners, token, file, made, pc, expected, tries, orphaned,
  round, rounding, next, awaited, runs, zombies, expired,
  disk, written, index, watching, events, hashing, reported, applied, astray,
  task, total, given, sent, arrived, taken, at, failure, answered, output, result,
  caller, joined, checks, open, saving, pending, cached, cooling, failed,
  redis, now, request, user, address, within, since, hits, behind, seen, excused, admitted,
  reachable, outages, link, told, rejected, timer, closed, failures,
  statement, calls, columns, rows, sets, conditions, text, values, meant, built,
  clock, record, later, answer, put, others,
  received, expectedTotal, outcome,
  size, header, serving, client, listening, handle, status, length, places,
  content, changes, phase, queue, config, unnoticed,
  today, logs, begun, removed, stream, date, broken, writing, target, looking, fresh, checked,
  sound, records, lost

\* The placeholders of a condition: none, one, two in either order, one twice.
Conditions == {<<>>, <<1>>, <<1, 2>>, <<2, 1>>, <<1, 1>>}

Build  == INSTANCE Rebuild
Owner  == INSTANCE OwnerBootstrap
Rounds == INSTANCE Cron WITH running <- rounding
Files  == INSTANCE LauncherFiles
Rcon   == INSTANCE RconSession
Status == INSTANCE StatusCheck WITH at <- caller
Limit  == INSTANCE RateLimit WITH at <- request
Redis  == INSTANCE RedisConnection
Sql    == INSTANCE SqlBuilder
Cache  == INSTANCE CacheMap WITH Keys <- CacheKeys, Values <- CacheValues, behind <- later,
                                 since <- others
Answer == INSTANCE StatusReply
Serve  == INSTANCE FileStream WITH at <- serving
Config == INSTANCE LauncherConfig WITH at <- phase
Log    == INSTANCE LogStream WITH file <- logs, made <- begun, failed <- broken, asked <- looking,
                                  seen <- checked

ASSUME OutcomeAssumption == None \notin Sql!Query \cup {Sql!Error} \cup Cache!Record
ASSUME AnswerAssumption ==
  None \notin Answer!Status \cup {Answer!Error} \cup [total : Nat] \cup [value : Nat, offset : Nat]

ofBuild == <<branch, source, binary, previous, schema, pinned, running, stopping, inProgress,
             scheduled, onShutdown, step, unsafe>>
ofOwner == <<kept, up, owners, token, file, made, pc, expected, tries, orphaned>>
ofRounds == <<round, rounding, next, awaited, runs, zombies, expired>>
ofFiles == <<disk, written, index, watching, events, hashing, reported, applied, astray>>
ofRcon == <<task, total, given, sent, arrived, taken, at, failure, answered, output, result>>
ofStatus == <<caller, joined, checks, open, saving, pending, cached, cooling, failed>>
ofLimit == <<redis, now, request, user, address, within, since, hits, behind, seen, excused,
             admitted>>
ofRedis == <<reachable, outages, link, told, rejected, timer, closed, failures>>
ofSql == <<statement, calls, columns, rows, sets, conditions, text, values, meant, built>>
ofCache == <<clock, record, later, answer, put, others>>
ofAnswer == <<received, expectedTotal, outcome>>
ofServe == <<size, header, serving, client, listening, handle, status, length, places>>
ofConfig == <<content, changes, phase, queue, config, unnoticed>>
ofLog == <<today, logs, begun, removed, stream, date, broken, writing, target, looking, fresh,
           checked, sound, records, lost>>
vars == <<part, ofBuild, ofOwner, ofRounds, ofFiles, ofRcon, ofStatus, ofLimit, ofRedis, ofSql,
          ofCache, ofAnswer, ofServe, ofConfig, ofLog>>
-----------------------------------------------------------------------------
BuildRests ==
  /\ branch = 1 /\ source = 1 /\ binary = 1 /\ previous = None /\ schema = 1 /\ pinned = None
  /\ running = TRUE /\ stopping = FALSE /\ inProgress = FALSE /\ scheduled = FALSE
  /\ onShutdown = FALSE /\ step = "none" /\ unsafe = FALSE

OwnerRests ==
  /\ kept = TRUE /\ up = FALSE /\ owners = {} /\ token = None /\ file = None /\ made = 0
  /\ pc = [c \in Calls |-> "idle"] /\ expected = [c \in Calls |-> None]
  /\ tries = [c \in Calls |-> 0] /\ orphaned = FALSE

RoundsRest ==
  /\ round = MaxRounds /\ rounding = FALSE /\ next = 1 /\ awaited = None
  /\ runs = {} /\ zombies = {} /\ expired = {}

Nowhere == [n \in Names |-> None]
Never == [n \in Names |-> 0]
FilesRest ==
  /\ disk = Nowhere /\ written = Never /\ index = Nowhere /\ watching = TRUE
  /\ events = [n \in Names |-> <<>>] /\ hashing = {} /\ reported = Never /\ applied = Never
  /\ astray = {}

RconRests ==
  /\ task = "check" /\ total = 1 /\ given = 0 /\ sent = <<>> /\ arrived = 0 /\ taken = 0
  /\ at = "done" /\ failure = None /\ answered = FALSE /\ output = <<>> /\ result = "error"

StatusRests ==
  /\ caller = [c \in Callers |-> "idle"] /\ joined = [c \in Callers |-> None]
  /\ checks = 0 /\ open = {} /\ saving = {} /\ failed = {}
  /\ pending = None /\ cached = None /\ cooling = 0

LimitRests == redis = FALSE /\ Limit!Init

RedisRests ==
  /\ reachable = TRUE /\ outages = 0 /\ link = "up" /\ told = TRUE /\ rejected = FALSE /\ timer = FALSE
  /\ closed = FALSE /\ failures = 0

SqlRests ==
  /\ statement = "select" /\ calls = 0 /\ columns = 0 /\ rows = <<>> /\ sets = 0
  /\ conditions = 0 /\ text = <<>> /\ values = <<>> /\ meant = <<>> /\ built = None

ServeRests ==
  /\ size = 0 /\ header = [first |-> None, last |-> None] /\ serving = "open" /\ client = "there"
  /\ listening = FALSE /\ handle = "none" /\ status = 0 /\ length = 0 /\ places = {}

ConfigRests ==
  /\ content = None /\ changes = 0 /\ phase = "boot" /\ queue = <<>> /\ config = None
  /\ unnoticed = FALSE

Init ==
  /\ part \in {"build", "owner", "rounds", "files", "rcon", "status", "limit", "redis", "sql",
              "cache", "answer", "serve", "config", "log"}
  /\ IF part = "build" THEN Build!Init ELSE BuildRests
  /\ IF part = "owner" THEN Owner!Init ELSE OwnerRests
  /\ IF part = "rounds" THEN Rounds!Init ELSE RoundsRest
  /\ IF part = "files" THEN Files!Init ELSE FilesRest
  /\ IF part = "rcon" THEN Rcon!Init ELSE RconRests
  /\ IF part = "status" THEN Status!Init ELSE StatusRests
  /\ IF part = "limit" THEN Limit!Init ELSE LimitRests
  /\ IF part = "redis" THEN Redis!Init ELSE RedisRests
  /\ IF part = "sql" THEN Sql!Init ELSE SqlRests
  /\ IF part = "serve" THEN Serve!Init ELSE ServeRests
  /\ IF part = "config" THEN Config!Init ELSE ConfigRests
  /\ Cache!Init /\ Answer!Init /\ Log!Init

Next ==
  /\ UNCHANGED part
  /\ IF part = "build" THEN Build!Next ELSE UNCHANGED ofBuild
  /\ IF part = "owner" THEN Owner!Next ELSE UNCHANGED ofOwner
  /\ IF part = "rounds" THEN Rounds!Next ELSE UNCHANGED ofRounds
  /\ IF part = "files" THEN Files!Next ELSE UNCHANGED ofFiles
  /\ IF part = "rcon" THEN Rcon!Next ELSE UNCHANGED ofRcon
  /\ IF part = "status" THEN Status!Next ELSE UNCHANGED ofStatus
  /\ IF part = "limit" THEN Limit!Next ELSE UNCHANGED ofLimit
  /\ IF part = "redis" THEN Redis!Next ELSE UNCHANGED ofRedis
  /\ IF part = "sql" THEN Sql!Next ELSE UNCHANGED ofSql
  /\ IF part = "cache" THEN Cache!Next ELSE UNCHANGED ofCache
  /\ IF part = "answer" THEN Answer!Next ELSE UNCHANGED ofAnswer
  /\ IF part = "serve" THEN Serve!Next ELSE UNCHANGED ofServe
  /\ IF part = "config" THEN Config!Next ELSE UNCHANGED ofConfig
  /\ IF part = "log" THEN Log!Next ELSE UNCHANGED ofLog

Fairness ==
  /\ Build!Fairness /\ Rounds!Fairness /\ Files!Fairness
  /\ Rcon!Fairness /\ Status!Fairness /\ Redis!Fairness

Spec == Init /\ [][Next]_vars /\ Fairness
-----------------------------------------------------------------------------
(* A rebuild keeps binary and schema a pair and meets no restart. *)
PairKept == Build!PairKept /\ Build!Undisturbed

(* There is one owner at most, and none while a token can be redeemed. *)
OneOwner == Owner!OneOwner

(* The manifest has the hashes of the files, and the launcher is given the  *)
(* configuration that is in its file.                                      *)
ManifestCurrent == Files!ManifestCurrent /\ Config!ConfigCurrent

(* What comes or goes in pieces is whole: the output of a command of the    *)
(* console, the answer of the game server and the part of a file that a    *)
(* client asked for, whose handle is closed in the end.                    *)
OutputWhole ==
  Rcon!OutputWhole /\ Answer!AnswerWhole /\ Serve!SentAsAsked /\ Serve!HandleClosed

(* Records are in the log of their day. *)
LogKept == Log!LossBounded

(* What several callers ask for at a time is done once: rounds of tasks and *)
(* checks of the game server.                                              *)
OnceAtATime == Rounds!OnceAtATime /\ Status!OneCheck

(* No window has more admitted logins than the limit, and the cache of a    *)
(* process keeps what was used last.                                       *)
LimitHolds == Limit!LimitHolds /\ Cache!RecentKept

(* Statements are bound as the caller meant. *)
BoundAsMeant == Sql!BoundAsMeant

(* Whoever waits for a service is answered, whatever fails: rebuilds and    *)
(* rounds end, the manifest settles, sessions end, callers are called back  *)
(* and Redis comes back into use.                                          *)
EverythingEnds ==
  /\ Build!RebuildEnds /\ Rounds!RoundsGoOn /\ Files!NamesSettle
  /\ Rcon!SessionEnds /\ Status!CallersReturn /\ Redis!ComesBack
=============================================================================
