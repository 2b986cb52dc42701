------------------------------ MODULE Fetcher ------------------------------
(***************************************************************************)
(* The fetcher program (mesos/fetcher.cpp), which an executor runner       *)
(* starts to bring the URIs of a command into the sandbox, and the URI     *)
(* functions it uses (slave/containerizer/fetcher.cpp).                    *)
(*                                                                         *)
(* A URI is [legal, scheme, path]: whether it is free of quotes and        *)
(* backslashes, what precedes "://" ("" if nothing does, "localhost" for   *)
(* file://localhost) and the components between the slashes of the rest.   *)
(* An item is [uri, executable, extract, action, cacheFile, fails]:        *)
(* cacheFile is optional, fails is the set of system calls and commands    *)
(* that fail while it is fetched.  Archive holds the file names with a     *)
(* suffix that extract() knows.  The sandbox and the cache are             *)
(* sets of files [name, from, exec]; contents are the URIs whose archives  *)
(* were unpacked into the sandbox.                                         *)
(***************************************************************************)
EXTENDS Integers, SequencesExt

CONSTANT Archive    \* the file names extract() recognizes

--------------------------------------------------------------------------
(* URIs; <<>> is an error *)

\* Path(uri).basename() of a path without scheme
PathBasename(path) ==
    LET named == SelectSeq(path, LAMBDA c : c # "")
    IN  IF named = <<>> THEN "/" ELSE Last(named)

Basename(uri) ==
    IF ~uri.legal THEN <<>>
    ELSE IF uri.scheme = "" THEN <<PathBasename(uri.path)>>
    ELSE IF Len(uri.path) < 2 \/ (Len(uri.path) = 2 /\ uri.path[2] = "")
    THEN <<>>
    ELSE <<Last(uri.path)>>

ValidateUri(uri) == Basename(uri) # <<>>

ValidateUris(uris) == \A i \in DOMAIN uris : ValidateUri(uris[i])

\* [kind, path]: "none" when the URI is not local, "error", or a local "path"
\* below the frameworks home when it is relative
UriToLocalPath(uri, frameworksHome) ==
    LET file == uri.scheme \in {"file", "localhost"}
        absolute == Len(uri.path) > 1 /\ uri.path[1] = ""
        Result(kind, path) == [kind |-> kind, path |-> path]
    IN  CASE uri.scheme # "" /\ ~file -> Result("none", <<>>)
          [] file /\ ~absolute -> Result("error", <<>>)
          [] absolute -> Result("path", uri.path)
          [] OTHER -> IF frameworksHome = <<>> THEN Result("error", <<>>)
                      ELSE Result("path", frameworksHome \o uri.path)

IsNetUri(uri) == uri.scheme \in {"http", "https", "ftp", "ftps"}

--------------------------------------------------------------------------
(* The program *)

\* a file of that name replaces the one there was
Put(files, file) == {f \in files : f.name # file.name} \cup {file}

\* "error", or whether the file was an archive
Extract(name, fails) ==
    CASE name \in Archive /\ "extract" \in fails -> "error"
      [] name \in Archive /\ "extract" \notin fails -> "extracted"
      [] OTHER -> "not an archive"

DownloadWithHadoopClient(fails) == "hadoop" \notin fails

DownloadWithNet(fails) == "net" \notin fails

CopyFile(fails) == "copy" \notin fails

ChmodExecutable(fails) == "chmod" \notin fails

\* a local copy, libcurl or the Hadoop client
Download(item, frameworksHome) ==
    LET local == UriToLocalPath(item.uri, frameworksHome).kind
    IN  /\ ValidateUri(item.uri)
        /\ CASE local = "error" -> FALSE
             [] local = "path" -> CopyFile(item.fails)
             [] OTHER -> IF IsNetUri(item.uri) THEN DownloadWithNet(item.fails)
                         ELSE DownloadWithHadoopClient(item.fails)

File(name, item, exec) == [name |-> name, from |-> item.uri, exec |-> exec]

Failed(st) == [st EXCEPT !.ok = FALSE]

\* the downloaded archive stays in the sandbox beside its contents
FetchBypassingCache(st, item) ==
    LET name == Basename(item.uri)[1]
        down == [st EXCEPT !.sandbox = Put(@, File(name, item, FALSE))]
        unpack == Extract(name, item.fails)
    IN  CASE \/ ~ValidateUri(item.uri)
             \/ ~Download(item, st.frameworksHome) -> Failed(st)
          [] OTHER ->
             IF item.executable
             THEN IF ChmodExecutable(item.fails)
                  THEN [st EXCEPT !.sandbox = Put(@, File(name, item, TRUE))]
                  ELSE Failed(down)
             ELSE IF item.extract /\ unpack = "error" THEN Failed(down)
             ELSE IF item.extract /\ unpack = "extracted"
             THEN [down EXCEPT !.contents = @ \cup {item.uri}]
             ELSE down

\* Seeded fault: the mode of a file copied from the cache is not changed.
FetchWithoutChmod(st, item) ==
    LET name == Basename(item.uri)[1]
        source == {f \in st.cache : f.name = item.cacheFile[1]}
        origin == (CHOOSE f \in source : TRUE).from
        file == [name |-> name, from |-> origin, exec |-> FALSE]
    IN  IF ~ValidateUri(item.uri) \/ source = {} THEN Failed(st)
        ELSE [st EXCEPT !.sandbox = Put(@, file),
                        !.contents = @ \cup {origin}]

\* The cached file is copied or unpacked, whatever it was downloaded from;
\* it is an archive if its name in the cache says so.
FetchFromCache(st, item) ==
    LET name == Basename(item.uri)[1]
        source == {f \in st.cache : f.name = item.cacheFile[1]}
        origin == (CHOOSE f \in source : TRUE).from
        copies == source # {} /\ CopyFile(item.fails)
        unpack == IF source = {} THEN "error"
                  ELSE Extract(item.cacheFile[1], item.fails)
        Copied(exec) == [st EXCEPT !.sandbox =
                            Put(@, [name |-> name, from |-> origin,
                                    exec |-> exec])]
    IN  CASE ~ValidateUri(item.uri) -> Failed(st)
          [] ValidateUri(item.uri) /\ item.executable ->
                IF ~copies THEN Failed(st)
                ELSE IF ChmodExecutable(item.fails) THEN Copied(TRUE)
                ELSE Failed(Copied(FALSE))
          [] OTHER ->
                IF item.extract /\ item.cacheFile[1] \in Archive
                THEN IF unpack = "error" THEN Failed(st)
                     ELSE [st EXCEPT !.contents = @ \cup {origin}]
                ELSE IF copies THEN Copied(FALSE) ELSE Failed(st)

FetchThroughCache(st, item) ==
    LET cached == [st EXCEPT !.cache =
                    Put(@, File(item.cacheFile[1], item, FALSE))]
    IN  IF ~st.cacheDirectory \/ item.cacheFile = <<>> THEN Failed(st)
        ELSE IF item.action = "RETRIEVE_FROM_CACHE"
        THEN FetchFromCache(st, item)
        ELSE IF "mkdir" \in item.fails \/ ~Download(item, st.frameworksHome)
        THEN Failed(st)
        ELSE FetchFromCache(cached, item)

Fetch(st, item) ==
    IF item.action = "BYPASS_CACHE" THEN FetchBypassingCache(st, item)
                                    ELSE FetchThroughCache(st, item)

\* main(): the first failure ends the program with exit code 1, before the
\* sandbox is given to the user
Main(info) ==
    LET start == [ok |-> TRUE, sandbox |-> {}, contents |-> {},
                  cache |-> info.cache, cacheDirectory |-> info.cacheDirectory,
                  frameworksHome |-> info.frameworksHome]
        end == FoldLeft(LAMBDA st, item : IF st.ok THEN Fetch(st, item) ELSE st,
                        start, info.items)
        chowned == info.user # <<>> /\ end.ok /\ ~info.chownFails
    IN  [exit |-> IF end.ok /\ (info.user = <<>> \/ chowned) THEN 0 ELSE 1,
         sandbox |-> end.sandbox, contents |-> end.contents,
         cache |-> end.cache, owned |-> chowned]
=============================================================================
