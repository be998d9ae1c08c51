---------------------------- MODULE FileHandles -----------------------------
(***************************************************************************)
(* The File objects of p3/src/file.cpp: each is opened by a constructor, a *)
(* copy or an assignment, and those of one file share its stream, found by *)
(* its name in the static maps open_counts_ and open_streams_.             *)
(*                                                                         *)
(* The pages of the file REL are those of PageFile, which this module      *)
(* extends: they are used through any File object that is open on it.      *)
(***************************************************************************)
EXTENDS PageFile

CONSTANTS
    Name,        \* the names of files
    REL,         \* the one whose pages are told
    Handle,      \* the File objects that callers can have
    NoFile,      \* the file of a File object that does not exist
    MaxOpen,     \* bound: the File objects that exist at a time
    Recreates    \* bound: callers create files that are open

ASSUME NameAssumption == REL \in Name /\ NoFile \notin Name
ASSUME RecreatesAssumption == Recreates \in BOOLEAN

VARIABLES
    on_disk,     \* the files that exist
    open_files,  \* open_counts_ and open_streams_, which have the same names
    handle       \* handle[h]: the filename_ and stream_ of File object h

handleVars == <<on_disk, open_files, handle>>
allVars == <<vars, handleVars>>

Closed == [filename |-> NoFile, stream |-> 0]

HandlesInit ==
    /\ Init
    /\ on_disk = {}
    /\ open_files = [n \in {} |-> 0]
    /\ handle = [h \in Handle |-> Closed]

-----------------------------------------------------------------------------
(* openIfNeeded and close, on the maps. *)

(* A stream of its own; it lives as long as a File object uses it. *)
NewStream(files) ==
    CHOOSE s \in 1 .. Cardinality(DOMAIN files) + 1 : \A n \in DOMAIN files : files[n].stream # s

AlwaysNew(files, name) ==   \* mutant: the stream that is there is not shared
    [n \in DOMAIN files \cup {name} |->
        IF n # name THEN files[n]
        ELSE [count |-> IF name \in DOMAIN files THEN files[name].count + 1 ELSE 1,
              stream |-> NewStream(files)]]
Opened(files, name) ==
    [n \in DOMAIN files \cup {name} |->
        CASE n # name -> files[n]
          [] n = name /\ name \in DOMAIN files -> [files[n] EXCEPT !.count = @ + 1]
          [] OTHER -> [count |-> 1, stream |-> NewStream(files)]]

ClosedOnce(files, name) ==
    IF files[name].count = 1
    THEN [n \in DOMAIN files \ {name} |-> files[n]]
    ELSE [files EXCEPT ![name].count = @ - 1]

Attach(h, files, name) ==
    /\ open_files' = Opened(files, name)
    /\ handle' = [handle EXCEPT ![h] = [filename |-> name, stream |-> open_files'[name].stream]]

-----------------------------------------------------------------------------
(* The constructor.  A file that is open is opened again whatever is asked *)
(* for, and create_new then writes a header over its header.               *)
Construct(h, name, create_new) ==
    /\ handle[h] = Closed
    /\ Cardinality({g \in Handle : handle[g] # Closed}) < MaxOpen
    /\ create_new => Recreates \/ name \notin DOMAIN open_files
    /\ \/ /\ name \notin DOMAIN open_files
          /\ create_new = (name \in on_disk)
          /\ Result("File", IF create_new THEN "FileExists" ELSE "FileNotFound")
          /\ UNCHANGED <<fileVars, handleVars>>
       \/ /\ name \in DOMAIN open_files \/ create_new # (name \in on_disk)
          /\ Attach(h, open_files, name)
          /\ on_disk' = on_disk \cup {name}
          /\ IF create_new /\ name = REL
             THEN header' = NewHeader /\ pages' = NoPages
             ELSE UNCHANGED fileVars
          /\ Result("File", "ok")

(* PageFile(other): the file is open, so it opens. *)
CopyConstruct(h, other) ==
    /\ handle[other] # Closed
    /\ Construct(h, handle[other].filename, FALSE)

(* operator=, rhs may be the object itself.  The file of rhs is open, or   *)
(* was until now, so it exists.                                            *)
Assign(h, rhs) ==
    /\ handle[h] # Closed /\ handle[rhs] # Closed
    /\ Attach(h, ClosedOnce(open_files, handle[h].filename), handle[rhs].filename)
    /\ Result("operator=", "ok")
    /\ UNCHANGED <<fileVars, on_disk>>

Destroy(h) ==
    /\ handle[h] # Closed
    /\ open_files' = ClosedOnce(open_files, handle[h].filename)
    /\ handle' = [handle EXCEPT ![h] = Closed]
    /\ Result("~File", "ok")
    /\ UNCHANGED <<fileVars, on_disk>>

(* The guard of remove. *)
AnyFile(name) == TRUE   \* mutant
NotOpen(name) == name \notin DOMAIN open_files

Remove(name) ==
    \/ /\ name \in on_disk /\ NotOpen(name)
       /\ on_disk' = on_disk \ {name}
       /\ IF name = REL THEN header' = NewHeader /\ pages' = NoPages ELSE UNCHANGED fileVars
       /\ Result("remove", "ok")
       /\ UNCHANGED <<open_files, handle>>
    \/ /\ name \notin on_disk \/ ~NotOpen(name)
       /\ Result("remove", IF name \in on_disk THEN "FileOpen" ELSE "FileNotFound")
       /\ UNCHANGED <<fileVars, handleVars>>

(* What the owners of the File objects H do. *)
HandleNext(H) ==
    \/ \E h \in H :
          \/ \E name \in Name, create_new \in BOOLEAN : Construct(h, name, create_new)
          \/ \E other \in H : CopyConstruct(h, other) \/ Assign(h, other)
          \/ Destroy(h)
    \/ \E name \in Name : Remove(name)

(* The pages, through a File object that is open on the file. *)
PageNext(H) ==
    /\ \E h \in H : handle[h].filename = REL
    /\ Next
    /\ UNCHANGED handleVars

HandlesNext(H) == Running /\ (HandleNext(H) \/ PageNext(H))

HandlesSpec == HandlesInit /\ [][HandlesNext(Handle)]_allVars

-----------------------------------------------------------------------------
(* What must hold. *)

On(name) == {h \in Handle : handle[h].filename = name}

(* The maps tell which files are open and how often, and all File objects  *)
(* of a file write through the one stream, so that each finds at once what *)
(* another has written; a file that is open is there.                      *)
HandlesExact ==
    /\ DOMAIN open_files = {handle[h].filename : h \in Handle} \ {NoFile}
    /\ \A n \in DOMAIN open_files :
          /\ open_files[n].count = Cardinality(On(n))
          /\ \A h \in On(n) : handle[h].stream = open_files[n].stream
          /\ \A m \in DOMAIN open_files : m # n => open_files[m].stream # open_files[n].stream
    /\ DOMAIN open_files \subseteq on_disk

(* No page goes but by deletePage while there is a File object for its     *)
(* file: remove refuses (file.h: FileOpenException), and so should create  *)
(* (file.h: the constructor throws FileExistsException if the underlying   *)
(* file exists and create_new is true), where only Recreates is FALSE.     *)
PagesOutlastOpen ==
    [][\A n \in Used : n \in DOMAIN pages' \/ On(REL) = {}]_allVars
=============================================================================
