----------------------------- MODULE TaskNames -----------------------------
(***************************************************************************)
(* How a dotted key finds a task, a config or a module: TaskFinder and     *)
(* resolve_key_path of smart/auto/parser/tools.py, TaskMetaParser of       *)
(* parser/task.py, DotPathContext of utils/dot_path.py, the names the      *)
(* loader gives the tasks it loads, and the routes of the REST framework.  *)
(* A dotted or slashed name is the sequence of its parts; a relative one   *)
(* is [dots, rest], dots = 0 for an absolute path.                         *)
(***************************************************************************)
EXTENDS Naturals, Sequences, SequencesExt, FiniteSets, FiniteSetsExt, Functions

CONSTANTS None,  \* no value
          Err    \* the IndexError of url_path_match

(* TaskFinder._load_task_map: tasks is a sequence of [name, alias] (those  *)
(* with a class); the last task that claims an alias has it.               *)
TaskMap(tasks) == { tasks[i].name : i \in DOMAIN tasks }

AliasMap(tasks, a) ==
    LET i == SelectLastInSeq(tasks, LAMBDA t : a \in t.alias)
    IN  IF i = 0 THEN None ELSE tasks[i].name

BaseNameMap(tasks, n) == { t \in TaskMap(tasks) : Len(t) > 1 /\ <<Last(t)>> = n }

(* find_task_dict: the name, else an alias, else a short name that only    *)
(* one task has.                                                           *)
FindTask(tasks, n) ==
    CASE n \in TaskMap(tasks)                     -> n
      [] n \notin TaskMap(tasks) /\ AliasMap(tasks, n) # None -> AliasMap(tasks, n)
      [] OTHER -> IF Cardinality(BaseNameMap(tasks, n)) = 1
                  THEN CHOOSE t \in BaseNameMap(tasks, n) : TRUE ELSE None

(* parse_task_method and parse_task_key_info: the last part is the method  *)
(* of the task the rest names, else the whole key is a task (func None).   *)
(* A key with `.@' is [key, ext]: all of it before the mark is the task.   *)
ParseTaskKey(tasks, key, ext) ==
    LET front == IF Len(key) > 1 THEN Front(key) ELSE key
        func  == IF Len(key) > 1 THEN Last(key) ELSE None
    IN  CASE ext # None -> [task |-> FindTask(tasks, key), func |-> ext, cls |-> key]
          [] ext = None /\ (FindTask(tasks, front) # None \/ FindTask(tasks, key) = None) ->
                [task |-> FindTask(tasks, front), func |-> func, cls |-> front]
          [] OTHER -> [task |-> FindTask(tasks, key), func |-> None, cls |-> key]

(* parse_task_meta: a task in the dictionary, else what module.task names  *)
(* when imported (which may raise), else nothing: ValueError.              *)
TaskSource(tasks, key, ext) ==
    LET info == ParseTaskKey(tasks, key, ext)
    IN  CASE info.task # None -> "dict"
          [] info.task = None /\ Len(info.cls) > 1 -> "module"
          [] OTHER -> "error"

(* resolve_key_path and NamespaceTemplate.__get_mapping_val: `.' stands    *)
(* for the context path, every further dot for one level above it; None    *)
(* beyond the root.  Without a context the dots are empty keys.            *)
ResolveKeyPath(path, context) ==
    CASE path.dots = 0 -> path.rest
      [] path.dots = 1 /\ path.rest = <<>> -> context
      [] path.dots > 0 /\ path.dots + Len(path.rest) > 1 /\ context = <<>> ->
            [i \in 1 .. path.dots |-> ""] \o (IF path.rest = <<>> THEN <<"">> ELSE path.rest)
      [] OTHER -> IF path.dots > Len(context) + 1 THEN None
                  ELSE SubSeq(context, 1, Len(context) - (path.dots - 1)) \o path.rest

(* DotPathContext.resolve_dotted_path, from the directory of the yml; None *)
(* also for a path that stays relative because there is no directory.      *)
(* ".." alone leaves a dot at the end, hence an empty last part.           *)
ResolveDottedPath(path, dir) ==
    CASE path.dots = 0 -> path.rest
      [] path.dots > 0 /\ (dir = <<>> \/ path.dots > Len(dir) + 1) -> None
      [] OTHER -> SubSeq(dir, 1, Len(dir) - path.dots + 1)
                  \o (IF path.dots > 1 /\ path.rest = <<>> THEN <<"">> ELSE path.rest)

(* AutoLoadManage.get_package_namespace: the longest prefix of the module  *)
(* that has a namespace.  (namespaces is a function of package paths.)     *)
PackageNamespace(namespaces, mod) ==
    LET named == { n \in 1 .. Len(mod) : SubSeq(mod, 1, n) \in DOMAIN namespaces }
    IN  IF named = {} THEN None ELSE namespaces[SubSeq(mod, 1, Max(named))]

(* _rename_module: a prefix ("lib.") is put before the whole name, a module*)
(* replaces all but the last part.                                         *)
RenameModule(name, as) ==
    CASE as = None -> name
      [] as # None /\ as.prefix -> as.path \o name
      [] OTHER -> Append(as.path, Last(name))

(* loader_load_tasks: the tasks of the modules loaded, under their names,  *)
(* merged into those of the yml, which keep the class they name.  yml maps *)
(* a name to a class path or None; metas is a sequence of [name, cls, as,  *)
(* ns, object] (as: as_module or None, ns: the package namespace).  What a *)
(* decorator registered is stored as the class itself, which equals no     *)
(* path: a second task of the name is refused even for the same class.     *)
LoadedName(m) == RenameModule(m.name, IF m.as # None THEN m.as ELSE m.ns)

LoadTasks(yml, metas) ==
    LET add(s, m) ==
            LET n     == LoadedName(m)
                class == IF n \in DOMAIN s.tasks THEN s.tasks[n] ELSE None
                new   == IF m.object THEN <<"object", m.cls>> ELSE m.cls
            IN  CASE s.err                   -> s
                  [] ~ s.err /\ class = None -> [s EXCEPT !.tasks = [k \in DOMAIN @ \cup {n} |->
                                                                      IF k = n THEN new ELSE @[k]]]
                  [] OTHER                   -> [s EXCEPT !.err = class # m.cls]
    IN  FoldLeft(add, [tasks |-> yml, err |-> FALSE], metas)
-----------------------------------------------------------------------------
(***************************************************************************)
(* Routes: rest/util/url_path.py and RouteManage of rest/app.  A part of a *)
(* route is [kind, name]: a "word", "*" (any part), "**" (any parts) or a  *)
(* "var" (any part, kept under its name).                                  *)
(***************************************************************************)
From(s, i) == SubSeq(s, i, Len(s))

NoVars == << >>

(* url_path_match: [match, vars], or Err where the code indexes past the   *)
(* end of the path.  "**" tries every suffix of the WHOLE path, whatever   *)
(* the parts before it have taken.                                         *)
No == [match |-> FALSE, vars |-> NoVars]

RECURSIVE UrlPathMatch(_, _, _), MatchFrom(_, _, _, _)
UrlPathMatch(path, pattern, vars) ==
    CASE path = <<>> \/ pattern = <<>> ->
            IF path = <<>> /\ pattern = <<>> THEN [match |-> TRUE, vars |-> vars] ELSE No
      [] OTHER -> IF Len(pattern) # Len(path) /\ \A i \in DOMAIN pattern : pattern[i].kind # "**"
                  THEN No ELSE MatchFrom(path, pattern, vars, 1)

MatchFrom(path, pattern, vars, i) ==
    IF i > Len(pattern) THEN [match |-> TRUE, vars |-> vars]
    ELSE LET part == pattern[i]
             rests == [j \in DOMAIN path |-> UrlPathMatch(From(path, j + 1), From(pattern, i + 1), vars)]
             hit  == SelectInSeq(rests, LAMBDA r : r = Err \/ r.match)
         IN  CASE part.kind = "**" -> IF hit = 0 THEN No ELSE rests[hit]
               [] part.kind = "*"  -> UrlPathMatch(From(path, i + 1), From(pattern, i + 1), vars)
               [] part.kind \in {"var", "word"} /\ i > Len(path) -> Err
               [] part.kind = "var" /\ i <= Len(path) ->
                     MatchFrom(path, pattern, [k \in DOMAIN vars \cup {part.name} |->
                                               IF k = part.name THEN path[i] ELSE vars[k]], i + 1)
               [] OTHER -> IF part.name = path[i] THEN MatchFrom(path, pattern, vars, i + 1) ELSE No

(* split_pathes_to_fix_and_pattern: the words a route begins with.         *)
FixLen(route) ==
    LET i == SelectInSeq(route, LAMBDA p : p.kind # "word") IN IF i = 0 THEN Len(route) ELSE i - 1

FixPathes(route) == [i \in 1 .. FixLen(route) |-> route[i].name]

(* The rest of the path against the pattern of a route.                    *)
MatchRoute(r, path) ==
    UrlPathMatch(From(path, FixLen(r.route) + 1), From(r.route, FixLen(r.route) + 1), NoVars)

(* The routes whose first n parts are those of the path, and which answer. *)
Answering(routes, path, method, n) ==
    { i \in DOMAIN routes :
        /\ FixPathes(routes[i].route) = SubSeq(path, 1, n)
        /\ LET r == MatchRoute(routes[i], path)
           IN  IF r = Err THEN TRUE ELSE r.match /\ method \in routes[i].methods }

(* find_handler: the routes of the longest literal prefix first, in the    *)
(* order they were added.  routes is a sequence of [route, methods].       *)
Found(routes, path, i) ==
    IF MatchRoute(routes[i], path) = Err THEN [route |-> 0, vars |-> Err]
    ELSE [route |-> i, vars |-> MatchRoute(routes[i], path).vars]

NoHandler == [route |-> 0, vars |-> NoVars]

ShortestFirst(routes, path, method) ==   \* a fault: the shortest literal prefix first
    LET lengths == { n \in 0 .. Len(path) : Answering(routes, path, method, n) # {} }
    IN  IF lengths = {} THEN NoHandler
        ELSE Found(routes, path, Min(Answering(routes, path, method, Min(lengths))))

FindHandler(routes, path, method) ==
    LET lengths == { n \in 0 .. Len(path) : Answering(routes, path, method, n) # {} }
    IN  IF lengths = {} THEN NoHandler
        ELSE Found(routes, path, Min(Answering(routes, path, method, Max(lengths))))
=============================================================================
