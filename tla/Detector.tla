------------------------------ MODULE Detector ------------------------------
(***************************************************************************)
(* xfsx/detector.cc with xfsx/xml2lxml.cc and xfsx/character.cc: the       *)
(* format of a file is detected from the first elements of it.             *)
(*                                                                         *)
(* The header is a tree, kept as the sequence of its nodes in the order    *)
(* they are read.  A tag of the input is a record of its kind, its name    *)
(* and the text in front of it.  A file name and a text are sequences of   *)
(* pieces; a piece such as "{major}" refers to a variable, and the texts   *)
(* of a header have no such piece.                                         *)
(***************************************************************************)
EXTENDS IntegerCodec

CONSTANT HeaderCount                \* elements of a header, 18 in the code

ASSUME HeaderAssumption == HeaderCount \in Nat \ {0}

(* -------------------------------- Header --------------------------------- *)

Document == 0

None == -1

NewTree == [nodes |-> << >>, node |-> None, count |-> 0]

\* The parent of the document is null, that of the root is the document.
Parent(tree) ==
    IF tree.node = Document THEN None ELSE tree.nodes[tree.node].parent

AddElement(tree, name) ==
    [nodes |-> Append(tree.nodes, [name |-> name, content |-> << >>,
                  parent |-> IF tree.node = None THEN Document ELSE tree.node]),
     node |-> Len(tree.nodes) + 1,
     count |-> tree.count + 1]

\* The tag behind the last element of the header ends it.
HeaderComplete(tree, tag) == tag.kind # "end" /\ tree.count >= HeaderCount

\* The text in front of an end tag is the content of its element; names of
\* end tags are not compared.
process_tag(tree, tag) ==
    IF tag.kind = "end"
    THEN IF tree.node = None THEN Failed
         ELSE [tree EXCEPT
                 !.nodes = [n \in DOMAIN @ |-> IF n # tree.node THEN @[n]
                    ELSE [@[n] EXCEPT !.content = @ \o tag.text]],
                 !.node = Parent(tree)]
    ELSE LET added == AddElement(tree, tag.name)
         IN  IF tag.kind = "start" THEN added
             ELSE [added EXCEPT !.node = Parent(added)]

(* ------------------------------- Variables ------------------------------- *)

Children(tree, node, name) ==
    {n \in DOMAIN tree.nodes :
        tree.nodes[n].parent = node /\ tree.nodes[n].name = name}

FirstChild(tree, node, name) ==
    LET children == Children(tree, node, name)
    IN  IF children = {} THEN None
        ELSE CHOOSE n \in children : \A m \in children : n <= m

\* The value of string(/A[1]/B[1]/C), which is empty when there is no C.
get_string(tree, path) ==
    LET node == FoldLeft(LAMBDA n, name : FirstChild(tree, n, name),
                         Document, path)
    IN  IF node = None THEN << >> ELSE tree.nodes[node].content

verify_filename_part(text) ==
    \A i \in DOMAIN text : text[i] \notin {"/", "control"}

Usable(text) == text # << >> /\ verify_filename_part(text)

\* A fault: what was found stays although another variable is missing.
read_variables_in_place(definition, tree, var_map) ==
    LET found == {i \in DOMAIN definition.variables :
            \A j \in 1..i :
               Usable(get_string(tree, definition.variables[j].path))}
    IN  [v \in {definition.variables[i].name : i \in found} |->
            get_string(tree, definition.variables[
               CHOOSE i \in found : definition.variables[i].name = v].path)]
        @@ var_map

\* All variables of a definition have a usable value, or none is changed.
read_variables(definition, tree, var_map) ==
    LET variables == definition.variables
        names == {variables[i].name : i \in DOMAIN variables}
    IN  IF \A i \in DOMAIN variables :
              Usable(get_string(tree, variables[i].path))
        THEN [v \in names |-> get_string(tree,
                variables[CHOOSE i \in DOMAIN variables :
                             variables[i].name = v].path)]
        ELSE var_map

replace_variables(name, var_map) ==
    FlattenSeq([i \in DOMAIN name |->
        IF name[i] \in DOMAIN var_map THEN var_map[name[i]] ELSE <<name[i]>>])

(* --------------------------------- Files --------------------------------- *)

\* The directory of the user's configuration is one of two.
default_asn_search_path(env) ==
    env.ASN1_PATH
    \o (IF env.XDG_CONFIG_HOME # << >> THEN env.XDG_CONFIG_HOME ELSE env.HOME)
    \o <<"/etc", "/share">>

\* ixxx::util::which: the file in the first directory that has it.
which(path, disk, name) ==
    LET having == {i \in DOMAIN path : name \in disk[path[i]]}
    IN  IF having = {} THEN Failed
        ELSE <<path[CHOOSE i \in having : \A j \in having : i <= j], name>>

map_which(path, disk, names) ==
    LET found == [i \in DOMAIN names |-> which(path, disk, names[i])]
    IN  IF \E i \in DOMAIN names : found[i] = Failed THEN Failed ELSE found

(* -------------------------------- Result --------------------------------- *)

DecimalDigits == {"0", "1", "2", "3", "4", "5", "6", "7", "8", "9"}

IsNumber(text) == text # << >> /\ \A i \in DOMAIN text : text[i] \in DecimalDigits

\* All files a definition asks for - its grammars, its constraints and its
\* script, where it has them - have to be there, and both versions have to
\* be numbers.
assign_result(definition, var_map, path, disk) ==
    LET files == [k \in DOMAIN definition.resulting |->
            map_which(path, disk, [i \in DOMAIN definition.resulting[k] |->
                replace_variables(definition.resulting[k][i], var_map)])]
    IN  IF \/ \E k \in DOMAIN files : files[k] = Failed
           \/ \E v \in {"{major}", "{minor}"} :
                v \notin DOMAIN var_map \/ ~IsNumber(var_map[v])
        THEN Failed
        ELSE [name |-> definition.name, files |-> files,
              major |-> var_map["{major}"], minor |-> var_map["{minor}"]]
=============================================================================
