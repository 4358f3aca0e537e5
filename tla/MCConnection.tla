---------------------------- MODULE MCConnection ----------------------------
(* A small file system and the requests a peer may make of it: one for each *)
(* way through the handler, and for the edges of what a target may look     *)
(* like.  The document root is written with and without a last separator,   *)
(* relative and absolute, with "." and ".."; an empty one is the root of   *)
(* the file system; one is missing.                                         *)
EXTENDS Connection

MCDocRoots == {<<".", "/", "srv", "/", "html", "/">>,
               <<"/", "home", "/", "srv", "/", "html">>,
               <<"srv", "/", "html", "/", "sub", "/", "..">>,
               <<"srv", "/", "none">>,
               <<>>}
MCCwd == <<"home">>
MCDirs == {<<>>, <<"home">>, <<"home", "srv">>, <<"home", "srv", "html">>,
           <<"home", "srv", "html", "sub">>, <<"home", "srv", "html", "shut">>}
MCFiles == {<<"home", "srv", "secret">>,
            <<"home", "srv", "html", "index.html">>,
            <<"home", "srv", "html", "locked.css">>,
            <<"home", "srv", "html", "sub", "x..y">>}
MCDenied == {<<"home", "srv", "html", "locked.css">>,
             <<"home", "srv", "html", "shut">>}
MCDotted == {"..", "x..y"}
MCExtension ==
  [name \in {"home", "srv", "html", "sub", "shut", "secret", "index.html",
             "locked.css", "x..y", "none", ".", ".."} |->
     CASE name = "index.html" -> ".html"
       [] name = "locked.css" -> ".css"
       [] name = "x..y" -> ".y"
       [] name \in {".", ".."} -> "."
       [] OTHER -> ""]

Targets ==
  {<<"/">>,                                  \* the root's index.html
   <<"/", "/", "index.html">>,               \* a doubled separator
   <<"/", ".", "/", "index.html">>,          \* the directory's own name
   <<"/", "index.html", "/", ".">>,          \* looked for in a file
   <<"/", "none">>,                          \* missing
   <<"/", "sub">>,                           \* a directory
   <<"/", "sub", "/">>,                      \* one without index.html
   <<"/", "index.html", "/">>,               \* a file taken for a directory
   <<"/", "locked.css">>,                    \* may not be opened
   <<"/", "shut", "/", "none">>,             \* missing, behind such a one
   <<"/", "..", "/", "secret">>,             \* outside the document root
   <<"/", "home", "/", "srv", "/", "secret">>,
   <<"/", "sub", "/", "x..y">>,              \* two dots inside a name
   <<"index.html">>}                         \* not absolute

Ask(method, target, keep) ==
  [method |-> method, target |-> target, keep |-> keep]

\* GET for every target; a HEAD that finds its file, one that does not and one
\* for a directory; another method; and two that end the connection.
MCRequests ==
  {Ask("get", target, TRUE) : target \in Targets}
    \cup {Ask("head", <<"/">>, TRUE), Ask("head", <<"/", "none">>, TRUE),
          Ask("head", <<"/", "sub">>, TRUE), Ask("other", <<"/">>, TRUE),
          Ask("get", <<"/">>, FALSE), Ask("head", <<"/", "none">>, FALSE)}

MCLimit == 2
MCMaxRequests == 4
=============================================================================
