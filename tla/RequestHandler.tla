--------------------------- MODULE RequestHandler ---------------------------
(***************************************************************************)
(* What the server answers: handle_request and default_handle_request      *)
(* (http/server/handlers/handler.hpp) with path_cat and mime_type          *)
(* (http/server/functions.cpp), as operators from a request to a response. *)
(*                                                                         *)
(* A path or a target is a sequence of tokens, the separator "/" and the   *)
(* names between separators.  Of a name only three things matter: whether  *)
(* it is "." or "..", whether its text contains two dots in a row, and its *)
(* extension.  The file system is a tree of names without links; opening a *)
(* path in it follows POSIX.  A file's size is stood for by its location.  *)
(***************************************************************************)
EXTENDS Naturals, Sequences, SequencesExt

CONSTANTS
  Cwd,        \* where a relative path starts: a location
  Dirs,       \* the directories: locations, sequences of names from "/" on
  Files,      \* the files, also locations
  Denied,     \* those the program may not read (it may search all of Dirs)
  Dotted,     \* the names whose text contains ".."
  Extension   \* function from names to ".ext", from the last dot on, or ""

Name == DOMAIN Extension
Token == Name \cup {"/"}

ASSUME TreeAssumption ==
  /\ "/" \notin Name
  /\ Dirs \cup Files \subseteq Seq(Name)
  /\ <<>> \in Dirs
  /\ Dirs \cap Files = {}
  /\ \A loc \in Dirs \cup Files : loc # <<>> => Front(loc) \in Dirs
  /\ Cwd \in Dirs
  /\ Denied \subseteq Dirs \cup Files
  /\ ".." \in Dotted
  /\ "index.html" \in Name \ Dotted

-----------------------------------------------------------------------------
(* Paths. *)

\* Mutant: the last character of the base is cut off, separator or not.
PathCatChops(base, path) ==
  IF base = <<>> THEN path ELSE Front(base) \o path

\* The base without its trailing separator, followed by the path.
PathCat(base, path) ==
  IF base = <<>> THEN path
  ELSE (IF Last(base) = "/" THEN Front(base) ELSE base) \o path

\* Mutant: two dots in a row are not looked for.
IllegalUnlessAbsolute(target) == target = <<>> \/ Head(target) # "/"

\* The target must be absolute and not contain "..".
IllegalTarget(target) ==
  \/ target = <<>>
  \/ Head(target) # "/"
  \/ \E i \in DOMAIN target : target[i] \in Dotted

\* The file to send for a target.
PathOf(root, target) ==
  PathCat(root, target)
    \o (IF Last(target) = "/" THEN <<"index.html">> ELSE <<>>)

\* What the extension of the name after the last dot says.  A last name
\* without a dot has no extension that is known, whatever its directory has.
MimeType(path) ==
  LET ext == Extension[Last(path)]
      kinds == {<<{".htm", ".html", ".php"}, "text/html">>,
                <<{".css"}, "text/css">>,
                <<{".txt"}, "text/plain">>,
                <<{".js"}, "application/javascript">>,
                <<{".json"}, "application/json">>,
                <<{".xml"}, "application/xml">>,
                <<{".swf"}, "application/x-shockwave-flash">>,
                <<{".flv"}, "video/x-flv">>,
                <<{".png"}, "image/png">>,
                <<{".jpe", ".jpeg", ".jpg"}, "image/jpeg">>,
                <<{".gif"}, "image/gif">>,
                <<{".bmp"}, "image/bmp">>,
                <<{".ico"}, "image/vnd.microsoft.icon">>,
                <<{".tiff", ".tif"}, "image/tiff">>,
                <<{".svg", ".svgz"}, "image/svg+xml">>}
  IN  IF \E k \in kinds : ext \in k[1]
        THEN (CHOOSE k \in kinds : ext \in k[1])[2]
        ELSE "application/text"

-----------------------------------------------------------------------------
(* The file system, which is not part of the repository. *)

\* One token of a path, from where the walk has got to.  Only a directory has
\* names in it, and among them "." for itself and ".." for the one above.
Walk(at, token) ==
  IF at.state # "found" \/ token = "/" THEN at
  ELSE IF at.loc \in Files THEN [at EXCEPT !.state = "error"]
  ELSE IF token = "." THEN at
  ELSE IF token = ".." THEN
    [at EXCEPT !.loc = IF @ = <<>> THEN @ ELSE Front(@)]
  ELSE IF Append(at.loc, token) \in Dirs \cup Files THEN
    [at EXCEPT !.loc = Append(@, token)]
  ELSE [at EXCEPT !.state = "missing"]

\* Where a walk along a path is after each token.
WalkAlong(from, path) ==
  LET at[n \in 0 .. Len(path)] ==
        IF n = 0 THEN from ELSE Walk(at[n - 1], path[n])
  IN  at

\* Where a walk along the whole path ends.
WalkTo(from, path) == WalkAlong(from, path)[Len(path)]

\* The root of the file system for an absolute path, and for an empty one.
Start(path) ==
  [state |-> "found",
   loc |-> IF path # <<>> /\ Head(path) # "/" THEN Cwd ELSE <<>>]

\* Opening a path for reading: no such file, another error, or the location
\* of what was opened, which may be a directory.
Open(path) ==
  LET end == WalkTo(Start(path), path)
  IN  IF end.state = "found" /\ end.loc \in Denied
        THEN [end EXCEPT !.state = "error"]
        ELSE end

-----------------------------------------------------------------------------
(* Responses. *)

\* An error response, with a text for its body.  It closes the connection
\* exactly if the request asks for that: a length is always set.
ErrorResponse(status, request) ==
  [status |-> status, type |-> "text/html", length |-> "text",
   body |-> "text", close |-> ~request.keep]

\* The answer to a HEAD request: the header only.
HeadResponse(path, loc, request) ==
  [status |-> 200, type |-> MimeType(path), length |-> loc,
   body |-> "none", close |-> ~request.keep]

\* The answer to a GET request.  A directory opens like a file, but reading
\* it fails, before anything was sent.
GetResponse(path, loc, request) ==
  [status |-> 200, type |-> MimeType(path), length |-> loc,
   body |-> IF loc \in Files THEN "file" ELSE "unreadable",
   close |-> ~request.keep]

\* Mutant: HEAD is answered like GET.
HeadForgotten(request) == FALSE

IsHead(request) == request.method = "head"

DefaultHandleRequest(root, request) ==
  LET path == PathOf(root, request.target)
      opened == Open(path)
  IN  IF request.method \notin {"get", "head"} THEN ErrorResponse(400, request)
      ELSE IF IllegalTarget(request.target) THEN ErrorResponse(400, request)
      ELSE IF opened.state = "missing" THEN ErrorResponse(404, request)
      ELSE IF opened.state = "error" THEN ErrorResponse(500, request)
      ELSE IF IsHead(request) THEN HeadResponse(path, opened.loc, request)
      ELSE GetResponse(path, opened.loc, request)

\* No handler is ever registered, so the default answers.
HandleRequest(root, request) == DefaultHandleRequest(root, request)

-----------------------------------------------------------------------------
(* The reference: what a request should get, said of locations rather than  *)
(* of the texts of paths.                                                   *)

\* The names in the beginnings of a text, without those that lead nowhere.
NamesAlong(text) ==
  LET names[n \in 0 .. Len(text)] ==
        IF n = 0 THEN <<>>
        ELSE IF text[n] \in {"/", "."} THEN names[n - 1]
        ELSE Append(names[n - 1], text[n])
  IN  names

Names(text) == NamesAlong(text)[Len(text)]

\* What the document root names; the root of the file system if it is empty.
DocumentRoot(root) == WalkTo(Start(root), root)

\* A target, and what is to be sent for one that ends in a separator.
TargetPath(target) ==
  target \o (IF Last(target) = "/" THEN <<"index.html">> ELSE <<>>)

\* The location a target without ".." names below the document root.
TargetLocation(root, target) ==
  DocumentRoot(root).loc \o Names(TargetPath(target))

\* Such a target looks for something in a file: a name, or a dot.
SearchesFile(root, target) ==
  LET text == TargetPath(target)
  IN  \E n \in DOMAIN text :
        /\ text[n] # "/"
        /\ DocumentRoot(root).loc \o NamesAlong(text)[n - 1] \in Files

\* A request that is answered without a look at the file system.
Refused(request) ==
  \/ request.method \notin {"get", "head"}
  \/ request.target = <<>>
  \/ Head(request.target) # "/"
  \/ \E i \in DOMAIN request.target : request.target[i] \in Dotted

\* A request for a directory that may be read.
ForDirectory(root, request) ==
  /\ ~Refused(request)
  /\ DocumentRoot(root).state = "found"
  /\ TargetLocation(root, request.target) \in Dirs \ Denied

\* The status any other request should get.
ExpectedStatus(root, request) ==
  LET loc == TargetLocation(root, request.target)
  IN  IF Refused(request) THEN 400
      ELSE IF DocumentRoot(root).state = "missing" THEN 404
      ELSE IF DocumentRoot(root).state = "error" THEN 500
      ELSE IF loc \in Denied \/ SearchesFile(root, request.target) THEN 500
      ELSE IF loc \in Files THEN 200
      ELSE 404

\* A response fits its request: exactly a request that does not keep the
\* connection ends it, the status is the expected one, the header of a file
\* is the file's, and GET has the body that HEAD leaves out.  Of a directory
\* only the first is said: nothing in the repository tells what it should
\* get, and what it gets, a header and no body, is right for HEAD at most.
Fits(root, request, response) ==
  /\ response.close = ~request.keep
  /\ ForDirectory(root, request) \/
       /\ response.status = ExpectedStatus(root, request)
       /\ response.status = 200 =>
            /\ response.length = TargetLocation(root, request.target)
            /\ response.type = MimeType(TargetLocation(root, request.target))
            /\ response.body = IF request.method = "head" THEN "none"
                                                          ELSE "file"
       /\ response.status # 200 => response.length = "text"

\* A location at or below the document root.
Below(root, loc) == IsPrefix(DocumentRoot(root).loc, loc)

\* A peer finds the end of a response by the method of its request: to it no
\* response to HEAD has a body.
Delimited(request, response) ==
  request.method = "head" => response.body = "none"

=============================================================================
