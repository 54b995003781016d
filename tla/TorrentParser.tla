--------------------------- MODULE TorrentParser ---------------------------
(***************************************************************************)
(* The function parser of torrent_file.cpp: one pass over a bencoded       *)
(* torrent with no grammar, only the last key read (flag), two depth       *)
(* counters and a file that is being put together.  A token stands for the *)
(* characters one turn of the loop consumes: "d", "l", "i", "e", or digits *)
(* with what they introduce, a string of len bytes or the number of an     *)
(* integer.  A path is the sequence of the strings joined by "/".          *)
(***************************************************************************)
EXTENDS Metainfo

\* makeFlag; a flag is the key it stands for.
Keys == {"announce", "announce-list", "comment", "created by", "creation date",
         "info", "files", "md5sum", "length", "path", "name", "piece length",
         "pieces", "url-list"}
Texts == {"comment", "created by", "name", "md5sum"}

EmptyFile == [length |-> 0, path |-> <<>>, md5sum |-> ""]

EmptyTorrent ==
  [announce_list |-> <<>>, text |-> [t \in Texts |-> ""], creation_date |-> 0,
   pieceHashes |-> 0, pieceLength |-> 0, length |-> 0, files |-> <<>>,
   otherInfo |-> <<>>, url_list |-> <<>>, infoHash |-> <<>>]

\* The local variables; infoString is the sequence of the tokens it holds.
ParserInit ==
  [op |-> <<>>, flag |-> "NOTHING", cnt |-> 0, infoCounter |-> 0, isFiles |-> 0,
   prevStr |-> "", pathRoad |-> <<>>, file |-> EmptyFile, infoString |-> <<>>,
   tf |-> EmptyTorrent]

Push(s, c) == [s EXCEPT !.op = <<c>> \o @]

Nest(s) == [s EXCEPT !.cnt = @ + 1, !.infoCounter = IF @ > 0 THEN @ + 1 ELSE 0]

\* A dictionary or list is counted as the value of a key, or within "files".
NestIfValue(s) == IF s.flag # "NOTHING" \/ s.isFiles = 1 THEN Nest(s) ELSE s

OnDict(s) ==
  IF s.flag = "info"
    THEN [s EXCEPT !.infoCounter = @ + 1, !.flag = "NOTHING"]
    ELSE NestIfValue(s)

----------------------------------------------------------------------------
(* The end of a list, dictionary or integer.                                *)

MutFinishUnnamed(s) ==
  IF s.file.length # 0
    THEN [s EXCEPT !.tf.files = Append(@, s.file), !.file = EmptyFile]
  ELSE IF s.pathRoad # <<>>
    THEN [s EXCEPT !.file.path = s.pathRoad, !.pathRoad = <<>>, !.flag = "NOTHING"]
  ELSE s
FinishFile(s) ==
  IF s.file.path # <<>> /\ s.file.length # 0
    THEN [s EXCEPT !.tf.files = Append(@, s.file), !.file = EmptyFile]
  ELSE IF s.pathRoad # <<>>
    THEN [s EXCEPT !.file.path = s.pathRoad, !.pathRoad = <<>>, !.flag = "NOTHING"]
  ELSE s

LeaveTop(s) ==
  IF s.cnt > 0 THEN s
  ELSE [s EXCEPT !.flag = "NOTHING", !.isFiles = IF @ = 1 THEN -1 ELSE @]

OnEnd(s) ==
  LET t == LeaveTop([FinishFile(s) EXCEPT !.cnt = IF @ > 0 THEN @ - 1 ELSE 0])
  IN [t EXCEPT !.infoCounter = IF @ > 0 THEN @ - 1 ELSE 0, !.op = Tail(@)]

----------------------------------------------------------------------------
(* Digits: a number if an integer is open, a string otherwise.              *)

OnNumber(s, num) ==
  LET t == [s EXCEPT !.flag = "NOTHING"] IN
  CASE s.flag = "creation date" -> [t EXCEPT !.tf.creation_date = num]
    [] s.flag = "length" /\ s.isFiles # 0 -> [t EXCEPT !.file.length = num]
    [] s.flag = "length" /\ s.isFiles = 0 -> [t EXCEPT !.tf.length = num]
    [] s.flag = "piece length" -> [t EXCEPT !.tf.pieceLength = num]
    [] OTHER -> t

OnKey(s, key) ==
  CASE key \notin Keys -> [s EXCEPT !.flag = "OTHER", !.prevStr = key]
    [] key = "files"   -> [s EXCEPT !.isFiles = 1]
    [] OTHER           -> [s EXCEPT !.flag = key]

\* "announce-list", "path" and "url-list" stay: their values are lists.
OnValue(s, str, len) ==
  LET t == [s EXCEPT !.flag = "NOTHING"] IN
  CASE s.flag = "announce"      -> [t EXCEPT !.tf.announce_list = Append(@, str)]
    [] s.flag = "announce-list" -> [s EXCEPT !.tf.announce_list = Append(@, str)]
    [] s.flag = "OTHER" ->
         [t EXCEPT !.tf.otherInfo = Append(@, <<s.prevStr, str>>), !.prevStr = ""]
    [] s.flag = "path" -> [s EXCEPT !.pathRoad = Append(@, str)]
    [] s.flag = "md5sum" /\ s.isFiles # 0 -> [t EXCEPT !.file.md5sum = str]
    [] s.flag \in Texts /\ ~(s.flag = "md5sum" /\ s.isFiles # 0) ->
         [t EXCEPT !.tf.text[s.flag] = str]
    [] s.flag = "pieces" ->
         [t EXCEPT !.tf.pieceHashes = @ + (len + HashSize - 1) \div HashSize]
    [] s.flag = "url-list" -> [s EXCEPT !.tf.url_list = Append(@, str)]
    [] OTHER -> s

OnDigits(s, token) ==
  IF Head(s.op) = "i" THEN OnNumber(s, token.num)
  ELSE IF s.flag = "NOTHING" THEN OnKey(s, token.str)
  ELSE OnValue(s, token.str, token.num)

----------------------------------------------------------------------------
MutIntegersUncounted(s, token) ==
  CASE token.type = "d" -> OnDict(Push(s, "d"))
    [] token.type = "i" -> Push([s EXCEPT !.cnt = @ + 1], "i")
    [] token.type = "l" -> NestIfValue(Push(s, "l"))
    [] token.type = "e" -> OnEnd(s)
    [] token.type = "0" -> OnDigits(s, token)
OnToken(s, token) ==
  CASE token.type = "d" -> OnDict(Push(s, "d"))
    [] token.type = "i" -> Nest(Push(s, "i"))
    [] token.type = "l" -> NestIfValue(Push(s, "l"))
    [] token.type = "e" -> OnEnd(s)
    [] token.type = "0" -> OnDigits(s, token)

\* A turn of the loop; the "e" that closes the info dictionary is part of it.
Turn(s, token) ==
  LET t == OnToken(s, token) IN
  IF t.infoCounter > 0 \/ s.infoCounter > 0
    THEN [t EXCEPT !.infoString = Append(@, token)]
    ELSE t

\* After the loop.  infoHash is the hash of infoString, which stands for it;
\* announce_list loses its duplicates.
Finish(s) ==
  LET single == [length |-> s.tf.length, path |-> <<s.tf.text["name"]>>,
                 md5sum |-> s.tf.text["md5sum"]]
  IN [s.tf EXCEPT
       !.files  = IF @ = <<>> THEN <<single>> ELSE @,
       !.length = IF @ = 0 THEN s.tf.pieceHashes * s.tf.pieceLength ELSE @,
       !.announce_list = ToSet(@),
       !.infoHash = s.infoString]
=============================================================================
