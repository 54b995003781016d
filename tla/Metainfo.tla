------------------------------ MODULE Metainfo ------------------------------
(***************************************************************************)
(* What other programs write into a torrent file: a description of the     *)
(* content and its bencoding, as the tokens TorrentParser reads.  The keys *)
(* of a dictionary are sorted, as the format requires.                     *)
(***************************************************************************)
EXTENDS ByteTools

CONSTANT HashSize  \* bytes of a hash in "pieces", 20 in the code

ASSUME HashSizeAssumption == HashSize \in Nat \ {0}

Str(s)        == <<[type |-> "0", str |-> s, num |-> 0]>>
Bytes(s, n)   == <<[type |-> "0", str |-> s, num |-> n]>>
Token(c)      == <<[type |-> c, str |-> "", num |-> 0]>>
Number(n)     == Token("i") \o <<[type |-> "0", str |-> "", num |-> n]>> \o Token("e")
List(items)   == Token("l") \o FlattenSeq(items) \o Token("e")
Dict(entries) == Token("d") \o FlattenSeq(entries) \o Token("e")
Strs(ss)      == List([k \in DOMAIN ss |-> Str(ss[k])])

Lengths(t) == [k \in DOMAIN t.files |-> t.files[k].length]
Content(t) == SumTo(Lengths(t), Len(t.files))
PieceCount(t) == (Content(t) + t.pieceLength - 1) \div t.pieceLength

\* An entry that is there only in the torrents that have it.
Entry(t, option, tokens) == IF option \in t.options THEN tokens ELSE <<>>

\* Keys the parser does not know stand before, between and after those it does:
\* strings, integers and a list of one string.  (A list of two, such as the
\* "path.utf-8" of a file in a directory, is none of them: the parser takes its
\* second string for a key, and the next "length" for that key's value.)
FileEntry(t, f) ==
  Dict(<<Entry(t, "attr", Str("attr") \o Str("x")),
         Str("length") \o Number(f.length),
         Entry(t, "md5sum", Str("md5sum") \o Str("md5")),
         Entry(t, "mtime", Str("mtime") \o Number(7)),
         Str("path") \o Strs(f.path),
         Entry(t, "sha1", Str("sha1") \o Str("y")),
         Entry(t, "symlink path", Str("symlink path") \o Strs(<<"x">>))>>)

\* Outside "files" a list of two strings does no harm: its end drops the key.
Info(t) ==
  Dict(<<IF t.single
           THEN Str("length") \o Number(t.files[1].length)
           ELSE Str("files") \o List([k \in DOMAIN t.files |-> FileEntry(t, t.files[k])]),
         Str("name") \o Str(t.name),
         Str("piece length") \o Number(t.pieceLength),
         Str("pieces") \o Bytes("hashes", HashSize * PieceCount(t)),
         Entry(t, "private", Str("private") \o Number(1)),
         Entry(t, "similar", Str("similar") \o Strs(<<"x", "y">>)),
         Entry(t, "source", Str("source") \o Str("name"))>>)

Encode(t) ==
  Dict(<<Str("announce") \o Str(t.announce[1]),
         Entry(t, "announce-list",
               Str("announce-list")
                 \o List([k \in DOMAIN t.announce |-> Strs(<<t.announce[k]>>)])),
         Entry(t, "comment", Str("comment") \o Str("info")),
         Entry(t, "creation date", Str("creation date") \o Number(7)),
         Entry(t, "encoding", Str("encoding") \o Str("UTF-8")),
         Str("info") \o Info(t),
         Entry(t, "url-list", Str("url-list") \o Strs(<<"u1", "u2">>))>>)
=============================================================================
