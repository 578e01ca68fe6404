------------------------------- MODULE Paths -------------------------------
(***************************************************************************)
(* Path names on their way to the server and back (path_utils.c and        *)
(* charset_utils.c).  A string is a sequence of bytes.  FUSE names a file  *)
(* by a path in iocharset, which begins with a slash; the server knows it  *)
(* by a name in codepage; libcurl is given a URL.                          *)
(*                                                                         *)
(* iocharset is UTF-8, the default, and codepage, when given, Latin-1.     *)
(***************************************************************************)
EXTENDS Integers, Sequences, SequencesExt

CONSTANTS
  codepage   \* the option codepage was given

ASSUME CodepageAssumption == codepage \in BOOLEAN

Byte    == 0..255
Slash   == 47
Percent == 37

\* A path as FUSE gives it: it begins with a slash, and not with two.
IsPath(path) ==
  /\ path \in Seq(Byte) /\ path # <<>>
  /\ path[1] = Slash /\ (Len(path) > 1 => path[2] # Slash)

-----------------------------------------------------------------------------
(* convert_charsets.  What iconv refuses is copied byte by byte.            *)

\* Two bytes of UTF-8 for a character of Latin-1.
Utf8(c) == <<192 + (c \div 64), 128 + (c % 64)>>
IsUtf8(s, i) ==
  i < Len(s) /\ s[i] \in {194, 195} /\ s[i + 1] \in 128..191

ToIocharset(s) ==
  FlattenSeq([i \in DOMAIN s |-> IF s[i] > 127 THEN Utf8(s[i]) ELSE <<s[i]>>])

ToCodepage(s) ==
  LET rest[i \in 1..(Len(s) + 2)] ==
        IF i > Len(s) THEN <<>>
        ELSE IF IsUtf8(s, i)
               THEN <<64 * (s[i] % 4) + (s[i + 1] % 64)>> \o rest[i + 2]
               ELSE <<s[i]>> \o rest[i + 1]
  IN rest[1]

\* A name as the server has it, and a name of the server as FUSE shows it.
Server(s) == IF codepage THEN ToCodepage(s) ELSE s
Local(s)  == IF codepage THEN ToIocharset(s) ELSE s

-----------------------------------------------------------------------------
(* url_encode.                                                             *)

isalnum(c) == c \in (48..57) \union (65..90) \union (97..122)

\* The hexadecimal digit of the low four bits.
to_hex(code) == (code % 16) + IF code % 16 < 10 THEN 48 ELSE 87

\* -_.~:/ are left as they are, too.
Kept(c) == isalnum(c) \/ c \in {45, 95, 46, 126, 58, Slash}

\* Mutant: a percent sign is left as it is.
url_encode_percent(str) ==
  FlattenSeq([i \in DOMAIN str |->
    IF Kept(str[i]) \/ str[i] = Percent THEN <<str[i]>>
    ELSE <<Percent, to_hex(str[i] \div 16), to_hex(str[i])>>])

url_encode(str) ==
  FlattenSeq([i \in DOMAIN str |->
    IF Kept(str[i]) THEN <<str[i]>>
    ELSE <<Percent, to_hex(str[i] \div 16), to_hex(str[i])>>])

-----------------------------------------------------------------------------
(* The functions of path_utils.c.                                          *)

\* The place of the last slash of path (strrchr).
LastSlash(path) ==
  CHOOSE i \in DOMAIN path :
    path[i] = Slash /\ \A j \in (i + 1)..Len(path) : path[j] # Slash

FileName(path) == SubSeq(path, LastSlash(path) + 1, Len(path))
\* Without the slashes around it.
DirName(path)  == SubSeq(path, 2, LastSlash(path) - 1)

SlashUnless(empty) == IF empty THEN <<>> ELSE <<Slash>>

get_file_name(path) == url_encode(Server(FileName(path)))

get_full_path(host, path) == url_encode(host \o Server(Tail(path)))

get_fulldir_path(host, path) ==
  url_encode(host \o Server(Tail(path)) \o SlashUnless(Tail(path) = <<>>))

get_dir_path(host, path) ==
  url_encode(host \o Server(DirName(path)) \o SlashUnless(DirName(path) = <<>>))

-----------------------------------------------------------------------------
(* libcurl decodes the path of a URL.  The name of the server before it is *)
(* left as it is, but has nothing to decode (see Listing).                 *)

HexValue(c) == IF c \in 48..57 THEN c - 48 ELSE c - 87
IsHex(c)    == c \in (48..57) \union (97..102)

IsEscape(url, i) ==
  /\ url[i] = Percent /\ i + 2 <= Len(url)
  /\ IsHex(url[i + 1]) /\ IsHex(url[i + 2])

Unescaped(url) ==
  LET rest[i \in 1..(Len(url) + 3)] ==
        IF i > Len(url) THEN <<>>
        ELSE IF IsEscape(url, i)
               THEN <<16 * HexValue(url[i + 1]) + HexValue(url[i + 2])>>
                      \o rest[i + 3]
               ELSE <<url[i]>> \o rest[i + 1]
  IN rest[1]
=============================================================================
