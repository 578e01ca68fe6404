------------------------------ MODULE MCMount ------------------------------
(***************************************************************************)
(* Two handles, a file of three bytes, one of one byte and an empty one.   *)
(* The window shrinks beyond one byte and the range string holds three     *)
(* binary digits.                                                          *)
(***************************************************************************)
EXTENDS Mount

MCLength == [f \in Files |-> CASE f = "a" -> 3 [] f = "b" -> 1 [] OTHER -> 0]

\* Command lines.
Opt(name, param) == [name |-> name, param |-> param]
Flag(name)       == Opt(name, None)
Prog       == Arg("word", <<Flag("curlftpfs")>>)
Site       == Arg("word", <<Flag("site")>>)
SiteUrl    == [Site EXCEPT !.scheme = TRUE, !.slash = TRUE]
Mountpoint == Arg("word", <<Flag("mountpoint")>>)
Single(name) == Arg("dash", <<Flag(name)>>)

Users(u, p) == <<Opt("user", u), Opt("proxy_user", p)>>
Known == Users("name", "name:password")

Lists ==
  { <<>>,
    <<Flag("allow_other")>>,
    <<Flag("transform_symlinks"), Flag("debug")>>,
    <<Flag("enable_epsv"), Flag("disable_epsv")>>,
    <<Opt("ftpfs_debug", "3"), Flag("debug"), Flag("cache=no")>>,
    <<Flag("cache=no"), Flag("cache=yes"), Opt("cache_timeout", "3")>>,
    <<Opt("cache_timeout", "3"), Opt("cache_dir_timeout", "0")>>,
    <<Opt("cache_link_timeout", "0"), Opt("cache_timeout", "3")>>,
    <<Opt("iocharset", "x"), Opt("cache_stat_timeout", "many")>>,
    <<Opt("ftpfs_debug", "")>>,
    <<Flag("ftpfs_debug")>> }

\* "-oa,b" or "-o a,b".
Grouped(list) ==
  IF list = <<>> THEN {<<>>}
  ELSE {<<Arg("o", list)>>, <<Arg("o", <<>>), Arg("word", list)>>}

Words == {<<Site, Mountpoint>>, <<SiteUrl, Mountpoint, Site>>, <<Site>>,
          <<>>, <<Dashes, Site, Mountpoint>>, <<Dashes, Site>>,
          <<Dashes, Single("-x"), Mountpoint>>}

\* Each list before the words or after them; each kind of user; the arguments
\* at which parsing ends.
MCCommandLines ==
  UNION {
    {<<Prog>> \o g \o <<Single("-f")>> \o w : g \in Grouped(Known \o l), w \in Words}
      \union {<<Prog, Site, Single("-v")>> \o g \o <<Mountpoint, Arg("o", Known)>> :
                g \in Grouped(l)} :
    l \in Lists }
  \union {<<Prog, Site, Mountpoint, Arg("o", u)>> :
            u \in {<<>>, <<Opt("user", "name:password")>>,
                   Users("name:password", "name")}}
  \union {<<Prog, Single("-h")>>, <<Prog, Site, Single("-V")>>}

\* The example of the README.
Documented == {<<Prog, SiteUrl, Mountpoint>>}
=============================================================================
