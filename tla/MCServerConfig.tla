--------------------------- MODULE MCServerConfig ---------------------------
(* URL map files for ServerConfig: two good ones that share a pattern, one   *)
(* whose second entry is bad, and one that cannot be read.                   *)
EXTENDS ServerConfig

Entry(matches, command_, args) == [matches |-> matches, command |-> command_, args |-> args]
Listing == Entry({"/"}, "list", {"base-path"})
Download == Entry({"/", "/get"}, "download", {"depth"})
Upload == Entry({"/put"}, "upload", {})

Broken == Entry(Invalid, "broken", {})

Files == {<<Listing, Download>>, <<Upload, Broken>>, <<Download, Bad>>, Unreadable}
GoodFiles == {<<Listing, Download>>, <<Upload, Listing>>}
Typed(key, value) == [key |-> key, value |-> value]
AllTokens ==
  { Typed("remap", None), Typed("url-map", "b.json"), Typed("ping", "1"),
    Typed("ping", "x"), Typed("base-path", "1"), Typed("help", None) }
Alike == Permutations(Handlers)
RemapToken == {Typed("remap", None)}
=============================================================================
