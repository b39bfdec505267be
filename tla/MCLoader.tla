------------------------------ MODULE MCLoader ------------------------------
(* An application with a module that needs translation and requires back, and *)
(* a package with a "main", a vendored name and a JSON file.                   *)
EXTENDS Loader, TLC

MCNames == STRING
App == <<"app">>
MCFiles ==
  <<"app", "main.js">> :> "js" @@ <<"app", "lib.js">> :> "modern" @@ <<"app", "data.json">> :> "json"
  @@ <<"node_modules", "pkg", "code.js">> :> "loop" @@ <<"app", "vendor", "pkg.js">> :> "broken"
MCMainOf == <<"node_modules", "pkg">> :> <<".", "code">>
MCEntry == <<"app", "main.js">>
Relative(at) == [kind |-> "relative", at |-> at]
Bare(at) == [kind |-> "bare", at |-> at]
MCSpecs == {Relative(<<".", "main">>), Relative(<<".", "lib.js">>), Relative(<<"..", "app", "data">>),
            Bare(<<"pkg">>), Bare(<<"fs">>), Bare(<<"nowhere">>)}
MCGlobalVendor == <<App>>
MCEdited == {<<"app", "lib.js">>, <<"node_modules", "pkg", "code.js">>}
=============================================================================
