--------------------------- MODULE MCContextWalk ----------------------------
(***************************************************************************)
(* ContextWalk for TLC.  Characters: 1 stands for those below the          *)
(* separator (2), the others are letters.  The staging directory's name    *)
(* has one below it, as in ".com.apple.container".  Of the names of the    *)
(* tree one is what comes before that character, one sorts after the       *)
(* staging directory, and one continues its name with such a character.    *)
(***************************************************************************)
EXTENDS ContextWalk

MCStaging      == <<4, 1, 3>>
MCDockerfile   == <<5>>
MCDockerignore == <<5, 1, 3>>
MCMarker       == <<6>>
Before         == <<4>>
Between        == <<4, 1, 3, 1>>
After          == <<5>>

MCPaths == {<<>>, <<Before>>, <<Before, After>>, <<Between>>, <<After>>,
            <<After, Between>>, <<MCStaging, After>>, <<MCMarker>>,
            <<MCMarker, After>>}

Files == Range(Synthetic)
MCMetas == [mode : {"tar"}, named : {TRUE}, follow : {{}, {Synthetic[1]}, Files}, globs : {{}},
            filled : {{Synthetic[1]}, Files},
            excluded : {{}, {MCStaging}, {Before}, {MCStaging, Before, Between, After}}]
             \cup [mode : {"tar", "json"}, named : {FALSE}, follow : {{}}, globs : {Files},
                   filled : {Files}, excluded : {{MCStaging}}]
=============================================================================
