------------------------------ MODULE MCBuild -------------------------------
(***************************************************************************)
(* Two platforms and this Dockerfile:                                      *)
(*   FROM --platform=amd64 c AS b   (an image: the stage c comes later)    *)
(*   FROM b AS c                                                           *)
(*   COPY --from=c                  (a stage)                              *)
(*   COPY --from=d                  (an image)                             *)
(***************************************************************************)
EXTENDS Build

MCPlatforms == {"amd64", "arm64"}
MCBaseName == <<"c", "b">>
MCStageName == <<"b", "c">>
MCStagePlatform == <<"amd64", "none">>
MCCopyFrom == <<"c", "d">>
MCExportLists == {<<>>, <<"local">>, <<"local", "file">>, <<"file", "file">>}
=============================================================================
