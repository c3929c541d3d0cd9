-------------------------- MODULE MCServerRegistry --------------------------
(* A world server with a room server and a game server, for TLC. *)
EXTENDS ServerRegistry, TLC

CONSTANTS room, game

WorldTypes  == <<"ROOM_SERVER", "GAME_SERVER">>
WorldTypeOf == (room :> "ROOM_SERVER") @@ (game :> "GAME_SERVER")
=============================================================================
