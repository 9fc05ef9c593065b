------------------------------ MODULE MCUsbTree ------------------------------
(* The hub of a Raspberry Pi with its Ethernet controller, a mouse, and    *)
(* behind a full-speed hub a low-speed keyboard with a MIDI interface.     *)
EXTENDS UsbTree, TLC

CONSTANTS hub, eth, mouse, fshub, keys

Devices == {hub, eth, mouse, fshub, keys}
Wiring == (hub :> Host) @@ (eth :> hub) @@ (mouse :> hub) @@ (fshub :> hub) @@ (keys :> fshub)
Plugs == (hub :> 1) @@ (eth :> 1) @@ (mouse :> 2) @@ (fshub :> 3) @@ (keys :> 1)
Sizes == (hub :> 3) @@ (eth :> 0) @@ (mouse :> 0) @@ (fshub :> 2) @@ (keys :> 0)
Speeds == (hub :> "high") @@ (eth :> "high") @@ (mouse :> "full") @@ (fshub :> "full")
          @@ (keys :> "low")
Selected == (hub :> <<"hub">>) @@ (eth :> <<"smsc">>) @@ (mouse :> <<"umouse">>)
            @@ (fshub :> <<"hub">>) @@ (keys :> <<"ukbd", "umidi">>)
=============================================================================
