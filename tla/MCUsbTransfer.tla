---------------------------- MODULE MCUsbTransfer ----------------------------
(* Model values of UsbTransfer for TLC.                                    *)
EXTENDS UsbTransfer

Keyboard == "keyboard"   \* low speed, behind a hub: split transactions
Mouse == "mouse"         \* reached without split transactions

TwoHids == {Keyboard, Mouse}
OneHid == {Mouse}
SplitKeyboard == {Keyboard}
SplitMain == {Main}
NoSplits == {}
=============================================================================
