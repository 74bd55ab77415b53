-------------------------- MODULE MCCampaignStream --------------------------
(* Instances of CampaignStream for TLC.  Capacity 11 is the smallest memory   *)
(* the design admits: two blocks of the largest size and a delimiter.         *)
EXTENDS CampaignProperties

\* One arm of each shape: dependence at distance one, behind a load, two
\* producers, and the jump over two words.
MCArms == {"A0", "A3", "A4", "A7"}
=============================================================================
