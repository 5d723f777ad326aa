------------------------------ MODULE Promotions ------------------------------
(* Offers and campaigns, which staff edit side by side. *)
EXTENDS Offers, Campaigns

PromotionsInit == OffersInit /\ CampaignsInit /\ RequestsInit

PromotionsNext(rows, changes, terms, edits, bulks) ==
  \/ OffersNext(rows, changes) /\ UNCHANGED campaignVars
  \/ CampaignsNext(terms, edits, bulks, CampaignIds) /\ UNCHANGED offerVars

PromotionsSpec(rows, changes, terms, edits, bulks) ==
  /\ PromotionsInit
  /\ [][PromotionsNext(rows, changes, terms, edits, bulks)]_<<requestVars, offerVars, campaignVars>>

-----------------------------------------------------------------------------
(* Properties. *)

\* What staff may combine stays whole, in offers (OfferWhole) and in campaigns
\* (CampaignWhole).
TermsWhole == OfferWhole /\ CampaignWhole
=============================================================================
